------------------------------ MODULE MCAdmission ------------------------------
(***************************************************************************)
(* Admission with bounds.  A run either follows the limited windows of the *)
(* VPN API over several of them, for proxies, with nobody banned and no    *)
(* service closed; or the bans and the shutdown, up to time BanTime.       *)
(***************************************************************************)
EXTENDS Admission

CONSTANT BanTime

VARIABLE about

MCInit == Init /\ about \in {"windows", "bans"}

MCNext ==
    /\ Next
    /\ UNCHANGED about
    /\ IF about = "windows"
       THEN banned' = {} /\ closed' = 0 /\ \A c \in Conn : conn'[c].ip \in Proxy \cup {"none"}
       ELSE now' <= BanTime

MCSpec == MCInit /\ [][MCNext]_<<vars, about>>

=============================================================================
