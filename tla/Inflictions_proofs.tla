--------------------------- MODULE Inflictions_proofs ---------------------------
(***************************************************************************)
(* Proofs about Inflictions, for every number of forms, retries, visits    *)
(* and inflictions.                                                        *)
(*                                                                         *)
(* SilencedForMute is not inductive: a mute is stored in two fields, and   *)
(* a permanent one leaves the time of an earlier one in place.  Backed     *)
(* says which infliction stands behind the two, and Answers what the       *)
(* goroutine of a form, which applies an infliction long after it was      *)
(* requested, has to know of it by then.                                   *)
(***************************************************************************)
EXTENDS Inflictions, WellFoundedInduction, TLAPS

\* The moderation service has accepted infliction n.
Accepted(n) == n \in Number /\ (n \in recorded \/ closed)

\* Infliction n is a mute that lasts as long as own.until says, or for good.
StandsBehind(n, until) ==
    /\ Accepted(n) /\ issued[n].type = "MUTED"
    /\ issued[n].until \in {until, Permanent}

Backed == own.muted => \E n \in Number : StandsBehind(n, own.until)

FormOK(f) ==
    /\ f.pc # "idle" => f.n \in Number
    /\ (f.pc = "answered" /\ f.op = "add" /\ ~f.err) => Accepted(f.n)

Answers == \A f \in Form : FormOK(form[f])

Inv ==
    /\ TypeOK
    /\ Backed
    /\ Answers
    /\ load.found \subseteq recorded
    /\ StuckForReason

-----------------------------------------------------------------------------
(* Sets and sequences *)

LEMMA MaxIsIn ==
    ASSUME NEW S \in SUBSET Nat, NEW k \in Nat, \A n \in S : n <= k, S # {}
    PROVE  Max(S) \in S /\ \A n \in S : Max(S) >= n
<1> DEFINE below == {k - n : n \in S}
<1>1. below \subseteq Nat /\ below # {}
  OBVIOUS
<1>2. PICK x \in below : \A y \in below : ~(<<y, x>> \in OpToRel(<, Nat))
  BY <1>1, NatLessThanWellFounded, WFMin
<1>3. \A y \in below : ~(y < x)
  BY <1>1, <1>2 DEF OpToRel
<1>4. PICK m \in S : x = k - m
  BY <1>2
<1>5. ASSUME NEW n \in S PROVE m >= n
  <2>1. ~(k - n < k - m)
    BY <1>3, <1>4
  <2>2. QED
    BY <2>1
<1>6. \E z \in S : \A n \in S : z >= n
  BY <1>5
<1>7. QED
  BY <1>6 DEF Max

-----------------------------------------------------------------------------
(* What steps have in common *)

\* What has been submitted and accepted stays so.
Goes ==
    /\ recorded \subseteq recorded' /\ (closed => closed')
    /\ Number \subseteq Number' /\ \A n \in Number : issued'[n] = issued[n]

LEMMA SubmittedStays ==
    ASSUME UNCHANGED <<issued, recorded>>, closed => closed'
    PROVE  Goes
  BY DEF Goes, Number

LEMMA BackingStays ==
    ASSUME Goes, NEW n \in Number, NEW until, StandsBehind(n, until)
    PROVE  n \in Number' /\ StandsBehind(n, until)'
<1>1. n \in Number' /\ issued'[n] = issued[n]
  BY DEF Goes
<1>2. n \in recorded' \/ closed'
  BY DEF Goes, StandsBehind, Accepted
<1>3. QED
  BY <1>1, <1>2 DEF StandsBehind, Accepted

\* The flags that a step leaves alone are still backed.
LEMMA StillBacked ==
    ASSUME Inv, Goes, own'.muted => own.muted /\ own'.until = own.until
    PROVE  Backed'
<1>1. SUFFICES ASSUME own'.muted
               PROVE  \E n \in Number' : StandsBehind(n, own.until)'
  BY DEF Backed
<1>2. PICK n \in Number : StandsBehind(n, own.until)
  BY <1>1 DEF Inv, Backed
<1>3. PICK until : until = own.until /\ until = own'.until
  BY <1>1
<1>4. n \in Number' /\ StandsBehind(n, until)'
  BY <1>2, <1>3, BackingStays
<1>5. QED
  BY <1>3, <1>4 DEF StandsBehind

\* The form that a step is about is in order, and so are the others.
LEMMA FormsStay ==
    ASSUME Inv, Goes, NEW f \in Form, \A h \in Form : h # f => form'[h] = form[h],
           NEW e, form'[f] = e, FormOK(e)'
    PROVE  Answers'
<1>0. FormOK(form[f])'
  BY DEF FormOK
<1>1. SUFFICES ASSUME NEW h \in Form, h # f PROVE FormOK(form[h])'
  BY <1>0 DEF Answers
<1>2. PICK g : g = form[h] /\ g = form'[h]
  BY <1>1
<1>3. FormOK(g)
  BY <1>1, <1>2 DEF Inv, Answers
<1>4. FormOK(g)'
  BY <1>3 DEF FormOK, Goes, Accepted
<1>5. QED
  BY <1>2, <1>4 DEF FormOK

LEMMA AllFormsStay ==
    ASSUME Inv, Goes, UNCHANGED form
    PROVE  Answers'
<1>1. SUFFICES ASSUME NEW h \in Form PROVE FormOK(form[h])'
  BY DEF Answers
<1>2. PICK g : g = form[h]
  OBVIOUS
<1>3. FormOK(g)
  BY <1>1, <1>2 DEF Inv, Answers
<1>4. FormOK(g)'
  BY <1>3 DEF FormOK, Goes, Accepted
<1>5. QED
  BY <1>2, <1>4 DEF FormOK

-----------------------------------------------------------------------------
(* The steps *)

LEMMA InflictionFields ==
    ASSUME TypeOK, NEW n \in Number
    PROVE  /\ issued[n].type \in Type /\ issued[n].until \in Expiry \cup {Permanent}
           /\ n \in Nat /\ n <= Len(issued)
<1>1. Len(issued) \in Nat /\ issued[n] \in Infliction
  BY DEF TypeOK, Number
<1>2. QED
  BY <1>1 DEF Infliction, Number

LEMMA InitInv == Init => Inv
<1> SUFFICES ASSUME Init PROVE Inv
  OBVIOUS
<1>1. issued = <<>> /\ issued \in Seq(Infliction) /\ Len(issued) = 0
  BY DEF Init
<1>0. own \in [muted : BOOLEAN, until : Expiry \cup {Permanent}, frozen : BOOLEAN]
  BY DEF Init, Nothing
<1>2. TypeOK
  <2>1. form \in [Form -> [pc : {"idle", "request", "answered"}, op : {"none", "add", "remove"},
                           n : 0..MaxSubmits, attempt : 0..MaxRetries, err : BOOLEAN]]
    BY InflictionsAssumption DEF Init, Idle
  <2>2. load \in [pc : {"none", "waiting", "queued", "fetched", "stored"}, found : SUBSET Number]
    BY DEF Init, NoLoad
  <2>3. 0 \in 0..MaxTime /\ 0 \in 0..MaxVisits /\ Len(issued) <= MaxSubmits
    BY <1>1, InflictionsAssumption
  <2>4. current \subseteq recorded /\ recorded \subseteq Number
    BY DEF Init
  <2>5. QED
    BY <1>0, <1>1, <2>1, <2>2, <2>3, <2>4 DEF Init, TypeOK
<1>3. QED
  BY <1>1, <1>2 DEF Init, Inv, Backed, Answers, FormOK, Nothing, NoLoad, Idle, StuckForReason

LEMMA SubmitCreateKeeps ==
    ASSUME Inv, NEW f \in Form, NEW inf \in Infliction, SubmitCreate(f, inf)
    PROVE  Inv'
<1>1. /\ issued \in Seq(Infliction) /\ Len(issued) \in Nat /\ Len(issued) < MaxSubmits
      /\ issued' = Append(issued, inf)
      /\ UNCHANGED <<now, visits, here, own, mobile, run, load, current, recorded, closed>>
  BY DEF SubmitCreate, player, Inv, TypeOK
<1>2. /\ issued' \in Seq(Infliction) /\ Len(issued') = Len(issued) + 1
      /\ \A n \in 1..Len(issued) : issued'[n] = issued[n]
  BY <1>1
<1>3. Goes
  BY <1>1, <1>2 DEF Goes, Number
<1>4. PICK g : /\ g = [Idle EXCEPT !.pc = "request", !.op = "add", !.n = Len(issued')]
               /\ form' = [form EXCEPT ![f] = g]
  BY DEF SubmitCreate
<1>5. /\ g \in [pc : {"idle", "request", "answered"}, op : {"none", "add", "remove"},
                n : 0..MaxSubmits, attempt : 0..MaxRetries, err : BOOLEAN]
      /\ g.pc = "request" /\ g.n = Len(issued) + 1
  <2>1. PICK n : n = Len(issued')
    OBVIOUS
  <2>2. n = Len(issued) + 1 /\ n \in 0..MaxSubmits /\ 0 \in 0..MaxRetries
    BY <1>1, <1>2, <2>1, InflictionsAssumption
  <2>3. g = [pc |-> "request", op |-> "add", n |-> n, attempt |-> 0, err |-> FALSE]
    BY <1>4, <2>1 DEF Idle
  <2>4. QED
    BY <2>2, <2>3
<1>6. form'[f] = g /\ \A h \in Form : h # f => form'[h] = form[h]
  BY <1>4 DEF Inv, TypeOK
<1>7. TypeOK'
  <2>1. Len(issued') <= MaxSubmits
    BY <1>1, <1>2, InflictionsAssumption
  <2>2. load' \in [pc : {"none", "waiting", "queued", "fetched", "stored"}, found : SUBSET Number']
    BY <1>1, <1>3 DEF Inv, TypeOK, Goes
  <2>3. current' \subseteq recorded' /\ recorded' \subseteq Number'
    BY <1>1, <1>3 DEF Inv, TypeOK, Goes
  <2>4. QED
    BY <1>1, <1>2, <1>4, <1>5, <2>1, <2>2, <2>3 DEF Inv, TypeOK
<1>8. Answers'
  <2>1. FormOK(g)'
    BY <1>1, <1>2, <1>5 DEF FormOK, Number
  <2>2. QED
    BY <1>3, <1>6, <2>1, FormsStay
<1>9. QED
  BY <1>1, <1>3, <1>7, <1>8, StillBacked DEF Inv, StuckForReason

LEMMA SubmitRemoveKeeps ==
    ASSUME Inv, NEW f \in Form, NEW n \in Number, SubmitRemove(f, n)
    PROVE  Inv'
<1>1. UNCHANGED <<now, visits, here, own, mobile, run, load, issued, current, recorded, closed>>
  BY DEF SubmitRemove, player, service
<1>2. Goes /\ Number' = Number
  BY <1>1 DEF Goes, Number
<1>3. PICK g : /\ g = [Idle EXCEPT !.pc = "request", !.op = "remove", !.n = n]
               /\ form' = [form EXCEPT ![f] = g]
  BY DEF SubmitRemove
<1>4. n \in 0..MaxSubmits
  <2>1. Len(issued) \in Nat /\ Len(issued) <= MaxSubmits /\ MaxSubmits \in Nat
    BY InflictionsAssumption DEF Inv, TypeOK
  <2>2. QED
    BY <2>1 DEF Number
<1>5. /\ g \in [pc : {"idle", "request", "answered"}, op : {"none", "add", "remove"},
                n : 0..MaxSubmits, attempt : 0..MaxRetries, err : BOOLEAN]
      /\ g.pc = "request" /\ g.n = n
  <2>1. g = [pc |-> "request", op |-> "remove", n |-> n, attempt |-> 0, err |-> FALSE]
    BY <1>3 DEF Idle
  <2>2. 0 \in 0..MaxRetries
    BY InflictionsAssumption
  <2>3. QED
    BY <1>4, <2>1, <2>2
<1>6. form'[f] = g /\ \A h \in Form : h # f => form'[h] = form[h]
  BY <1>3 DEF Inv, TypeOK
<1>7. TypeOK'
  BY <1>1, <1>2, <1>3, <1>5 DEF Inv, TypeOK
<1>8. Answers'
  <2>1. FormOK(g)'
    BY <1>2, <1>5 DEF FormOK
  <2>2. QED
    BY <1>2, <1>6, <2>1, FormsStay
<1>9. QED
  BY <1>1, <1>2, <1>7, <1>8, StillBacked DEF Inv, StuckForReason

\* A request that is answered without an error was accepted, or never sent.
LEMMA AttemptKeeps ==
    ASSUME Inv, NEW f \in Form, Attempt(f)
    PROVE  Inv'
<1>1. /\ UNCHANGED <<now, visits, here, own, mobile, run, load, issued, closed>>
      /\ form[f].pc = "request" /\ form[f].n \in Number
      /\ form[f] \in [pc : {"idle", "request", "answered"}, op : {"none", "add", "remove"},
                      n : 0..MaxSubmits, attempt : 0..MaxRetries, err : BOOLEAN]
  BY DEF Attempt, player, Inv, Answers, FormOK, TypeOK
<1>2. /\ recorded \subseteq recorded' /\ recorded' \subseteq Number /\ current' \subseteq recorded'
      /\ Number' = Number
  BY <1>1 DEF Attempt, Refuse, Succeed, TimeOut, Fail, TakesEffect, NoEffect, Inv, TypeOK, Number
<1>3. Goes
  BY <1>1, <1>2 DEF Goes
<1>4. PICK g : /\ form' = [form EXCEPT ![f] = g]
               /\ g \in [pc : {"idle", "request", "answered"}, op : {"none", "add", "remove"},
                         n : 0..MaxSubmits, attempt : 0..MaxRetries, err : BOOLEAN]
               /\ g.n = form[f].n /\ g.op = form[f].op
               /\ (g.pc = "answered" /\ ~g.err /\ g.op = "add") => g.n \in recorded' \/ closed
  <2>1. CASE Refuse(f)
    <3>1. PICK g : g = [form[f] EXCEPT !.pc = "answered", !.err = form[f].err]
      OBVIOUS
    <3>2. /\ g \in [pc : {"idle", "request", "answered"}, op : {"none", "add", "remove"},
                    n : 0..MaxSubmits, attempt : 0..MaxRetries, err : BOOLEAN]
          /\ g.n = form[f].n /\ g.op = form[f].op
      BY <1>1, <3>1
    <3>3. form' = [form EXCEPT ![f] = g] /\ closed
      BY <2>1, <3>1 DEF Refuse, Ends, Inv, TypeOK
    <3>4. QED
      BY <3>2, <3>3
  <2>2. CASE Succeed(f)
    <3>1. PICK g : g = [form[f] EXCEPT !.pc = "answered", !.err = FALSE]
      OBVIOUS
    <3>2. /\ g \in [pc : {"idle", "request", "answered"}, op : {"none", "add", "remove"},
                    n : 0..MaxSubmits, attempt : 0..MaxRetries, err : BOOLEAN]
          /\ g.n = form[f].n /\ g.op = form[f].op
      BY <1>1, <3>1
    <3>3. form' = [form EXCEPT ![f] = g]
      BY <2>2, <3>1 DEF Succeed, Ends, Inv, TypeOK
    <3>4. form[f].op = "add" => form[f].n \in recorded'
      BY <2>2 DEF Succeed, TakesEffect
    <3>5. QED
      BY <3>2, <3>3, <3>4
  <2>3. ASSUME Ends(f, TRUE)
        PROVE  \E g \in [pc : {"idle", "request", "answered"}, op : {"none", "add", "remove"},
                         n : 0..MaxSubmits, attempt : 0..MaxRetries, err : BOOLEAN] :
                  /\ form' = [form EXCEPT ![f] = g]
                  /\ g.n = form[f].n /\ g.op = form[f].op /\ g.err
    <3>1. PICK g : g = [form[f] EXCEPT !.pc = "answered", !.err = TRUE]
      OBVIOUS
    <3>2. /\ g \in [pc : {"idle", "request", "answered"}, op : {"none", "add", "remove"},
                    n : 0..MaxSubmits, attempt : 0..MaxRetries, err : BOOLEAN]
          /\ g.n = form[f].n /\ g.op = form[f].op /\ g.err
      BY <1>1, <3>1
    <3>3. form' = [form EXCEPT ![f] = g]
      BY <2>3, <3>1 DEF Ends, Inv, TypeOK
    <3>4. QED
      BY <3>2, <3>3
  <2>4. CASE /\ form[f].attempt < MaxRetries
             /\ form' = [form EXCEPT ![f].attempt = @ + 1, ![f].err = TRUE]
    <3>1. PICK g : g = [form[f] EXCEPT !.attempt = @ + 1, !.err = TRUE]
      OBVIOUS
    <3>2. form[f].attempt + 1 \in 0..MaxRetries
      BY <1>1, <2>4, InflictionsAssumption
    <3>3. /\ g \in [pc : {"idle", "request", "answered"}, op : {"none", "add", "remove"},
                    n : 0..MaxSubmits, attempt : 0..MaxRetries, err : BOOLEAN]
          /\ g.n = form[f].n /\ g.op = form[f].op /\ g.err
      BY <1>1, <3>1, <3>2
    <3>4. form' = [form EXCEPT ![f] = g]
      BY <2>4, <3>1 DEF Inv, TypeOK
    <3>5. QED
      BY <3>3, <3>4
  <2>5. CASE Fail(f) \/ TimeOut(f)
    BY <2>3, <2>4, <2>5 DEF Fail, TimeOut, Retry
  <2>6. QED
    BY <2>1, <2>2, <2>5 DEF Attempt
<1>5. form'[f] = g /\ \A h \in Form : h # f => form'[h] = form[h]
  BY <1>4 DEF Inv, TypeOK
<1>6. TypeOK'
  BY <1>1, <1>2, <1>4 DEF Inv, TypeOK
<1>7. Answers'
  <2>1. FormOK(g)'
    BY <1>1, <1>2, <1>4 DEF FormOK, Accepted
  <2>2. QED
    BY <1>3, <1>5, <2>1, FormsStay
<1>8. load'.found \subseteq recorded'
  BY <1>1, <1>2 DEF Inv
<1>9. QED
  BY <1>1, <1>3, <1>6, <1>7, <1>8, StillBacked DEF Inv, StuckForReason

\* What is applied is the infliction that the form has submitted, as accepted.
LEMMA FinishKeeps ==
    ASSUME Inv, NEW f \in Form, Finish(f)
    PROVE  Inv'
<1>1. /\ UNCHANGED <<now, issued, current, recorded, closed>> /\ form[f].pc = "answered"
      /\ form' = [form EXCEPT ![f] = Idle]
  BY DEF Finish, service
<1>2. Goes /\ Number' = Number
  BY <1>1 DEF Goes, Number
<1>3. /\ form' \in [Form -> [pc : {"idle", "request", "answered"}, op : {"none", "add", "remove"},
                             n : 0..MaxSubmits, attempt : 0..MaxRetries, err : BOOLEAN]]
      /\ form'[f] = Idle /\ \A h \in Form : h # f => form'[h] = form[h]
  <2>1. Idle \in [pc : {"idle", "request", "answered"}, op : {"none", "add", "remove"},
                  n : 0..MaxSubmits, attempt : 0..MaxRetries, err : BOOLEAN]
    BY InflictionsAssumption DEF Idle
  <2>2. QED
    BY <1>1, <2>1 DEF Inv, TypeOK
<1>4. Answers'
  <2>1. FormOK(Idle)'
    BY DEF FormOK, Idle
  <2>2. QED
    BY <1>2, <1>3, <2>1, FormsStay
<1>5. SUFFICES /\ visits' \in 0..MaxVisits /\ here' \in BOOLEAN /\ mobile' \in BOOLEAN
               /\ own' \in [muted : BOOLEAN, until : Expiry \cup {Permanent}, frozen : BOOLEAN]
               /\ run' \in {"none", "countdown", "running"}
               /\ load' \in {load, NoLoad}
               /\ Backed' /\ StuckForReason'
  <2>1. /\ NoLoad \in [pc : {"none", "waiting", "queued", "fetched", "stored"},
                       found : SUBSET Number]
        /\ NoLoad.found = {}
    BY DEF NoLoad
  <2>2. QED
    BY <1>1, <1>2, <1>3, <1>4, <2>1 DEF Inv, TypeOK
<1>6. CASE UNCHANGED player
  <2>1. UNCHANGED <<visits, here, own, mobile, run, load>>
    BY <1>6 DEF player
  <2>2. QED
    BY <1>2, <2>1, StillBacked DEF Inv, TypeOK, StuckForReason
<1>0. PICK n : n = form[f].n
  OBVIOUS
<1> DEFINE inf == issued[n]
<1>7. CASE here /\ ~form[f].err /\ form[f].op = "add" /\ Inflict(inf)
  <2>1. n \in Number /\ Accepted(n)
    BY <1>1, <1>7, <1>0 DEF Inv, Answers, FormOK
  <2>2. inf.until \in Expiry \cup {Permanent}
    BY <2>1, InflictionFields DEF Inv
  <2>3. CASE inf.type = "MUTED" /\ own' = Mutes(own, inf) /\ UNCHANGED <<visits, here, mobile, run, load>>
    <3>1. PICK u : u = IF inf.until # Permanent THEN inf.until ELSE own.until
      OBVIOUS
    <3>2. /\ u \in Expiry \cup {Permanent} /\ own'.until = u /\ own'.frozen = own.frozen
          /\ own' \in [muted : BOOLEAN, until : Expiry \cup {Permanent}, frozen : BOOLEAN]
      BY <2>2, <2>3, <3>1 DEF Mutes, Inv, TypeOK
    <3>3. n \in Number' /\ StandsBehind(n, u)'
      <4>1. StandsBehind(n, u)
        BY <2>1, <2>3, <3>1 DEF StandsBehind
      <4>2. QED
        BY <1>2, <2>1, <4>1, BackingStays
    <3>4. Backed'
      BY <3>2, <3>3 DEF Backed, StandsBehind
    <3>5. QED
      BY <2>3, <3>2, <3>4 DEF Inv, TypeOK, StuckForReason
  <2>4. CASE /\ inf.type = "FROZEN" /\ own' = [own EXCEPT !.frozen = TRUE] /\ mobile' = FALSE
             /\ UNCHANGED <<visits, here, run, load>>
    <3>1. /\ own' \in [muted : BOOLEAN, until : Expiry \cup {Permanent}, frozen : BOOLEAN]
          /\ own'.muted = own.muted /\ own'.until = own.until /\ own'.frozen
      BY <2>4 DEF Inv, TypeOK
    <3>2. QED
      BY <1>2, <2>4, <3>1, StillBacked DEF Inv, TypeOK, StuckForReason
  <2>5. CASE Leaves
    BY <1>2, <2>5, StillBacked DEF Leaves, Inv, TypeOK, StuckForReason
  <2>6. QED
    BY <1>7, <2>3, <2>4, <2>5 DEF Inflict
<1>8. CASE Lift(inf)
  <2>1. CASE own' = [own EXCEPT !.muted = FALSE] /\ UNCHANGED <<visits, here, mobile, run, load>>
    <3>1. /\ own' \in [muted : BOOLEAN, until : Expiry \cup {Permanent}, frozen : BOOLEAN]
          /\ ~own'.muted /\ own'.frozen = own.frozen
      BY <2>1 DEF Inv, TypeOK
    <3>2. QED
      BY <2>1, <3>1 DEF Inv, TypeOK, Backed, StuckForReason
  <2>2. CASE /\ own' = [own EXCEPT !.frozen = FALSE] /\ mobile' = TRUE
             /\ UNCHANGED <<visits, here, run, load>>
    <3>1. /\ own' \in [muted : BOOLEAN, until : Expiry \cup {Permanent}, frozen : BOOLEAN]
          /\ own'.muted = own.muted /\ own'.until = own.until
      BY <2>2 DEF Inv, TypeOK
    <3>2. QED
      BY <1>2, <2>2, <3>1, StillBacked DEF Inv, TypeOK, StuckForReason
  <2>3. QED
    BY <1>6, <1>8, <2>1, <2>2 DEF Lift
<1>9. QED
  BY <1>6, <1>7, <1>8, <1>0 DEF Finish

-----------------------------------------------------------------------------
(* The steps of a load and of the player *)

\* Steps that concern neither the forms nor the moderation service.
LEMMA QuietStep ==
    ASSUME Inv, UNCHANGED <<issued, current, recorded, form>>, closed => closed',
           now' \in 0..MaxTime, visits' \in 0..MaxVisits, here' \in BOOLEAN,
           mobile' \in BOOLEAN, closed' \in BOOLEAN,
           run' \in {"none", "countdown", "running"},
           own' \in [muted : BOOLEAN, until : Expiry \cup {Permanent}, frozen : BOOLEAN],
           load' \in [pc : {"none", "waiting", "queued", "fetched", "stored"},
                      found : SUBSET recorded],
           Backed', StuckForReason'
    PROVE  Inv'
<1>1. Goes /\ Number' = Number
  BY DEF Goes, Number
<1>2. /\ load' \in [pc : {"none", "waiting", "queued", "fetched", "stored"},
                    found : SUBSET Number']
      /\ load'.found \subseteq recorded'
  BY <1>1 DEF Inv, TypeOK
<1>3. QED
  BY <1>1, <1>2, AllFormsStay DEF Inv, TypeOK

\* A load stores what was current when it was fetched; of several timed mutes
\* the time of the last one, which is therefore the time of a mute.
LEMMA StoreKeeps ==
    ASSUME Inv, Store
    PROVE  Inv'
<1> DEFINE timed == {n \in Found("MUTED") : issued[n].until # Permanent}
<1>1. /\ UNCHANGED <<now, visits, here, mobile, run, issued, current, recorded, form, closed>>
      /\ load' = [pc |-> "stored", found |-> {}]
      /\ own' = [muted  |-> own.muted \/ Found("MUTED") # {},
                 until  |-> IF timed = {} THEN own.until ELSE issued[Max(timed)].until,
                 frozen |-> own.frozen \/ Found("FROZEN") # {}]
  BY DEF Store, service
<1>2. Goes /\ Number' = Number
  BY <1>1 DEF Goes, Number
<1>3. ASSUME NEW n \in Found("MUTED")
      PROVE  n \in Number /\ n \in Nat /\ n <= Len(issued) /\ Accepted(n) /\ issued[n].type = "MUTED"
  BY <1>3, InflictionFields DEF Found, Inv, TypeOK, Accepted
<1>4. timed # {} => Max(timed) \in timed
  <2>1. timed \in SUBSET Nat /\ \A n \in timed : n <= Len(issued)
    BY <1>3
  <2>2. Len(issued) \in Nat
    BY DEF Inv, TypeOK
  <2>3. QED
    BY <2>1, <2>2, MaxIsIn
<1>5. PICK u : u = IF timed = {} THEN own.until ELSE issued[Max(timed)].until
  OBVIOUS
<1>6. /\ u \in Expiry \cup {Permanent} /\ own'.until = u
      /\ own'.muted = (own.muted \/ Found("MUTED") # {})
      /\ own'.frozen = (own.frozen \/ Found("FROZEN") # {})
      /\ own' \in [muted : BOOLEAN, until : Expiry \cup {Permanent}, frozen : BOOLEAN]
  <2>1. u \in Expiry \cup {Permanent}
    <3>1. CASE timed = {}
      BY <1>5, <3>1 DEF Inv, TypeOK
    <3>2. CASE timed # {}
      BY <1>3, <1>4, <1>5, <3>2, InflictionFields DEF Inv
    <3>3. QED
      BY <3>1, <3>2
  <2>2. own' = [muted |-> own.muted \/ Found("MUTED") # {}, until |-> u,
                frozen |-> own.frozen \/ Found("FROZEN") # {}]
    BY <1>1, <1>5
  <2>3. own.muted \in BOOLEAN /\ own.frozen \in BOOLEAN
    BY DEF Inv, TypeOK
  <2>4. QED
    BY <2>1, <2>2, <2>3
<1>7. Backed'
  <2>1. ASSUME own'.muted PROVE \E n \in Number : StandsBehind(n, u)
    <3>1. CASE timed # {}
      BY <1>3, <1>4, <1>5, <3>1 DEF StandsBehind
    <3>2. CASE timed = {} /\ Found("MUTED") # {}
      BY <1>3, <3>2 DEF StandsBehind
    <3>3. CASE timed = {} /\ Found("MUTED") = {}
      BY <1>5, <1>6, <2>1, <3>3 DEF Inv, Backed
    <3>4. QED
      BY <3>1, <3>2, <3>3
  <2>2. ASSUME own'.muted PROVE \E n \in Number' : StandsBehind(n, u)'
    BY <1>2, <2>1, <2>2, BackingStays
  <2>3. QED
    BY <1>6, <2>2 DEF Backed, StandsBehind
<1>8. StuckForReason'
  BY <1>1, <1>6 DEF Inv, StuckForReason
<1>9. load' \in [pc : {"none", "waiting", "queued", "fetched", "stored"}, found : SUBSET recorded]
  BY <1>1
<1> HIDE DEF timed
<1>10. QED
  BY <1>1, <1>6, <1>7, <1>8, <1>9, QuietStep DEF Inv, TypeOK

LEMMA LoadKeeps ==
    ASSUME Inv, Load \/ Fetch \/ handleActiveInflictions
    PROVE  Inv'
<1>1. /\ UNCHANGED <<now, visits, here, own, run, issued, current, recorded, form, closed>>
      /\ (mobile' = mobile \/ mobile' = (mobile /\ ~own.frozen))
  BY DEF Load, Fetch, handleActiveInflictions, service
<1>2. load' \in [pc : {"none", "waiting", "queued", "fetched", "stored"}, found : SUBSET recorded]
  <2>1. /\ load \in [pc : {"none", "waiting", "queued", "fetched", "stored"}, found : SUBSET Number]
        /\ load.found \subseteq recorded /\ current \subseteq recorded
    BY DEF Inv, TypeOK
  <2>2. NoLoad \in [pc : {"none", "waiting", "queued", "fetched", "stored"}, found : SUBSET recorded]
    BY DEF NoLoad
  <2>3. CASE Load
    <3>1. PICK pc \in {"queued", "none"} : load' = [load EXCEPT !.pc = pc]
      BY <2>3 DEF Load
    <3>2. QED
      BY <2>1, <3>1
  <2>4. CASE Fetch
    <3>1. CASE load' = NoLoad
      BY <2>2, <3>1
    <3>2. CASE load' # NoLoad
      <4>1. PICK found : /\ found \subseteq current
                         /\ load' = [pc |-> "fetched", found |-> found]
        BY <2>4, <3>2 DEF Fetch
      <4>2. QED
        BY <2>1, <4>1
    <3>3. QED
      BY <3>1, <3>2
  <2>5. QED
    BY <2>2, <2>3, <2>4 DEF handleActiveInflictions
<1>3. Goes
  BY <1>1 DEF Goes, Number
<1>4. mobile' \in BOOLEAN /\ StuckForReason'
  BY <1>1 DEF Inv, TypeOK, StuckForReason
<1>5. QED
  BY <1>1, <1>2, <1>3, <1>4, QuietStep, StillBacked DEF Inv, TypeOK

LEMMA PlayerKeeps ==
    ASSUME Inv, Join \/ Quit \/ StartCourse \/ Go \/ endRun \/ Tick \/ Stop
    PROVE  Inv'
<1>1. UNCHANGED <<issued, current, recorded, form>> /\ (closed => closed') /\ closed' \in BOOLEAN
  BY DEF Join, Quit, StartCourse, Go, endRun, Tick, Stop, service, Inv, TypeOK
<1>2. Goes
  BY <1>1 DEF Goes, Number
<1>3. /\ load \in [pc : {"none", "waiting", "queued", "fetched", "stored"}, found : SUBSET recorded]
      /\ NoLoad \in [pc : {"none", "waiting", "queued", "fetched", "stored"}, found : SUBSET recorded]
      /\ [pc |-> "waiting", found |-> {}]
            \in [pc : {"none", "waiting", "queued", "fetched", "stored"}, found : SUBSET recorded]
  BY DEF Inv, TypeOK, NoLoad
<1>4. CASE Join
  <2>1. /\ ~own'.muted /\ own' \in [muted : BOOLEAN, until : Expiry \cup {Permanent}, frozen : BOOLEAN]
    BY <1>4 DEF Join, Nothing
  <2>2. visits' \in 0..MaxVisits
    BY <1>4, InflictionsAssumption DEF Join, Inv, TypeOK
  <2>3. Backed' /\ StuckForReason'
    BY <1>4, <2>1 DEF Join, Backed, StuckForReason
  <2>4. QED
    BY <1>1, <1>3, <1>4, <2>1, <2>2, <2>3, QuietStep DEF Join, Inv, TypeOK
<1>5. CASE Quit \/ StartCourse \/ Go \/ endRun \/ Tick \/ Stop
  <2>1. own' = own /\ visits' = visits /\ load' \in {load, NoLoad}
    BY <1>5 DEF Quit, Leaves, StartCourse, Go, endRun, Tick, Stop, player
  <2>2. Backed'
    BY <1>2, <2>1, StillBacked
  <2>3. now' \in 0..MaxTime
    BY <1>5, InflictionsAssumption DEF Quit, StartCourse, Go, endRun, Tick, Stop, Inv, TypeOK
  <2>4. /\ here' \in BOOLEAN /\ mobile' \in BOOLEAN /\ run' \in {"none", "countdown", "running"}
        /\ StuckForReason'
    <3>1. CASE Quit
      BY <3>1 DEF Quit, Leaves, Inv, TypeOK, StuckForReason
    <3>2. CASE StartCourse \/ Go \/ endRun
      BY <2>1, <3>2 DEF StartCourse, Go, endRun, Inv, TypeOK, StuckForReason
    <3>3. CASE Tick \/ Stop
      BY <3>3 DEF Tick, Stop, player, Inv, TypeOK, StuckForReason
    <3>4. QED
      BY <1>5, <3>1, <3>2, <3>3
  <2>5. QED
    BY <1>1, <1>3, <2>1, <2>2, <2>3, <2>4, QuietStep DEF Inv, TypeOK
<1>6. QED
  BY <1>4, <1>5

LEMMA NextInv == Inv /\ [Next]_vars => Inv'
<1> SUFFICES ASSUME Inv, [Next]_vars PROVE Inv'
  OBVIOUS
<1>1. CASE UNCHANGED vars
  <2>1. UNCHANGED <<now, visits, here, own, mobile, run, load, issued, current, recorded, form,
                    closed>>
    BY <1>1 DEF vars
  <2>2. Goes
    BY <2>1 DEF Goes, Number
  <2>3. load' \in [pc : {"none", "waiting", "queued", "fetched", "stored"}, found : SUBSET recorded]
    BY <2>1 DEF Inv, TypeOK
  <2>4. StuckForReason'
    BY <2>1 DEF Inv, StuckForReason
  <2>5. QED
    BY <2>1, <2>2, <2>3, <2>4, QuietStep, StillBacked DEF Inv, TypeOK
<1>2. QED
  BY <1>1, SubmitCreateKeeps, SubmitRemoveKeeps, AttemptKeeps, FinishKeeps, LoadKeeps,
     StoreKeeps, PlayerKeeps DEF Next

-----------------------------------------------------------------------------
(* Theorems *)

\* The invariant holds of every run: retries, timeouts, failures, loads that
\* cross forms and callbacks of players that have left included.
THEOREM InflictionsInvariant == Spec => []Inv
<1>1. Init => Inv
  BY InitInv
<1>2. QED
  BY <1>1, NextInv, PTL DEF Spec

\* Whoever cannot talk has a mute that is meant to last until now and that the
\* moderation service has accepted.
THEOREM MutesAreMeant == Spec => []SilencedForMute
<1>1. ASSUME Inv, Silenced
      PROVE  \E n \in Number : /\ issued[n].type = "MUTED"
                               /\ InForce(issued[n].until)
                               /\ n \in recorded \/ closed
  <2>1. PICK n \in Number : StandsBehind(n, own.until)
    BY <1>1 DEF Silenced, Inv, Backed
  <2>2. InForce(issued[n].until)
    BY <1>1, <2>1 DEF StandsBehind, Silenced, InForce
  <2>3. QED
    BY <2>1, <2>2 DEF StandsBehind, Accepted
<1>2. Inv => SilencedForMute
  BY <1>1 DEF SilencedForMute
<1>3. QED
  BY <1>2, InflictionsInvariant, PTL

\* Whoever cannot move is frozen or waits for its parkour run to start.
THEOREM NobodyIsStuck == Spec => []StuckForReason
<1>1. Inv => StuckForReason
  BY DEF Inv
<1>2. QED
  BY <1>1, InflictionsInvariant, PTL

=============================================================================
