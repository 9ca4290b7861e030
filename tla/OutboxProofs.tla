---------------------------- MODULE OutboxProofs ----------------------------
(***************************************************************************)
(* What the queue promises about a single operation: it is not lost, and   *)
(* it reaches the tray only for a reason.  Both hold for any facts, tabs   *)
(* and partitions, with locks or without, whatever reloads there are.      *)
(* Then what it promises about the order of operations and about sending   *)
(* one twice, while one tab drains at a time.                              *)
(***************************************************************************)
EXTENDS Outbox, TLAPS, FiniteSetTheorems, WellFoundedInduction

-----------------------------------------------------------------------------
(* The inductive invariant.                                                *)

TypeInv ==
    /\ ui \in [Facts -> Screen]
    /\ box \in [Facts -> Entry]
    /\ seq \in [Facts -> Nat]
    /\ drains \in [Tabs -> Drain]
    /\ asking \in [Tabs -> Facts \cup {Nobody}]
    /\ retrying \in [Tabs -> SUBSET Facts]
    /\ acked \subseteq Facts /\ refused \subseteq Facts /\ discarded \subseteq Facts
    /\ tries \in [Facts -> 0..MaxAttempts]

\* An entry as it is written or copied: nothing is left of one that is gone, and one that
\* waits has an attempt left.
Proper(entry) ==
    /\ entry.status = "none" => entry = Absent
    /\ entry.status = "pending" => entry.attempts < MaxAttempts

BoxInv == \A f \in Facts : Proper(box[f])
CopyInv == \A t \in Tabs, f \in Facts : Proper(drains[t].copy[f])

\* What a drain is about to write is about an operation that waited when it began, and
\* it removes only what the server has taken.
SendInv ==
    \A t \in Tabs, p \in Partitions :
        LET f == drains[t].at[p] IN
        f # Nobody => /\ drains[t].copy[f].status = "pending"
                      /\ drains[t].verdict[p] = "sent" => f \in acked

IInv == TypeInv /\ BoxInv /\ CopyInv /\ SendInv /\ NothingLost

-----------------------------------------------------------------------------
(* Lemmas about the operators.                                             *)

\* A set of natural numbers that is not empty has a least element.
LEMMA LeastNumber ==
    ASSUME NEW S \in SUBSET Nat, S # {}
    PROVE  \E x \in S : \A y \in S : x <= y
<1> DEFINE Less == {ss \in Nat \X Nat : ss[1] < ss[2]}
<1>1. IsWellFoundedOn(Less, Nat)
    BY NatLessThanWellFounded DEF OpToRel
<1> HIDE DEF Less
<1>2. PICK x \in S : \A y \in S : <<y, x>> \notin Less
    BY <1>1, WFMin
<1>3. ASSUME NEW y \in S PROVE x <= y
    <2>1. x \in Nat /\ y \in Nat
        OBVIOUS
    <2>2. ~ (y < x)
        BY <1>2, <2>1 DEF Less
    <2> QED BY <2>1, <2>2
<1> QED BY <1>3

\* The next operation of a partition is one that waits, or there is none.
LEMMA NextFactWaits ==
    ASSUME seq \in [Facts -> Nat], NEW copy, NEW p, NEW n
    PROVE  \/ NextFact(copy, p, n) = Nobody
           \/ /\ NextFact(copy, p, n) \in Facts
              /\ copy[NextFact(copy, p, n)].status = "pending"
<1> DEFINE rest == {f \in Facts : copy[f].status = "pending" /\ PartitionOf[f] = p /\ seq[f] > n}
           first == CHOOSE f \in rest : \A g \in rest : seq[f] <= seq[g]
<1>1. CASE rest = {}
    BY <1>1 DEF NextFact
<1>2. CASE rest # {}
    <2>1. {seq[f] : f \in rest} \in SUBSET Nat /\ {seq[f] : f \in rest} # {}
        BY <1>2
    <2>2. \E x \in {seq[f] : f \in rest} : \A y \in {seq[f] : f \in rest} : x <= y
        BY <2>1, LeastNumber
    <2>3. \E f \in rest : \A g \in rest : seq[f] <= seq[g]
        BY <2>2
    <2>4. first \in rest
        BY <2>3
    <2>5. NextFact(copy, p, n) \in {Nobody, first}
        BY <1>2 DEF NextFact
    <2> QED BY <2>4, <2>5
<1> QED BY <1>1, <1>2

LEMMA CountsAreNumbers == ASSUME NEW S \in SUBSET Facts PROVE Cardinality(S) \in Nat
BY FactsAreFinite, FS_Subset, FS_CardinalityType

LEMMA SmallerOfTwo ==
    ASSUME NEW a \in Nat, NEW b \in Nat
    PROVE  Min({a, b}) \in Nat /\ Min({a, b}) <= b
           /\ (Min({a, b}) = a \/ Min({a, b}) = b)
<1>1. \E x \in {a, b} : \A y \in {a, b} : x <= y
    OBVIOUS
<1>2. Min({a, b}) \in {a, b} /\ \A y \in {a, b} : Min({a, b}) <= y
    BY <1>1 DEF Min
<1> QED BY <1>2

LEMMA EntriesAndDrains ==
    /\ Absent \in Entry /\ Fresh \in Entry /\ Idle \in Drain
    /\ Absent.status = "none" /\ Fresh # Absent
    /\ Proper(Absent) /\ Proper(Fresh)
    /\ \A f \in Facts : Idle.copy[f] = Absent
    /\ \A p \in Partitions : Idle.at[p] = Nobody
BY BoundsAssumption DEF Absent, Fresh, Idle, Entry, Drain, Verdicts, Proper

\* What an attempt leaves of an operation: an entry, and nothing only if it was sent.
LEMMA AttemptLeaves ==
    ASSUME NEW entry \in Entry, entry.status = "pending", entry.attempts < MaxAttempts,
           NEW verdict \in Verdicts \ {"flying"}
    PROVE  /\ AfterAttempt(entry, verdict) \in Entry
           /\ Proper(AfterAttempt(entry, verdict))
           /\ AfterAttempt(entry, verdict) = Absent => verdict = "sent"
<1> USE BoundsAssumption DEF Entry, Proper, Absent
<1>1. CASE verdict = "sent"
    BY <1>1 DEF AfterAttempt, Remove
<1>2. CASE verdict = "auth"
    BY <1>2 DEF AfterAttempt
<1>3. CASE verdict = "failed"
    BY <1>3 DEF AfterAttempt, GiveUp
<1>4. CASE verdict = "retry"
    <2>1. CASE Exhausted(entry)
        <3>1. AfterAttempt(entry, verdict) = GiveUp(entry)
            BY <1>4, <2>1 DEF AfterAttempt
        <3> QED BY <3>1, <2>1 DEF GiveUp
    <2>2. CASE ~Exhausted(entry)
        <3>1. AfterAttempt(entry, verdict) = TryAgain(entry)
            BY <1>4, <2>2 DEF AfterAttempt
        <3>2. entry.attempts + 1 \in 0..MaxAttempts /\ entry.attempts + 1 < MaxAttempts
            BY <2>2 DEF Exhausted
        <3>3. TryAgain(entry) = [status |-> "pending", attempts |-> entry.attempts + 1, waiting |-> TRUE]
            <4>1. [entry EXCEPT !.attempts = entry.attempts + 1]
                    = [status |-> "pending", attempts |-> entry.attempts + 1, waiting |-> entry.waiting]
                OBVIOUS
            <4>2. TryAgain(entry) = [[entry EXCEPT !.attempts = entry.attempts + 1] EXCEPT !.waiting = TRUE]
                BY DEF TryAgain
            <4> QED BY <4>1, <4>2
        <3> QED BY <3>1, <3>2, <3>3
    <2> QED BY <2>1, <2>2
<1> QED BY <1>1, <1>2, <1>3, <1>4 DEF Verdicts

-----------------------------------------------------------------------------
(* The invariant holds.                                                    *)

LEMMA InitHolds == Init => IInv
<1> SUFFICES ASSUME Init PROVE IInv
    OBVIOUS
<1>1. TypeInv
    BY EntriesAndDrains, BoundsAssumption DEF Init, TypeInv, Screen
<1>2. BoxInv /\ CopyInv
    BY EntriesAndDrains DEF Init, BoxInv, CopyInv
<1>3. SendInv /\ NothingLost
    BY EntriesAndDrains DEF Init, SendInv, NothingLost
<1> QED BY <1>1, <1>2, <1>3 DEF IInv

\* What the operator does reaches the queue only as a fresh entry.
LEMMA OperatorKeeps ==
    ASSUME IInv, NEW f \in Facts, Tap(f) \/ Answered(f) \/ Enqueue(f)
    PROVE  IInv'
<1> USE DEF IInv
<1>1. CASE Tap(f)
    BY <1>1 DEF Tap, history, tray, TypeInv, BoxInv, CopyInv, SendInv, NothingLost, Screen
<1>2. CASE Answered(f)
    BY <1>2 DEF Answered, history, tray, TypeInv, BoxInv, CopyInv, SendInv, NothingLost, Screen
<1>3. CASE Enqueue(f)
    <2> USE <1>3 DEF Enqueue, history, tray
    <2>1. Cardinality({g \in Facts : seq[g] # 0}) \in Nat
        BY CountsAreNumbers
    <2>2. TypeInv'
        BY <2>1, EntriesAndDrains DEF TypeInv, Screen
    <2>3. BoxInv' /\ CopyInv' /\ SendInv'
        BY EntriesAndDrains DEF BoxInv, CopyInv, SendInv, TypeInv
    <2>4. NothingLost'
        BY EntriesAndDrains DEF NothingLost, TypeInv
    <2> QED BY <2>2, <2>3, <2>4
<1> QED BY <1>1, <1>2, <1>3

LEMMA BeginKeeps ==
    ASSUME IInv, NEW t \in Tabs, Begin(t)
    PROVE  IInv'
<1> USE DEF IInv
<1> DEFINE copy == [f \in Facts |-> IF box[f].status = "pending" THEN box[f] ELSE Absent]
           at == [p \in Partitions |-> NextFact(copy, p, 0)]
           begun == [Idle EXCEPT !.copy = copy, !.at = at]
<1>1. drains' = [drains EXCEPT ![t] = begun]
      /\ UNCHANGED <<ui, box, seq, tray, session, history, reloads>>
    BY DEF Begin
<1>2. copy \in [Facts -> Entry] /\ \A f \in Facts : Proper(copy[f])
    BY EntriesAndDrains DEF TypeInv, BoxInv
<1>3. \A p \in Partitions : at[p] = Nobody \/ (at[p] \in Facts /\ copy[at[p]].status = "pending")
    BY NextFactWaits DEF TypeInv
<1> HIDE DEF copy, at
<1>4. at \in [Partitions -> Facts \cup {Nobody}]
    BY <1>3 DEF at
<1>5. begun.copy = copy /\ begun.at = at /\ begun.verdict = Idle.verdict /\ begun \in Drain
    BY <1>2, <1>4, EntriesAndDrains DEF Idle, Drain
<1>6. \A p \in Partitions : begun.verdict[p] = "flying"
    BY <1>5 DEF Idle
<1> HIDE DEF begun
<1>7. TypeInv'
    BY <1>1, <1>5 DEF TypeInv, history, tray
<1>8. BoxInv' /\ NothingLost'
    BY <1>1 DEF BoxInv, NothingLost, history, tray
<1>9. CopyInv'
    BY <1>1, <1>2, <1>5 DEF CopyInv, TypeInv
<1>10. SendInv'
    <2> SUFFICES ASSUME NEW u \in Tabs, NEW p \in Partitions, drains'[u].at[p] # Nobody
                 PROVE  /\ drains'[u].copy[drains'[u].at[p]].status = "pending"
                        /\ drains'[u].verdict[p] = "sent" => drains'[u].at[p] \in acked'
        BY DEF SendInv
    <2>1. CASE u = t
        BY <2>1, <1>1, <1>3, <1>5, <1>6 DEF TypeInv
    <2>2. CASE u # t
        BY <2>2, <1>1 DEF TypeInv, SendInv, history
    <2> QED BY <2>1, <2>2
<1> QED BY <1>7, <1>8, <1>9, <1>10

\* A favourable verdict comes with the acknowledgement.
LEMMA ReplyKeeps ==
    ASSUME IInv, NEW t \in Tabs, NEW p \in Partitions, Reply(t, p)
    PROVE  IInv'
<1> USE DEF IInv
<1> DEFINE f == drains[t].at[p]
<1>1. f \in Facts
    BY DEF Reply, Flying, TypeInv, Drain
<1>2. PICK reply \in Replies(f) :
        /\ drains' = [drains EXCEPT ![t].verdict[p] = Classify(f, reply)]
        /\ acked' = IF reply = "ok" \/ (reply = "missing" /\ f \in Deletes)
                    THEN acked \cup {f} ELSE acked
        /\ refused' = IF reply \in {"rejected", "missing"} THEN refused \cup {f} ELSE refused
        /\ tries' = IF reply = "later" THEN [tries EXCEPT ![f] = Min({@ + 1, MaxAttempts})]
                    ELSE tries
    BY DEF Reply
<1>3. UNCHANGED <<ui, box, seq, tray, session, reloads>>
    BY DEF Reply
<1>4. Classify(f, reply) \in Verdicts /\ (Classify(f, reply) = "sent" => f \in acked')
    <2>1. reply \in {"ok", "missing", "rejected", "denied", "later"}
        BY DEF Replies
    <2>2. CASE reply = "ok"
        BY <2>2, <1>2 DEF Classify, Verdicts
    <2>3. CASE reply = "missing"
        <3>1. Classify(f, reply) = IF f \in Deletes THEN "sent" ELSE "failed"
            BY <2>3 DEF Classify
        <3> QED BY <3>1, <2>3, <1>2 DEF Verdicts
    <2>4. CASE reply \in {"rejected", "denied"}
        <3>1. Classify(f, reply) \in {"failed", "auth"}
            BY <2>4 DEF Classify
        <3> QED BY <3>1 DEF Verdicts
    <2>5. CASE reply = "later"
        <3>1. Classify(f, reply) = "retry"
            BY <2>5 DEF Classify
        <3> QED BY <3>1 DEF Verdicts
    <2> QED BY <2>1, <2>2, <2>3, <2>4, <2>5
<1> HIDE DEF f
<1>5. tries' \in [Facts -> 0..MaxAttempts]
    <2>1. tries[f] \in 0..MaxAttempts /\ tries \in [Facts -> 0..MaxAttempts]
        BY <1>1 DEF TypeInv
    <2>2. Min({tries[f] + 1, MaxAttempts}) \in 0..MaxAttempts
        BY <2>1, BoundsAssumption, SmallerOfTwo
    <2>3. tries' = tries \/ tries' = [tries EXCEPT ![f] = Min({tries[f] + 1, MaxAttempts})]
        BY <1>2
    <2> QED BY <2>1, <2>2, <2>3
<1>6. drains' \in [Tabs -> Drain]
    BY <1>2, <1>4 DEF TypeInv, Drain
<1>7. TypeInv'
    BY <1>1, <1>2, <1>3, <1>5, <1>6 DEF TypeInv, tray
<1>8. BoxInv' /\ NothingLost' /\ acked \subseteq acked'
    BY <1>2, <1>3 DEF BoxInv, NothingLost, tray
<1>9. \A u \in Tabs : drains'[u].copy = drains[u].copy /\ drains'[u].at = drains[u].at
    BY <1>2 DEF TypeInv, Drain
<1>10. \A u \in Tabs, q \in Partitions :
          drains'[u].verdict[q] = IF u = t /\ q = p THEN Classify(f, reply) ELSE drains[u].verdict[q]
    BY <1>2 DEF TypeInv, Drain
<1>11. CopyInv'
    BY <1>9 DEF CopyInv
<1>12. SendInv'
    BY <1>4, <1>8, <1>9, <1>10 DEF SendInv, f
<1> QED BY <1>7, <1>8, <1>11, <1>12

\* The outcome of an attempt is written over whatever the queue holds by then.
LEMMA SettleKeeps ==
    ASSUME IInv, NEW t \in Tabs, NEW p \in Partitions, Settle(t, p)
    PROVE  IInv'
<1> USE DEF IInv
<1> DEFINE d == drains[t]
           f == d.at[p]
           verdict == d.verdict[p]
           entry == AfterAttempt(d.copy[f], verdict)
           next == IF GoesOn(entry, verdict) /\ ~(d.noAuth \/ verdict = "auth")
                   THEN NextFact(d.copy, p, seq[f]) ELSE Nobody
           after == [d EXCEPT !.at[p] = next, !.verdict[p] = "flying",
                              !.noAuth = (d.noAuth \/ verdict = "auth")]
<1>1. /\ f # Nobody /\ ~Flying(t, p)
      /\ box' = [box EXCEPT ![f] = entry]
      /\ drains' = [drains EXCEPT ![t] = IF after.at = Idle.at THEN Idle ELSE after]
      /\ UNCHANGED <<ui, seq, tray, session, history, reloads>>
    BY DEF Settle
<1>2. d \in Drain /\ f \in Facts /\ verdict \in Verdicts \ {"flying"}
    BY <1>1 DEF TypeInv, Drain, Flying
<1>3. d.copy[f] \in Entry /\ d.copy[f].status = "pending" /\ d.copy[f].attempts < MaxAttempts
    BY <1>1, <1>2 DEF SendInv, CopyInv, Proper, Drain
<1>4. entry \in Entry /\ Proper(entry) /\ (entry = Absent => verdict = "sent")
    BY <1>2, <1>3, AttemptLeaves
<1>5. next = Nobody \/ (next \in Facts /\ d.copy[next].status = "pending")
    BY NextFactWaits DEF TypeInv
<1>6. verdict = "sent" => f \in acked
    BY <1>1 DEF SendInv
<1> HIDE DEF next, entry
<1>7. /\ after \in Drain /\ after.copy = d.copy
      /\ \A q \in Partitions : after.at[q] = IF q = p THEN next ELSE d.at[q]
      /\ \A q \in Partitions : after.verdict[q] = IF q = p THEN "flying" ELSE d.verdict[q]
    BY <1>2, <1>5 DEF Drain, Verdicts
<1> HIDE DEF after
<1>8. TypeInv'
    BY <1>1, <1>2, <1>4, <1>7, EntriesAndDrains DEF TypeInv, history, tray
<1>9. BoxInv' /\ NothingLost'
    BY <1>1, <1>2, <1>4, <1>6 DEF BoxInv, NothingLost, TypeInv, history, tray
<1>10. \A u \in Tabs : drains'[u] = drains[u] \/ (u = t /\ drains'[u] \in {Idle, after})
    BY <1>1 DEF TypeInv
<1>11. CopyInv'
    BY <1>7, <1>10, EntriesAndDrains DEF CopyInv
<1>12. SendInv'
    <2> SUFFICES ASSUME NEW u \in Tabs, NEW q \in Partitions, drains'[u].at[q] # Nobody
                 PROVE  /\ drains'[u].copy[drains'[u].at[q]].status = "pending"
                        /\ drains'[u].verdict[q] = "sent" => drains'[u].at[q] \in acked'
        BY DEF SendInv
    <2>1. CASE drains'[u] = drains[u]
        BY <2>1, <1>1 DEF SendInv, history
    <2>2. CASE drains'[u] = after /\ u = t
        BY <2>2, <1>1, <1>5, <1>7 DEF SendInv, history
    <2>3. CASE drains'[u] = Idle
        BY <2>3, EntriesAndDrains
    <2> QED BY <2>1, <2>2, <2>3, <1>10
<1> QED BY <1>8, <1>9, <1>11, <1>12

\* People put back what has failed, or throw away what they know of.
LEMMA PeopleKeep ==
    ASSUME IInv, NEW t \in Tabs,
           \/ Confirm(t) \/ Cancel(t)
           \/ \E f \in Facts : Ask(t, f) \/ PutBack(t, f)
           \/ \E p \in Partitions : Retry(t, p)
    PROVE  IInv'
<1> USE DEF IInv
<1>1. CASE Confirm(t)
    <2> DEFINE f == asking[t]
    <2>1. /\ f \in Facts
          /\ asking' = [asking EXCEPT ![t] = Nobody]
          /\ box' = [box EXCEPT ![f] = Absent]
          /\ discarded' = IF box[f] = Absent THEN discarded ELSE discarded \cup {f}
          /\ UNCHANGED <<ui, seq, drains, retrying, session, history, reloads>>
        BY <1>1 DEF Confirm, TypeInv
    <2> HIDE DEF f
    <2>2. TypeInv'
        BY <2>1, EntriesAndDrains DEF TypeInv, history
    <2>3. BoxInv' /\ CopyInv' /\ SendInv'
        BY <2>1, EntriesAndDrains DEF BoxInv, CopyInv, SendInv, TypeInv, history
    <2>4. NothingLost'
        BY <2>1 DEF NothingLost, TypeInv, history
    <2> QED BY <2>2, <2>3, <2>4
<1>2. CASE Cancel(t)
    BY <1>2 DEF Cancel, history, TypeInv, BoxInv, CopyInv, SendInv, NothingLost
<1>3. ASSUME NEW f \in Facts, Ask(t, f) PROVE IInv'
    BY <1>3 DEF Ask, history, TypeInv, BoxInv, CopyInv, SendInv, NothingLost
<1>4. ASSUME NEW f \in Facts, PutBack(t, f) PROVE IInv'
    <2> USE <1>4 DEF PutBack
    <2>1. TypeInv'
        BY EntriesAndDrains, BoundsAssumption DEF TypeInv
    <2>2. BoxInv' /\ CopyInv' /\ SendInv'
        BY EntriesAndDrains DEF BoxInv, CopyInv, SendInv, TypeInv
    <2>3. NothingLost'
        BY EntriesAndDrains DEF NothingLost, TypeInv
    <2> QED BY <2>1, <2>2, <2>3
<1>5. ASSUME NEW p \in Partitions, Retry(t, p) PROVE IInv'
    BY <1>5 DEF Retry, history, TypeInv, BoxInv, CopyInv, SendInv, NothingLost
<1> QED BY <1>1, <1>2, <1>3, <1>4, <1>5

LEMMA SurroundingsKeep ==
    ASSUME IInv, Surroundings
    PROVE  IInv'
<1> USE DEF IInv
<1>1. ASSUME NEW t \in Tabs, Reload(t) PROVE IInv'
    <2>1. /\ ui' = [f \in Facts |-> IF TabOf[f] = t /\ ui[f] \in {"sending", "offline"}
                                  THEN "gone" ELSE ui[f]]
          /\ drains' = [drains EXCEPT ![t] = Idle]
          /\ asking' = [asking EXCEPT ![t] = Nobody]
          /\ retrying' = [retrying EXCEPT ![t] = {}]
          /\ UNCHANGED <<box, seq, session, history, discarded>>
        BY <1>1 DEF Reload
    <2>2. TypeInv'
        BY <2>1, EntriesAndDrains DEF TypeInv, Screen, history
    <2>3. BoxInv' /\ NothingLost'
        BY <2>1 DEF BoxInv, NothingLost, history
    <2>4. CopyInv' /\ SendInv'
        BY <2>1, EntriesAndDrains DEF CopyInv, SendInv, TypeInv, history
    <2> QED BY <2>2, <2>3, <2>4
<1>2. CASE Expire \/ Login
    BY <1>2 DEF Expire, Login, history, tray, TypeInv, BoxInv, CopyInv, SendInv, NothingLost
<1>3. ASSUME NEW f \in Facts, Elapse(f) PROVE IInv'
    <2>1. box[f].waiting /\ box[f] \in Entry /\ Proper(box[f])
        BY <1>3 DEF Elapse, TypeInv, BoxInv
    <2>2. box[f].status # "none"
        BY <2>1 DEF Proper, Absent
    <2> DEFINE entry == [box[f] EXCEPT !.waiting = FALSE]
    <2>3. entry \in Entry /\ Proper(entry) /\ entry # Absent
        BY <2>1, <2>2 DEF Entry, Proper, Absent
    <2>4. box' = [box EXCEPT ![f] = entry]
          /\ UNCHANGED <<ui, seq, drains, tray, session, history, reloads>>
        BY <1>3 DEF Elapse
    <2> HIDE DEF entry
    <2> QED BY <2>3, <2>4 DEF history, tray, TypeInv, BoxInv, CopyInv, SendInv, NothingLost
<1> QED BY <1>1, <1>2, <1>3 DEF Surroundings

LEMMA StepKeeps == IInv /\ [Next]_vars => IInv'
<1> SUFFICES ASSUME IInv, [Next]_vars PROVE IInv'
    OBVIOUS
<1>1. CASE Operator
    BY <1>1, OperatorKeeps DEF Operator
<1>2. CASE Drains
    BY <1>2, BeginKeeps, ReplyKeeps, SettleKeeps DEF Drains
<1>3. CASE People
    BY <1>3, PeopleKeep DEF People
<1>4. CASE Surroundings
    BY <1>4, SurroundingsKeep
<1>5. CASE UNCHANGED vars
    BY <1>5 DEF vars, history, tray, IInv, TypeInv, BoxInv, CopyInv, SendInv, NothingLost
<1> QED BY <1>1, <1>2, <1>3, <1>4, <1>5 DEF Next

LEMMA InvariantHolds == Spec => []IInv
BY InitHolds, StepKeeps, PTL DEF Spec

\* The queue, the drains and the trays keep their shape, and no bound is passed.
THEOREM TypesHold == Spec => []TypeOK
<1> DEFINE Bounds == session \in BOOLEAN /\ reloads \in 0..MaxReloads
<1>1. Init => Bounds
    BY BoundsAssumption DEF Init
<1>2. Bounds /\ [Next]_vars => Bounds'
    <2> SUFFICES ASSUME Bounds, [Next]_vars PROVE Bounds'
        OBVIOUS
    <2>1. CASE Operator
        BY <2>1 DEF Operator, Tap, Answered, Enqueue
    <2>2. CASE Drains
        <3>1. ASSUME NEW t \in Tabs, Begin(t) PROVE UNCHANGED <<session, reloads>>
            BY <3>1 DEF Begin
        <3>2. ASSUME NEW t \in Tabs, NEW p \in Partitions, Reply(t, p)
              PROVE  UNCHANGED <<session, reloads>>
            BY <3>2 DEF Reply
        <3>3. ASSUME NEW t \in Tabs, NEW p \in Partitions, Settle(t, p)
              PROVE  UNCHANGED <<session, reloads>>
            BY <3>3, Zenon DEF Settle
        <3> QED BY <2>2, <3>1, <3>2, <3>3 DEF Drains
    <2>3. CASE People
        BY <2>3 DEF People, Ask, Confirm, Cancel, Retry, PutBack
    <2>4. ASSUME NEW t \in Tabs, Reload(t) PROVE Bounds'
        BY <2>4, BoundsAssumption DEF Reload
    <2>5. CASE Expire \/ Login
        BY <2>5 DEF Expire, Login
    <2>6. ASSUME NEW f \in Facts, Elapse(f) PROVE Bounds'
        BY <2>6 DEF Elapse
    <2>7. CASE UNCHANGED vars
        BY <2>7 DEF vars
    <2> QED BY <2>1, <2>2, <2>3, <2>4, <2>5, <2>6, <2>7 DEF Next, Surroundings
<1>3. IInv /\ Bounds => TypeOK
    BY DEF IInv, TypeInv, TypeOK
<1> HIDE DEF Bounds
<1> QED BY <1>1, <1>2, <1>3, InvariantHolds, PTL DEF Spec

\* A fact the screen was told is queued stays in the queue or in the tray until the server
\* has taken it or a person has thrown it away (outbox.ts: attempt, requeue, discard).
THEOREM NothingIsLost == Spec => []NothingLost
<1>1. IInv => NothingLost
    BY DEF IInv
<1> QED BY <1>1, InvariantHolds, PTL

-----------------------------------------------------------------------------
(* The tray.  No entry, and no copy of one, counts more attempts than      *)
(* there were sends without a decision; only people count anew.            *)

Counted ==
    /\ \A f \in Facts : box[f].status = "pending" => box[f].attempts <= tries[f]
    /\ \A t \in Tabs, f \in Facts :
         drains[t].copy[f].status = "pending" => drains[t].copy[f].attempts <= tries[f]

\* A verdict against an operation was a refusal, or a send that is counted.
Judged ==
    \A t \in Tabs, p \in Partitions :
        LET f == drains[t].at[p] IN
        f # Nobody => /\ drains[t].verdict[p] = "failed" => f \in refused
                      /\ drains[t].verdict[p] = "retry" =>
                           drains[t].copy[f].attempts + 1 <= tries[f]

HonestInv == HonestTray /\ Counted /\ Judged

LEMMA HonestInit == Init => HonestInv
BY EntriesAndDrains DEF Init, HonestInv, HonestTray, Counted, Judged, Absent

LEMMA HonestReply ==
    ASSUME IInv, HonestInv, NEW t \in Tabs, NEW p \in Partitions, Reply(t, p)
    PROVE  HonestInv'
<1> USE DEF IInv, HonestInv
<1> DEFINE f == drains[t].at[p]
<1>1. f \in Facts /\ f # Nobody
    BY FactsAssumption DEF Reply, Flying, TypeInv, Drain
<1>2. PICK reply \in Replies(f) :
        /\ drains' = [drains EXCEPT ![t].verdict[p] = Classify(f, reply)]
        /\ refused' = IF reply \in {"rejected", "missing"} THEN refused \cup {f} ELSE refused
        /\ tries' = IF reply = "later" THEN [tries EXCEPT ![f] = Min({@ + 1, MaxAttempts})]
                    ELSE tries
    BY DEF Reply
<1>3. UNCHANGED box
    BY DEF Reply
<1>4. reply \in {"ok", "missing", "rejected", "denied", "later"}
    BY DEF Replies
<1>5. Classify(f, reply) = "failed" => f \in refused'
    <2>1. CASE reply \in {"missing", "rejected"}
        BY <2>1, <1>2
    <2>2. CASE reply = "ok"
        BY <2>2 DEF Classify
    <2>3. CASE reply = "denied"
        BY <2>3 DEF Classify
    <2>4. CASE reply = "later"
        BY <2>4 DEF Classify
    <2> QED BY <1>4, <2>1, <2>2, <2>3, <2>4
<1>6. Classify(f, reply) = "retry" => reply = "later"
    <2>1. CASE reply = "missing"
        <3>1. Classify(f, reply) = IF f \in Deletes THEN "sent" ELSE "failed"
            BY <2>1 DEF Classify
        <3> QED BY <3>1
    <2>2. CASE reply = "ok"
        BY <2>2 DEF Classify
    <2>3. CASE reply = "denied"
        BY <2>3 DEF Classify
    <2>4. CASE reply = "rejected"
        BY <2>4 DEF Classify
    <2> QED BY <1>4, <2>1, <2>2, <2>3, <2>4
<1>7. /\ drains[t].copy[f] \in Entry /\ drains[t].copy[f].attempts < MaxAttempts
      /\ drains[t].copy[f].attempts <= tries[f]
    BY <1>1 DEF SendInv, CopyInv, Proper, Counted, TypeInv, Drain
<1> HIDE DEF f
<1>8. /\ tries[f] \in 0..MaxAttempts /\ MaxAttempts \in Nat
      /\ tries \in [Facts -> 0..MaxAttempts]
    BY <1>1, BoundsAssumption DEF TypeInv
<1>9. /\ Min({tries[f] + 1, MaxAttempts}) \in 0..MaxAttempts
      /\ tries[f] <= Min({tries[f] + 1, MaxAttempts})
      /\ drains[t].copy[f].attempts + 1 <= Min({tries[f] + 1, MaxAttempts})
    <2>1. /\ Min({tries[f] + 1, MaxAttempts}) \in Nat
          /\ Min({tries[f] + 1, MaxAttempts}) <= MaxAttempts
          /\ Min({tries[f] + 1, MaxAttempts}) \in {tries[f] + 1, MaxAttempts}
        BY <1>8, SmallerOfTwo
    <2>2. drains[t].copy[f].attempts \in Nat
        BY <1>7 DEF Entry
    <2> QED BY <2>1, <2>2, <1>7, <1>8
<1>10. tries' = tries \/ tries' = [tries EXCEPT ![f] = Min({tries[f] + 1, MaxAttempts})]
    BY <1>2
<1>11. \A g \in Facts : /\ tries[g] \in Nat /\ tries'[g] \in Nat /\ tries[g] <= tries'[g]
                         /\ refused \subseteq refused'
    BY <1>1, <1>2, <1>8, <1>9, <1>10
<1>12. \A u \in Tabs : drains'[u].copy = drains[u].copy /\ drains'[u].at = drains[u].at
    BY <1>2 DEF TypeInv, Drain
<1>13. \A u \in Tabs, q \in Partitions :
          drains'[u].verdict[q] = IF u = t /\ q = p THEN Classify(f, reply) ELSE drains[u].verdict[q]
    BY <1>2 DEF TypeInv, Drain
<1>14. \A u \in Tabs, g \in Facts :
          drains[u].copy[g].attempts \in Nat /\ box[g].attempts \in Nat
    BY DEF TypeInv, Drain, Entry
<1>15. HonestTray'
    BY <1>3, <1>8, <1>11 DEF HonestTray
<1>16. Counted'
    BY <1>3, <1>11, <1>12, <1>14 DEF Counted
<1>17. Judged'
    <2> SUFFICES ASSUME NEW u \in Tabs, NEW q \in Partitions, drains[u].at[q] # Nobody
                 PROVE  /\ drains'[u].verdict[q] = "failed" => drains[u].at[q] \in refused'
                        /\ drains'[u].verdict[q] = "retry" =>
                             drains[u].copy[drains[u].at[q]].attempts + 1 <= tries'[drains[u].at[q]]
        BY <1>12 DEF Judged
    <2>1. CASE u = t /\ q = p
        BY <2>1, <1>1, <1>2, <1>5, <1>6, <1>8, <1>9, <1>13 DEF f
    <2>2. CASE ~(u = t /\ q = p)
        <3>1. drains[u].at[q] \in Facts
            BY DEF TypeInv, Drain
        <3> QED BY <3>1, <2>2, <1>11, <1>13, <1>14 DEF Judged
    <2> QED BY <2>1, <2>2
<1> QED BY <1>15, <1>16, <1>17

LEMMA HonestSettle ==
    ASSUME IInv, HonestInv, NEW t \in Tabs, NEW p \in Partitions, Settle(t, p)
    PROVE  HonestInv'
<1> USE DEF IInv, HonestInv
<1> DEFINE d == drains[t]
           f == d.at[p]
           verdict == d.verdict[p]
           entry == AfterAttempt(d.copy[f], verdict)
           next == IF GoesOn(entry, verdict) /\ ~(d.noAuth \/ verdict = "auth")
                   THEN NextFact(d.copy, p, seq[f]) ELSE Nobody
           after == [d EXCEPT !.at[p] = next, !.verdict[p] = "flying",
                              !.noAuth = (d.noAuth \/ verdict = "auth")]
<1>1. /\ f # Nobody /\ ~Flying(t, p)
      /\ box' = [box EXCEPT ![f] = entry]
      /\ drains' = [drains EXCEPT ![t] = IF after.at = Idle.at THEN Idle ELSE after]
      /\ UNCHANGED <<tries, refused>>
    BY DEF Settle, history
<1>2. d \in Drain /\ f \in Facts /\ verdict \in Verdicts \ {"flying"}
    BY <1>1 DEF TypeInv, Drain, Flying
<1>3. /\ d.copy[f] \in Entry /\ d.copy[f].status = "pending"
      /\ d.copy[f].attempts <= tries[f] /\ tries[f] \in Nat /\ MaxAttempts \in Nat
    <2>1. d.copy \in [Facts -> Entry]
        BY <1>2 DEF Drain
    <2>2. d.copy[f].status = "pending"
        BY <1>1, <1>2 DEF SendInv
    <2>3. d.copy[f].attempts <= tries[f]
        BY <2>2, <1>2 DEF Counted
    <2>4. tries[f] \in Nat /\ MaxAttempts \in Nat
        BY <1>2, BoundsAssumption DEF TypeInv
    <2> QED BY <1>2, <2>1, <2>2, <2>3, <2>4
<1>4. /\ verdict = "failed" => f \in refused
      /\ verdict = "retry" => d.copy[f].attempts + 1 <= tries[f]
    BY <1>1 DEF Judged
<1>5. /\ entry.status = "failed" => f \in refused \/ tries[f] >= MaxAttempts
      /\ entry.status = "pending" => entry.attempts <= tries[f]
    <2>1. CASE verdict = "sent"
        BY <2>1, EntriesAndDrains DEF AfterAttempt, Remove, Absent
    <2>2. CASE verdict = "auth"
        <3>1. entry = [d.copy[f] EXCEPT !.waiting = TRUE]
            BY <2>2 DEF AfterAttempt
        <3>2. entry.status = "pending" /\ entry.attempts = d.copy[f].attempts
            BY <3>1, <1>3 DEF Entry
        <3> QED BY <3>2, <1>3
    <2>3. CASE verdict = "failed"
        <3>1. entry.status = "failed"
            BY <2>3 DEF AfterAttempt, GiveUp
        <3> QED BY <3>1, <2>3, <1>4
    <2>4. CASE verdict = "retry" /\ Exhausted(d.copy[f])
        <3>1. entry.status = "failed"
            BY <2>4 DEF AfterAttempt, GiveUp
        <3>2. d.copy[f].attempts + 1 >= MaxAttempts /\ d.copy[f].attempts \in Nat
            BY <2>4, <1>3 DEF Exhausted, Entry
        <3> QED BY <3>1, <3>2, <2>4, <1>3, <1>4
    <2>5. CASE verdict = "retry" /\ ~Exhausted(d.copy[f])
        <3>1. entry = TryAgain(d.copy[f])
            BY <2>5 DEF AfterAttempt
        <3>2. entry.status = d.copy[f].status /\ entry.attempts = d.copy[f].attempts + 1
            BY <3>1, <1>3 DEF TryAgain, Entry
        <3> QED BY <3>2, <2>5, <1>3, <1>4
    <2> QED BY <1>2, <2>1, <2>2, <2>3, <2>4, <2>5 DEF Verdicts
<1> HIDE DEF next, entry
<1>6. /\ after.copy = d.copy
      /\ \A q \in Partitions : after.at[q] = IF q = p THEN next ELSE d.at[q]
      /\ \A q \in Partitions : after.verdict[q] = IF q = p THEN "flying" ELSE d.verdict[q]
    BY <1>2 DEF Drain, Verdicts
<1> HIDE DEF after
<1>7. HonestTray' /\ \A g \in Facts : box'[g].status = "pending" => box'[g].attempts <= tries'[g]
    BY <1>1, <1>2, <1>5 DEF HonestTray, Counted, TypeInv
<1>8. \A u \in Tabs : drains'[u] = drains[u] \/ (u = t /\ drains'[u] \in {Idle, after})
    BY <1>1 DEF TypeInv
<1>9. Counted'
    BY <1>1, <1>6, <1>7, <1>8, EntriesAndDrains DEF Counted
<1>10. Judged'
    <2> SUFFICES ASSUME NEW u \in Tabs, NEW q \in Partitions, drains'[u].at[q] # Nobody
                 PROVE  LET g == drains'[u].at[q] IN
                        /\ drains'[u].verdict[q] = "failed" => g \in refused
                        /\ drains'[u].verdict[q] = "retry" => drains'[u].copy[g].attempts + 1 <= tries[g]
        BY <1>1 DEF Judged
    <2>1. CASE drains'[u] = drains[u]
        BY <2>1 DEF Judged
    <2>2. CASE drains'[u] = after /\ u = t
        BY <2>2, <1>6 DEF Judged
    <2>3. CASE drains'[u] = Idle
        BY <2>3, EntriesAndDrains
    <2> QED BY <2>1, <2>2, <2>3, <1>8
<1> QED BY <1>7, <1>9, <1>10

LEMMA HonestStep == ~Tray /\ IInv /\ HonestInv /\ [Next]_vars => HonestInv'
<1> SUFFICES ASSUME ~Tray, IInv, HonestInv, [Next]_vars PROVE HonestInv'
    OBVIOUS
<1> USE DEF IInv, HonestInv
<1>1. ASSUME NEW f \in Facts, Tap(f) \/ Answered(f) PROVE HonestInv'
    BY <1>1 DEF Tap, Answered, history, HonestTray, Counted, Judged
<1>2. ASSUME NEW f \in Facts, Enqueue(f) PROVE HonestInv'
    <2>1. box' = [box EXCEPT ![f] = Fresh] /\ UNCHANGED <<drains, tries, refused>>
        BY <1>2 DEF Enqueue, history
    <2>2. Fresh.status = "pending" /\ Fresh.attempts = 0 /\ \A g \in Facts : tries[g] \in Nat
        BY DEF Fresh, TypeInv
    <2> QED BY <2>1, <2>2 DEF HonestTray, Counted, Judged, TypeInv
<1>3. ASSUME NEW t \in Tabs, Begin(t) PROVE HonestInv'
    <2> DEFINE copy == [f \in Facts |-> IF box[f].status = "pending" THEN box[f] ELSE Absent]
               begun == [Idle EXCEPT !.copy = copy, !.at = [p \in Partitions |-> NextFact(copy, p, 0)]]
    <2>1. drains' = [drains EXCEPT ![t] = begun] /\ UNCHANGED <<box, tries, refused>>
        BY <1>3 DEF Begin, history
    <2>2. begun.copy = copy /\ \A p \in Partitions : begun.verdict[p] = "flying"
        BY DEF Idle
    <2>3. \A f \in Facts : copy[f].status = "pending" => copy[f].attempts <= tries[f]
        BY DEF Absent, Counted
    <2> HIDE DEF copy, begun
    <2>4. Counted' /\ HonestTray'
        BY <2>1, <2>2, <2>3 DEF Counted, HonestTray, TypeInv
    <2>5. Judged'
        BY <2>1, <2>2 DEF Judged, TypeInv
    <2> QED BY <2>4, <2>5
<1>4. ASSUME NEW t \in Tabs, Reload(t) PROVE HonestInv'
    <2>1. drains' = [drains EXCEPT ![t] = Idle] /\ UNCHANGED <<box, tries, refused>>
        BY <1>4 DEF Reload, history
    <2> QED BY <2>1, EntriesAndDrains DEF HonestTray, Counted, Judged, TypeInv
<1>5. CASE Expire \/ Login \/ UNCHANGED vars
    BY <1>5 DEF Expire, Login, vars, history, HonestTray, Counted, Judged
<1>6. ASSUME NEW f \in Facts, Elapse(f) PROVE HonestInv'
    <2> DEFINE entry == [box[f] EXCEPT !.waiting = FALSE]
    <2>1. box' = [box EXCEPT ![f] = entry] /\ UNCHANGED <<drains, tries, refused>>
        BY <1>6 DEF Elapse, history
    <2>2. entry.status = box[f].status /\ entry.attempts = box[f].attempts
        BY DEF TypeInv, Entry
    <2> HIDE DEF entry
    <2> QED BY <2>1, <2>2 DEF HonestTray, Counted, Judged, TypeInv
<1> QED BY <1>1, <1>2, <1>3, <1>4, <1>5, <1>6, HonestReply, HonestSettle
        DEF Next, Operator, Drains, People, Surroundings

\* Nothing comes to the tray but what the server refused or what was sent the agreed number
\* of times without a decision (outbox.ts: classify, attempt), as long as nobody puts it back.
THEOREM TrayIsHonest == ~Tray => (Spec => []HonestTray)
<1> SUFFICES ASSUME ~Tray PROVE Spec => []HonestTray
    OBVIOUS
<1>1. IInv /\ HonestInv /\ [Next]_vars => HonestInv'
    BY HonestStep
<1>2. HonestInv => HonestTray
    BY DEF HonestInv
<1> QED BY <1>1, <1>2, HonestInit, InvariantHolds, PTL DEF Spec

(***************************************************************************)
(* What the queue promises about the order of operations and about sending *)
(* one twice, while one tab drains at a time and nobody retries from the   *)
(* tray.  The inductive invariants.                                        *)
(***************************************************************************)

Waits(entry) == entry.status = "pending"

OneDrain == \A t, u \in Tabs : Busy(t) /\ Busy(u) => t = u

Keyed == {f \in Facts : seq[f] # 0}

\* An operation has a key of its own from when it is queued, and no key is larger than the
\* number of those given.
KeysInv ==
    /\ \A f \in Facts : seq[f] # 0 <=> ui[f] = "queued"
    /\ \A f \in Facts : Waits(box[f]) => seq[f] # 0
    /\ \A t \in Tabs, f \in Facts : Waits(drains[t].copy[f]) => seq[f] # 0
    /\ \A f, g \in Facts : seq[f] = seq[g] /\ seq[f] # 0 => f = g
    /\ \A f \in Facts : seq[f] <= Cardinality(Keyed)

\* What waits and is not in the copy of a drain was queued after everything that is.
Latecomers ==
    \A t \in Tabs : \A f, g \in Facts :
        Waits(box[f]) /\ ~Waits(drains[t].copy[f]) /\ Waits(drains[t].copy[g]) => seq[g] < seq[f]

\* The operation a drain is at is of its partition, and nothing before it waits.
Foremost ==
    \A t \in Tabs, p \in Partitions : drains[t].at[p] # Nobody =>
        /\ PartitionOf[drains[t].at[p]] = p
        /\ \A f \in Facts : Waits(box[f]) /\ PartitionOf[f] = p => seq[drains[t].at[p]] <= seq[f]

LineInv == OneDrain /\ KeysInv /\ Latecomers /\ Foremost

-----------------------------------------------------------------------------
(* Lemmas about the operators.                                             *)

\* The next operation is the first of its partition after the key it is asked for.
LEMMA NextFactIsFirst ==
    ASSUME seq \in [Facts -> Nat], NEW copy, NEW p, NEW n, NextFact(copy, p, n) # Nobody
    PROVE  /\ NextFact(copy, p, n) \in Facts /\ Waits(copy[NextFact(copy, p, n)])
           /\ PartitionOf[NextFact(copy, p, n)] = p /\ seq[NextFact(copy, p, n)] > n
           /\ \A g \in Facts : Waits(copy[g]) /\ PartitionOf[g] = p /\ seq[g] > n
                => seq[NextFact(copy, p, n)] <= seq[g]
<1> DEFINE rest == {f \in Facts : copy[f].status = "pending" /\ PartitionOf[f] = p /\ seq[f] > n}
           first == CHOOSE f \in rest : \A g \in rest : seq[f] <= seq[g]
<1>1. rest # {} /\ NextFact(copy, p, n) = first
    BY DEF NextFact
<1>2. {seq[f] : f \in rest} \in SUBSET Nat /\ {seq[f] : f \in rest} # {}
    BY <1>1
<1>3. \E x \in {seq[f] : f \in rest} : \A y \in {seq[f] : f \in rest} : x <= y
    BY <1>2, LeastNumber
<1>4. \E f \in rest : \A g \in rest : seq[f] <= seq[g]
    BY <1>3
<1>5. first \in rest /\ \A g \in rest : seq[first] <= seq[g]
    BY <1>4
<1> HIDE DEF first
<1> QED BY <1>1, <1>5 DEF Waits

LEMMA OneMore ==
    ASSUME NEW S \in SUBSET Facts, NEW f \in Facts, f \notin S
    PROVE  Cardinality(S \cup {f}) = Cardinality(S) + 1 /\ Cardinality(S) \in Nat
BY FactsAreFinite, FS_Subset, FS_AddElement, FS_CardinalityType

\* A drain that is at no operation has nothing left to do.
LEMMA BusyAt ==
    ASSUME NEW t \in Tabs, NEW p \in Partitions, drains[t].at[p] # Nobody
    PROVE  Busy(t)
BY EntriesAndDrains DEF Busy

LEMMA WaitsFacts ==
    /\ ~Waits(Absent) /\ Waits(Fresh) /\ \A e : ~Waits(e) \/ e # Absent
    /\ \A f \in Facts : ~Waits(Idle.copy[f])
BY EntriesAndDrains DEF Waits, Absent, Fresh

\* What a settled operation leaves: nothing that waits, when the next one may go.
LEMMA GoesOnPast ==
    ASSUME NEW entry, NEW verdict \in Verdicts \ {"flying"},
           GoesOn(AfterAttempt(entry, verdict), verdict)
    PROVE  ~Waits(AfterAttempt(entry, verdict))
<1>1. CASE verdict = "sent"
    BY <1>1 DEF AfterAttempt, Remove, Absent, Waits
<1>2. CASE verdict # "sent"
    BY <1>2 DEF GoesOn, Waits
<1> QED BY <1>1, <1>2

-----------------------------------------------------------------------------
(* What a step of a drain changes, once for every proof below.             *)

LEMMA SettleFacts ==
    ASSUME IInv, NEW t \in Tabs, NEW p \in Partitions, Settle(t, p)
    PROVE  \E f \in Facts, entry \in Entry, next \in Facts \cup {Nobody}, after \in Drain :
             /\ f = drains[t].at[p] /\ drains[t].verdict[p] # "flying"
             /\ Waits(drains[t].copy[f])
             /\ box' = [box EXCEPT ![f] = entry]
             /\ drains[t].verdict[p] = "sent" => entry = Absent
             /\ next # Nobody => /\ next = NextFact(drains[t].copy, p, seq[f])
                                 /\ ~Waits(entry)
             /\ after.copy = drains[t].copy
             /\ \A q \in Partitions : after.at[q] = IF q = p THEN next ELSE drains[t].at[q]
             /\ \A q \in Partitions :
                  after.verdict[q] = IF q = p THEN "flying" ELSE drains[t].verdict[q]
             /\ \A u \in Tabs : u # t => drains'[u] = drains[u]
             /\ \/ drains'[t] = after
                \/ drains'[t] = Idle /\ \A q \in Partitions : after.at[q] = Nobody
             /\ UNCHANGED <<ui, seq, tray, session, history, reloads>>
<1> USE DEF IInv
<1> DEFINE d == drains[t]
           f == d.at[p]
           verdict == d.verdict[p]
           entry == AfterAttempt(d.copy[f], verdict)
           noAuth == d.noAuth \/ verdict = "auth"
           next == IF GoesOn(entry, verdict) /\ ~noAuth THEN NextFact(d.copy, p, seq[f]) ELSE Nobody
           after == [d EXCEPT !.at[p] = next, !.verdict[p] = "flying", !.noAuth = noAuth]
<1>1. /\ f # Nobody /\ ~Flying(t, p)
      /\ box' = [box EXCEPT ![f] = entry]
      /\ drains' = [drains EXCEPT ![t] = IF after.at = Idle.at THEN Idle ELSE after]
      /\ UNCHANGED <<ui, seq, tray, session, history, reloads>>
    BY DEF Settle
<1>2. d \in Drain /\ f \in Facts /\ verdict \in Verdicts \ {"flying"}
    BY <1>1 DEF TypeInv, Drain, Flying
<1>3. d.copy[f] \in Entry /\ d.copy[f].status = "pending" /\ d.copy[f].attempts < MaxAttempts
    BY <1>1, <1>2 DEF SendInv, CopyInv, Proper, Drain
<1>4. entry \in Entry
    BY <1>2, <1>3, AttemptLeaves
<1>5. verdict = "sent" => entry = Absent
    BY DEF AfterAttempt, Remove
<1>6. /\ next \in Facts \cup {Nobody}
      /\ next # Nobody => next = NextFact(d.copy, p, seq[f]) /\ ~Waits(entry)
    BY <1>2, NextFactWaits, GoesOnPast DEF TypeInv
<1> HIDE DEF next, entry
<1>7. /\ after \in Drain /\ after.copy = d.copy
      /\ \A q \in Partitions : after.at[q] = IF q = p THEN next ELSE d.at[q]
      /\ \A q \in Partitions : after.verdict[q] = IF q = p THEN "flying" ELSE d.verdict[q]
    BY <1>2, <1>6 DEF Drain, Verdicts
<1> HIDE DEF after
<1>8. \A u \in Tabs : u # t => drains'[u] = drains[u]
    BY <1>1 DEF TypeInv
<1>9. \/ drains'[t] = after
      \/ drains'[t] = Idle /\ \A q \in Partitions : after.at[q] = Nobody
    BY <1>1, EntriesAndDrains DEF TypeInv
<1> QED BY <1>1, <1>2, <1>3, <1>4, <1>5, <1>6, <1>7, <1>8, <1>9 DEF Waits

LEMMA ReplyFacts ==
    ASSUME IInv, NEW t \in Tabs, NEW p \in Partitions, Reply(t, p)
    PROVE  \E f \in Facts, verdict \in Verdicts :
             /\ f = drains[t].at[p] /\ drains[t].verdict[p] = "flying"
             /\ \A u \in Tabs : drains'[u].copy = drains[u].copy /\ drains'[u].at = drains[u].at
             /\ \A u \in Tabs, q \in Partitions :
                  drains'[u].verdict[q] = IF u = t /\ q = p THEN verdict ELSE drains[u].verdict[q]
             /\ \A u \in Tabs : u # t => drains'[u] = drains[u]
             /\ acked' = IF verdict = "sent" THEN acked \cup {f} ELSE acked
             /\ UNCHANGED <<ui, box, seq, tray, session, reloads>>
<1> USE DEF IInv
<1> DEFINE f == drains[t].at[p]
<1>1. f \in Facts /\ drains[t].verdict[p] = "flying"
    BY DEF Reply, Flying, TypeInv, Drain
<1>2. PICK reply \in Replies(f) :
        /\ drains' = [drains EXCEPT ![t].verdict[p] = Classify(f, reply)]
        /\ acked' = IF reply = "ok" \/ (reply = "missing" /\ f \in Deletes)
                    THEN acked \cup {f} ELSE acked
    BY DEF Reply
<1>3. UNCHANGED <<ui, box, seq, tray, session, reloads>>
    BY DEF Reply
<1>4. /\ Classify(f, reply) \in Verdicts
      /\ Classify(f, reply) = "sent" <=> reply = "ok" \/ (reply = "missing" /\ f \in Deletes)
    <2>1. reply \in {"ok", "missing", "rejected", "denied", "later"}
        BY DEF Replies
    <2>2. CASE reply = "ok"
        BY <2>2 DEF Classify, Verdicts
    <2>3. CASE reply = "missing"
        <3>1. Classify(f, reply) = IF f \in Deletes THEN "sent" ELSE "failed"
            BY <2>3 DEF Classify
        <3> QED BY <3>1, <2>3 DEF Verdicts
    <2>4. CASE reply = "rejected"
        <3>1. Classify(f, reply) = "failed"
            BY <2>4 DEF Classify
        <3> QED BY <3>1, <2>4 DEF Verdicts
    <2>5. CASE reply = "denied"
        <3>1. Classify(f, reply) = "auth"
            BY <2>5 DEF Classify
        <3> QED BY <3>1, <2>5 DEF Verdicts
    <2>6. CASE reply = "later"
        <3>1. Classify(f, reply) = "retry"
            BY <2>6 DEF Classify
        <3> QED BY <3>1, <2>6 DEF Verdicts
    <2> QED BY <2>1, <2>2, <2>3, <2>4, <2>5, <2>6
<1> DEFINE verdict == Classify(f, reply)
<1>5. \A u \in Tabs : drains'[u].copy = drains[u].copy /\ drains'[u].at = drains[u].at
    BY <1>2 DEF TypeInv, Drain
<1>6. \A u \in Tabs, q \in Partitions :
          drains'[u].verdict[q] = IF u = t /\ q = p THEN verdict ELSE drains[u].verdict[q]
    BY <1>2 DEF TypeInv, Drain
<1>7. \A u \in Tabs : u # t => drains'[u] = drains[u]
    BY <1>2 DEF TypeInv
<1>8. acked' = IF verdict = "sent" THEN acked \cup {f} ELSE acked
    BY <1>2, <1>4
<1> HIDE DEF f, verdict
<1>9. verdict \in Verdicts
    BY <1>4 DEF verdict
<1> QED BY <1>1, <1>3, <1>5, <1>6, <1>7, <1>8, <1>9 DEF f

LEMMA BeginFacts ==
    ASSUME IInv, NEW t \in Tabs, Begin(t), HasLocks
    PROVE  \E begun :
             /\ \A u \in Tabs : ~Busy(u)
             /\ \A u \in Tabs : drains'[u] = IF u = t THEN begun ELSE Idle
             /\ \A f \in Facts : Waits(begun.copy[f]) <=> Waits(box[f])
             /\ \A p \in Partitions : begun.at[p] = NextFact(begun.copy, p, 0)
             /\ \A p \in Partitions : begun.verdict[p] = "flying"
             /\ UNCHANGED <<ui, box, seq, tray, session, history, reloads>>
<1> DEFINE copy == [f \in Facts |-> IF box[f].status = "pending" THEN box[f] ELSE Absent]
           begun == [Idle EXCEPT !.copy = copy, !.at = [p \in Partitions |-> NextFact(copy, p, 0)]]
<1>1. /\ drains' = [drains EXCEPT ![t] = begun]
      /\ UNCHANGED <<ui, box, seq, tray, session, history, reloads>>
      /\ \A u \in Tabs : ~Busy(u)
    BY DEF Begin, LockIsFree
<1>2. \A f \in Facts : Waits(copy[f]) <=> Waits(box[f])
    BY WaitsFacts DEF Waits
<1> HIDE DEF copy
<1>3. /\ begun.copy = copy
      /\ \A p \in Partitions : begun.at[p] = NextFact(copy, p, 0)
      /\ \A p \in Partitions : begun.verdict[p] = "flying"
    BY DEF Idle
<1> HIDE DEF begun
<1>4. \A u \in Tabs : drains'[u] = IF u = t THEN begun ELSE Idle
    BY <1>1 DEF IInv, TypeInv, Busy
<1> QED BY <1>1, <1>2, <1>3, <1>4

-----------------------------------------------------------------------------
(* The line.                                                               *)

LEMMA LineInit == Init => LineInv
<1> SUFFICES ASSUME Init PROVE LineInv
    OBVIOUS
<1>1. Keyed = {} /\ Cardinality(Keyed) = 0
    BY FS_EmptySet DEF Keyed, Init
<1> QED BY <1>1, WaitsFacts, EntriesAndDrains
        DEF Init, LineInv, OneDrain, Busy, KeysInv, Latecomers, Foremost

\* A step that neither queues, drains nor settles.
LEMMA LineStays ==
    ASSUME IInv, LineInv, UNCHANGED seq,
           \A f \in Facts : ui'[f] = "queued" <=> ui[f] = "queued",
           \A f \in Facts : Waits(box'[f]) => Waits(box[f]),
           \A t \in Tabs : drains'[t] = Idle \/ (drains'[t].copy = drains[t].copy
                                              /\ drains'[t].at = drains[t].at /\ Busy(t))
    PROVE  LineInv'
<1> USE DEF LineInv
<1>1. \A t \in Tabs : Busy(t)' => Busy(t)
    BY DEF Busy
<1>2. OneDrain'
    BY <1>1 DEF OneDrain
<1>3. Keyed' = Keyed
    BY DEF Keyed
<1>4. \A t \in Tabs, f \in Facts : Waits(drains'[t].copy[f]) => Waits(drains[t].copy[f])
    BY WaitsFacts
<1>5. KeysInv'
    BY <1>3, <1>4 DEF KeysInv
<1>6. Latecomers'
    BY WaitsFacts DEF Latecomers
<1>7. Foremost'
    BY EntriesAndDrains DEF Foremost
<1> QED BY <1>2, <1>5, <1>6, <1>7

\* The key of an operation that is queued is larger than all others.
LEMMA LineEnqueue ==
    ASSUME IInv, LineInv, NEW f \in Facts, Enqueue(f)
    PROVE  LineInv'
<1> USE DEF LineInv, IInv
<1> DEFINE key == Cardinality(Keyed) + 1
<1>1. /\ ui[f] = "offline"
      /\ ui' = [ui EXCEPT ![f] = "queued"]
      /\ box' = [box EXCEPT ![f] = Fresh]
      /\ seq' = [seq EXCEPT ![f] = key]
      /\ UNCHANGED drains
    BY DEF Enqueue, Keyed
<1>2. seq[f] = 0 /\ f \notin Keyed /\ Keyed \in SUBSET Facts
    BY <1>1 DEF KeysInv, Keyed
<1>3. Cardinality(Keyed) \in Nat /\ Cardinality(Keyed \cup {f}) = key
    BY <1>2, OneMore
<1>4. Keyed' = Keyed \cup {f}
    <2>1. \A g \in Facts : seq'[g] = IF g = f THEN key ELSE seq[g]
        BY <1>1 DEF TypeInv
    <2>2. key # 0
        BY <1>3
    <2> HIDE DEF key
    <2> QED BY <2>1, <2>2 DEF Keyed
<1>5. \A g \in Facts : seq[g] \in Nat /\ seq[g] < key
    BY <1>3 DEF KeysInv, TypeInv
<1> HIDE DEF key
<1>6. key # 0 /\ \A g \in Facts : seq'[g] = IF g = f THEN key ELSE seq[g]
    BY <1>1, <1>3 DEF TypeInv, key
<1>7. \A g \in Facts : Waits(box'[g]) => g = f \/ Waits(box[g])
    BY <1>1 DEF TypeInv
<1>8. \A t \in Tabs : ~Waits(drains[t].copy[f])
    BY <1>2 DEF KeysInv
<1>9. OneDrain'
    BY <1>1 DEF OneDrain, Busy
<1>10. \A g \in Facts : seq'[g] <= Cardinality(Keyed)'
    BY <1>3, <1>4, <1>5, <1>6 DEF key
<1>11. /\ \A g \in Facts : seq'[g] # 0 <=> ui'[g] = "queued"
       /\ \A g, h \in Facts : seq'[g] = seq'[h] /\ seq'[g] # 0 => g = h
    BY <1>1, <1>5, <1>6 DEF KeysInv, TypeInv
<1>12. KeysInv'
    BY <1>1, <1>6, <1>7, <1>10, <1>11 DEF KeysInv
<1>13. Latecomers'
    BY <1>1, <1>5, <1>6, <1>7, <1>8 DEF Latecomers
<1>14. Foremost'
    <2> SUFFICES ASSUME NEW t \in Tabs, NEW p \in Partitions, drains[t].at[p] # Nobody
                 PROVE  /\ PartitionOf[drains[t].at[p]] = p
                        /\ \A g \in Facts : Waits(box'[g]) /\ PartitionOf[g] = p =>
                             seq'[drains[t].at[p]] <= seq'[g]
        BY <1>1 DEF Foremost
    <2>1. drains[t].at[p] \in Facts /\ Waits(drains[t].copy[drains[t].at[p]])
        BY DEF TypeInv, Drain, SendInv, Waits
    <2>2. seq'[drains[t].at[p]] = seq[drains[t].at[p]] /\ seq[drains[t].at[p]] <= key
        BY <2>1, <1>5, <1>6, <1>8, <1>3 DEF key
    <2> QED BY <2>1, <2>2, <1>6, <1>7 DEF Foremost
<1> QED BY <1>9, <1>12, <1>13, <1>14

LEMMA LineBegin ==
    ASSUME IInv, LineInv, HasLocks, NEW t \in Tabs, Begin(t)
    PROVE  LineInv'
<1> USE DEF LineInv, IInv
<1>1. PICK begun :
        /\ \A u \in Tabs : drains'[u] = IF u = t THEN begun ELSE Idle
        /\ \A f \in Facts : Waits(begun.copy[f]) <=> Waits(box[f])
        /\ \A p \in Partitions : begun.at[p] = NextFact(begun.copy, p, 0)
        /\ UNCHANGED <<ui, box, seq>>
    BY BeginFacts
<1>2. OneDrain'
    BY <1>1 DEF OneDrain, Busy
<1>3. KeysInv'
    <2>1. Keyed' = Keyed
        BY <1>1 DEF Keyed
    <2> QED BY <2>1, <1>1, WaitsFacts DEF KeysInv
<1>4. Latecomers'
    BY <1>1, WaitsFacts DEF Latecomers
<1>5. Foremost'
    <2> SUFFICES ASSUME NEW u \in Tabs, NEW p \in Partitions, drains'[u].at[p] # Nobody
                 PROVE  /\ PartitionOf[drains'[u].at[p]] = p
                        /\ \A f \in Facts : Waits(box[f]) /\ PartitionOf[f] = p =>
                             seq[drains'[u].at[p]] <= seq[f]
        BY <1>1 DEF Foremost
    <2>1. u = t /\ drains'[u].at[p] = NextFact(begun.copy, p, 0)
        BY <1>1, EntriesAndDrains
    <2>2. \A f \in Facts : Waits(box[f]) => Waits(begun.copy[f]) /\ seq[f] > 0
        BY <1>1 DEF KeysInv, TypeInv
    <2> QED BY <2>1, <2>2, NextFactIsFirst DEF TypeInv
<1> QED BY <1>2, <1>3, <1>4, <1>5

LEMMA LineSettle ==
    ASSUME IInv, LineInv, NEW t \in Tabs, NEW p \in Partitions, Settle(t, p)
    PROVE  LineInv'
<1> USE DEF LineInv, IInv
<1>1. PICK f \in Facts, entry \in Entry, next \in Facts \cup {Nobody}, after \in Drain :
        /\ f = drains[t].at[p]
        /\ Waits(drains[t].copy[f])
        /\ box' = [box EXCEPT ![f] = entry]
        /\ next # Nobody => next = NextFact(drains[t].copy, p, seq[f]) /\ ~Waits(entry)
        /\ after.copy = drains[t].copy
        /\ \A q \in Partitions : after.at[q] = IF q = p THEN next ELSE drains[t].at[q]
        /\ \A u \in Tabs : u # t => drains'[u] = drains[u]
        /\ drains'[t] = after \/ drains'[t] = Idle
        /\ UNCHANGED <<ui, seq>>
    BY SettleFacts
<1>2. f # Nobody /\ Busy(t) /\ \A u \in Tabs : u # t => drains[u] = Idle /\ drains'[u] = Idle
    BY <1>1, BusyAt DEF OneDrain, Busy, Settle
<1>3. OneDrain'
    BY <1>2 DEF OneDrain, Busy
<1>4. \A g \in Facts : box'[g] = IF g = f THEN entry ELSE box[g]
    BY <1>1 DEF TypeInv
<1>5. \A u \in Tabs, g \in Facts : Waits(drains'[u].copy[g]) => Waits(drains[u].copy[g])
    BY <1>1, <1>2, WaitsFacts
<1>6. KeysInv'
    <2>1. Keyed' = Keyed
        BY <1>1 DEF Keyed
    <2>2. seq[f] # 0
        BY <1>1 DEF KeysInv
    <2> QED BY <2>1, <2>2, <1>1, <1>4, <1>5 DEF KeysInv
<1>7. Latecomers'
    <2> SUFFICES ASSUME NEW u \in Tabs, NEW g \in Facts, NEW h \in Facts, Waits(box'[g]),
                        ~Waits(drains'[u].copy[g]), Waits(drains'[u].copy[h])
                 PROVE  seq[h] < seq[g]
        BY <1>1 DEF Latecomers
    <2>1. u = t /\ drains'[u] = after
        BY <1>1, <1>2, WaitsFacts
    <2>2. g # f
        BY <2>1, <1>1
    <2> QED BY <2>1, <2>2, <1>1, <1>4 DEF Latecomers
<1>8. Foremost'
    <2> SUFFICES ASSUME NEW u \in Tabs, NEW q \in Partitions, drains'[u].at[q] # Nobody
                 PROVE  /\ PartitionOf[drains'[u].at[q]] = q
                        /\ \A g \in Facts : Waits(box'[g]) /\ PartitionOf[g] = q =>
                             seq[drains'[u].at[q]] <= seq[g]
        BY <1>1 DEF Foremost
    <2>1. u = t /\ drains'[u] = after
        BY <1>1, <1>2, EntriesAndDrains
    <2>2. PartitionOf[f] = p
        BY <1>1, <1>2 DEF Foremost
    <2>3. CASE q # p
        BY <2>1, <2>2, <2>3, <1>1, <1>4 DEF Foremost
    <2>4. CASE q = p
        <3>1. next # Nobody /\ drains'[u].at[q] = next
            BY <2>1, <2>4, <1>1
        <3>2. /\ next \in Facts /\ Waits(drains[t].copy[next]) /\ PartitionOf[next] = p
              /\ \A g \in Facts : Waits(drains[t].copy[g]) /\ PartitionOf[g] = p /\ seq[g] > seq[f]
                   => seq[next] <= seq[g]
            BY <3>1, <1>1, NextFactIsFirst DEF TypeInv
        <3> SUFFICES ASSUME NEW g \in Facts, Waits(box'[g]), PartitionOf[g] = p
                     PROVE  seq[next] <= seq[g]
            BY <3>1, <3>2, <2>4
        <3>3. g # f /\ Waits(box[g])
            BY <3>1, <1>1, <1>4
        <3>4. seq[g] \in Nat /\ seq[next] \in Nat /\ seq[f] \in Nat
            BY <3>2 DEF TypeInv
        <3>5. CASE Waits(drains[t].copy[g])
            <4>1. seq[f] <= seq[g]
                BY <3>3, <1>1, <1>2 DEF Foremost
            <4>2. seq[f] # seq[g]
                BY <3>3, <1>1 DEF KeysInv
            <4> QED BY <4>1, <4>2, <3>2, <3>4, <3>5
        <3>6. CASE ~Waits(drains[t].copy[g])
            BY <3>6, <3>2, <3>3, <3>4 DEF Latecomers
        <3> QED BY <3>5, <3>6
    <2> QED BY <2>3, <2>4
<1> QED BY <1>3, <1>6, <1>7, <1>8

LEMMA LineStep == HasLocks /\ ~Tray /\ IInv /\ LineInv /\ [Next]_vars => LineInv'
<1> SUFFICES ASSUME HasLocks, ~Tray, IInv, LineInv, [Next]_vars PROVE LineInv'
    OBVIOUS
<1> USE DEF IInv, history, tray
<1>1. ASSUME UNCHANGED drains PROVE \A t \in Tabs : drains'[t] = Idle \/ (drains'[t].copy = drains[t].copy
                                              /\ drains'[t].at = drains[t].at /\ Busy(t))
    BY <1>1 DEF Busy
<1>2. ASSUME NEW f \in Facts, Tap(f) \/ Answered(f) PROVE LineInv'
    <2>1. UNCHANGED <<seq, box, drains>> /\ \A g \in Facts : ui'[g] = "queued" <=> ui[g] = "queued"
        BY <1>2 DEF Tap, Answered, TypeInv
    <2> QED BY <2>1, <1>1, LineStays
<1>3. CASE Expire \/ Login \/ UNCHANGED vars
    <2>1. UNCHANGED <<seq, box, drains, ui>>
        BY <1>3 DEF Expire, Login, vars
    <2> QED BY <2>1, <1>1, LineStays
<1>4. ASSUME NEW f \in Facts, Elapse(f) PROVE LineInv'
    <2>1. /\ UNCHANGED <<seq, drains, ui>>
          /\ \A g \in Facts : Waits(box'[g]) => Waits(box[g])
        BY <1>4 DEF Elapse, TypeInv, Entry, Waits
    <2> QED BY <2>1, <1>1, LineStays
<1>5. ASSUME NEW t \in Tabs, Reload(t) PROVE LineInv'
    <2>1. UNCHANGED <<seq, box>> /\ \A g \in Facts : ui'[g] = "queued" <=> ui[g] = "queued"
        BY <1>5 DEF Reload, TypeInv
    <2>2. \A u \in Tabs : drains'[u] = Idle \/ drains'[u] = drains[u]
        BY <1>5 DEF Reload, TypeInv
    <2> QED BY <2>1, <2>2, LineStays DEF Busy
<1>6. ASSUME NEW t \in Tabs, NEW p \in Partitions, Reply(t, p) PROVE LineInv'
    <2>1. PICK f \in Facts, verdict \in Verdicts :
            /\ f = drains[t].at[p]
            /\ \A u \in Tabs : drains'[u].copy = drains[u].copy /\ drains'[u].at = drains[u].at
            /\ \A u \in Tabs : u # t => drains'[u] = drains[u]
            /\ UNCHANGED <<ui, box, seq>>
        BY <1>6, ReplyFacts
    <2>2. Busy(t)
        BY <1>6, BusyAt DEF Reply, Flying
    <2> QED BY <2>1, <2>2, LineStays DEF Busy
<1> QED BY <1>2, <1>3, <1>4, <1>5, <1>6, LineEnqueue, LineBegin, LineSettle
        DEF Next, Operator, Drains, People, Surroundings

\* With navigator.locks and nobody retrying from the tray, nothing is sent while an older
\* operation of its account waits (outbox.ts: drainOnce, byPartition).
THEOREM ReplaysInLine == HasLocks /\ ~Tray => (Spec => []ReplayInLine)
<1> SUFFICES ASSUME HasLocks, ~Tray PROVE Spec => []ReplayInLine
    OBVIOUS
<1>1. IInv /\ LineInv /\ [Next]_vars => LineInv'
    BY LineStep
<1>2. IInv /\ LineInv => ReplayInLine
    BY DEF IInv, LineInv, Foremost, ReplayInLine, Flying, Waits, TypeInv, Drain
<1> QED BY <1>1, <1>2, LineInit, InvariantHolds, PTL DEF Spec

-----------------------------------------------------------------------------
(* Nothing is sent again once it was acknowledged.                         *)

Acknowledged(f) == \E t \in Tabs, p \in Partitions :
                       drains[t].at[p] = f /\ drains[t].verdict[p] = "sent"

\* What the server has taken is out of the queue, or about to be taken out of it; the drain
\* that sent it has passed it.
AckInv ==
    /\ \A f \in acked : ui[f] = "queued" /\ (~Waits(box[f]) \/ Acknowledged(f))
    /\ \A t \in Tabs, p \in Partitions : drains[t].at[p] # Nobody =>
         /\ drains[t].verdict[p] # "sent" => drains[t].at[p] \notin acked
         /\ \A f \in acked : Waits(drains[t].copy[f]) /\ PartitionOf[f] = p =>
              seq[f] <= seq[drains[t].at[p]]

OnceInv == reloads \in Nat /\ (reloads = 0 => AckInv)

LEMMA OnceReply ==
    ASSUME IInv, LineInv, AckInv, NEW t \in Tabs, NEW p \in Partitions, Reply(t, p)
    PROVE  AckInv'
<1> USE DEF IInv, LineInv
<1>1. PICK f \in Facts, verdict \in Verdicts :
        /\ f = drains[t].at[p] /\ drains[t].verdict[p] = "flying"
        /\ \A u \in Tabs : drains'[u].copy = drains[u].copy /\ drains'[u].at = drains[u].at
        /\ \A u \in Tabs, q \in Partitions :
             drains'[u].verdict[q] = IF u = t /\ q = p THEN verdict ELSE drains[u].verdict[q]
        /\ acked' = IF verdict = "sent" THEN acked \cup {f} ELSE acked
        /\ UNCHANGED <<ui, box, seq>>
    BY ReplyFacts
<1>2. f # Nobody /\ Busy(t)
    BY BusyAt, <1>1 DEF Reply, Flying
<1>3. Waits(drains[t].copy[f]) /\ ui[f] = "queued" /\ PartitionOf[f] = p
    BY <1>1, <1>2 DEF SendInv, Waits, KeysInv, Foremost
<1>4. \A u \in Tabs, q \in Partitions : drains[u].at[q] = f => u = t /\ q = p
    BY <1>1, <1>2, <1>3, BusyAt DEF OneDrain, Foremost
<1>5. ASSUME NEW g \in acked' PROVE ui'[g] = "queued" /\ (~Waits(box'[g]) \/ Acknowledged(g)')
    <2>1. CASE g \in acked
        BY <2>1, <1>1 DEF AckInv, Acknowledged
    <2>2. CASE g = f /\ verdict = "sent"
        BY <2>2, <1>1, <1>3 DEF Acknowledged
    <2> QED BY <2>1, <2>2, <1>1
<1>6. ASSUME NEW u \in Tabs, NEW q \in Partitions, drains'[u].at[q] # Nobody
      PROVE  drains'[u].verdict[q] # "sent" => drains'[u].at[q] \notin acked'
    BY <1>1, <1>2, <1>4, <1>6 DEF AckInv
<1>7. ASSUME NEW u \in Tabs, NEW q \in Partitions, drains'[u].at[q] # Nobody, NEW g \in acked',
             Waits(drains'[u].copy[g]), PartitionOf[g] = q
      PROVE  seq'[g] <= seq'[drains'[u].at[q]]
    <2>1. CASE g \in acked
        BY <2>1, <1>1, <1>7 DEF AckInv
    <2>2. CASE g = f
        <3>1. u = t /\ q = p
            BY <2>2, <1>2, <1>3, <1>7, <1>1, BusyAt DEF OneDrain
        <3> QED BY <3>1, <2>2, <1>1 DEF TypeInv
    <2> QED BY <2>1, <2>2, <1>1
<1> QED BY <1>5, <1>6, <1>7 DEF AckInv

LEMMA OnceSettle ==
    ASSUME IInv, LineInv, AckInv, NEW t \in Tabs, NEW p \in Partitions, Settle(t, p)
    PROVE  AckInv'
<1> USE DEF IInv, LineInv
<1>1. PICK f \in Facts, entry \in Entry, next \in Facts \cup {Nobody}, after \in Drain :
        /\ f = drains[t].at[p] /\ drains[t].verdict[p] # "flying"
        /\ box' = [box EXCEPT ![f] = entry]
        /\ drains[t].verdict[p] = "sent" => entry = Absent
        /\ next # Nobody => next = NextFact(drains[t].copy, p, seq[f])
        /\ after.copy = drains[t].copy
        /\ \A q \in Partitions : after.at[q] = IF q = p THEN next ELSE drains[t].at[q]
        /\ \A q \in Partitions :
             after.verdict[q] = IF q = p THEN "flying" ELSE drains[t].verdict[q]
        /\ \A u \in Tabs : u # t => drains'[u] = drains[u]
        /\ \/ drains'[t] = after
           \/ drains'[t] = Idle /\ \A q \in Partitions : after.at[q] = Nobody
        /\ UNCHANGED <<ui, seq, acked>>
    BY SettleFacts DEF history
<1>2. f # Nobody /\ Busy(t) /\ \A u \in Tabs : u # t => drains[u] = Idle /\ drains'[u] = Idle
    BY <1>1, BusyAt DEF OneDrain, Busy, Settle
<1>3. PartitionOf[f] = p
    BY <1>1, <1>2 DEF Foremost
<1>4. \A g \in Facts : box'[g] = IF g = f THEN entry ELSE box[g]
    BY <1>1 DEF TypeInv
<1>5. ASSUME NEW g \in acked PROVE ~Waits(box'[g]) \/ Acknowledged(g)'
    <2>1. CASE g = f
        <3>1. drains[t].verdict[p] = "sent"
            BY <2>1, <1>1, <1>2 DEF AckInv
        <3> QED BY <3>1, <2>1, <1>1, <1>4, WaitsFacts
    <2>2. CASE g # f /\ ~Waits(box[g])
        BY <2>2, <1>4, <1>5 DEF TypeInv
    <2>3. CASE g # f /\ Waits(box[g])
        <3>0. g \in Facts /\ g # Nobody
            BY <1>5, FactsAssumption DEF TypeInv
        <3>1. PICK u \in Tabs, q \in Partitions : drains[u].at[q] = g /\ drains[u].verdict[q] = "sent"
            BY <2>3 DEF AckInv, Acknowledged
        <3>2. u = t /\ q # p
            BY <3>0, <3>1, <2>3, <1>1, <1>2, EntriesAndDrains
        <3>3. after.at[q] = g /\ after.verdict[q] = "sent"
            BY <3>1, <3>2, <1>1
        <3>4. drains'[t] = after
            BY <3>0, <3>3, <1>1
        <3> QED BY <3>3, <3>4 DEF Acknowledged
    <2> QED BY <2>1, <2>2, <2>3
<1>6. ASSUME NEW u \in Tabs, NEW q \in Partitions, drains'[u].at[q] # Nobody
      PROVE  /\ drains'[u].verdict[q] # "sent" => drains'[u].at[q] \notin acked
             /\ \A g \in acked : Waits(drains'[u].copy[g]) /\ PartitionOf[g] = q =>
                  seq[g] <= seq[drains'[u].at[q]]
    <2>1. u = t /\ drains'[u] = after
        BY <1>1, <1>2, <1>6, EntriesAndDrains
    <2>2. CASE q # p
        BY <2>1, <2>2, <1>1, <1>6 DEF AckInv
    <2>3. CASE q = p
        <3>1. next # Nobody /\ drains'[u].at[q] = next
            BY <2>1, <2>3, <1>1, <1>6
        <3>2. /\ next \in Facts /\ Waits(drains[t].copy[next]) /\ PartitionOf[next] = p
              /\ seq[next] > seq[f]
            BY <3>1, <1>1, NextFactIsFirst DEF TypeInv
        <3>3. \A g \in acked : Waits(drains[t].copy[g]) /\ PartitionOf[g] = p => seq[g] <= seq[f]
            BY <1>1, <1>2 DEF AckInv
        <3>4. \A g \in Facts : seq[g] \in Nat
            BY DEF TypeInv
        <3>5. next \notin acked
            BY <3>2, <3>3, <3>4
        <3>6. \A g \in acked : Waits(drains[t].copy[g]) /\ PartitionOf[g] = p => seq[g] <= seq[next]
            BY <3>2, <3>3, <3>4 DEF TypeInv
        <3> QED BY <3>1, <3>5, <3>6, <2>1, <2>3, <1>1
    <2> QED BY <2>2, <2>3
<1> QED BY <1>1, <1>5, <1>6 DEF AckInv

LEMMA OnceBegin ==
    ASSUME IInv, LineInv, AckInv, HasLocks, NEW t \in Tabs, Begin(t)
    PROVE  AckInv'
<1> USE DEF LineInv, IInv
<1>1. PICK begun :
        /\ \A u \in Tabs : ~Busy(u)
        /\ \A u \in Tabs : drains'[u] = IF u = t THEN begun ELSE Idle
        /\ \A f \in Facts : Waits(begun.copy[f]) <=> Waits(box[f])
        /\ \A p \in Partitions : begun.at[p] = NextFact(begun.copy, p, 0)
        /\ UNCHANGED <<ui, box, seq, acked>>
    BY BeginFacts DEF history
<1>2. \A f \in acked : f \in Facts /\ f # Nobody
    BY FactsAssumption DEF TypeInv
<1>3. \A f \in acked : ~Waits(box[f])
    BY <1>1, <1>2, BusyAt DEF AckInv, Acknowledged
<1>4. ASSUME NEW u \in Tabs, NEW q \in Partitions, drains'[u].at[q] # Nobody
      PROVE  u = t /\ drains'[u].at[q] \notin acked
    <2>1. u = t /\ drains'[u].at[q] = NextFact(begun.copy, q, 0)
        BY <1>1, <1>4, EntriesAndDrains
    <2>2. drains'[u].at[q] \in Facts /\ Waits(begun.copy[drains'[u].at[q]])
        BY <2>1, <1>4, NextFactIsFirst DEF TypeInv
    <2> QED BY <2>1, <2>2, <1>1, <1>3
<1> QED BY <1>1, <1>2, <1>3, <1>4 DEF AckInv

\* A step that neither answers, drains nor settles.
LEMMA OnceStays ==
    ASSUME IInv, LineInv, AckInv, UNCHANGED <<drains, acked>>,
           \A f \in Facts : seq[f] # 0 => seq'[f] = seq[f],
           \A f \in Facts : ui[f] = "queued" => ui'[f] = "queued",
           \A f \in Facts : ui[f] = "queued" /\ Waits(box'[f]) => Waits(box[f])
    PROVE  AckInv'
<1> USE DEF LineInv, IInv
<1>1. \A f \in acked : f \in Facts /\ ui[f] = "queued" /\ seq'[f] = seq[f]
    BY DEF AckInv, TypeInv, KeysInv
<1>2. \A t \in Tabs, p \in Partitions : drains[t].at[p] # Nobody =>
        seq'[drains[t].at[p]] = seq[drains[t].at[p]]
    <2> SUFFICES ASSUME NEW t \in Tabs, NEW p \in Partitions, drains[t].at[p] # Nobody
                 PROVE  seq'[drains[t].at[p]] = seq[drains[t].at[p]]
        OBVIOUS
    <2>1. drains[t].at[p] \in Facts /\ Waits(drains[t].copy[drains[t].at[p]])
        BY DEF TypeInv, Drain, SendInv, Waits
    <2> QED BY <2>1 DEF KeysInv
<1> QED BY <1>1, <1>2 DEF AckInv, Acknowledged

LEMMA OnceStep ==
    HasLocks /\ ~Tray /\ IInv /\ LineInv /\ OnceInv /\ [Next]_vars => OnceInv'
<1> SUFFICES ASSUME HasLocks, ~Tray, IInv, LineInv, OnceInv, [Next]_vars PROVE OnceInv'
    OBVIOUS
<1> USE DEF history, tray
<1>1. CASE \E t \in Tabs : Reload(t)
    BY <1>1 DEF Reload, OnceInv
<1>2. ASSUME UNCHANGED reloads, AckInv => AckInv' PROVE OnceInv'
    BY <1>2 DEF OnceInv
<1>3. ASSUME NEW f \in Facts, Tap(f) \/ Answered(f) PROVE OnceInv'
    <2>1. /\ UNCHANGED <<seq, box, drains, acked, reloads>>
          /\ \A g \in Facts : ui[g] = "queued" => ui'[g] = "queued"
        BY <1>3 DEF Tap, Answered, IInv, TypeInv
    <2> QED BY <2>1, <1>2, OnceStays
<1>4. ASSUME NEW f \in Facts, Enqueue(f) PROVE OnceInv'
    <2>1. ui[f] = "offline" /\ seq[f] = 0
        BY <1>4 DEF Enqueue, LineInv, KeysInv
    <2>2. /\ UNCHANGED <<drains, acked, reloads>>
          /\ \A g \in Facts \ {f} : seq'[g] = seq[g] /\ ui'[g] = ui[g] /\ box'[g] = box[g]
        BY <1>4 DEF Enqueue, IInv, TypeInv
    <2> QED BY <2>1, <2>2, <1>2, OnceStays
<1>5. CASE Expire \/ Login \/ UNCHANGED vars
    <2>1. UNCHANGED <<seq, box, drains, ui, acked, reloads>>
        BY <1>5 DEF Expire, Login, vars
    <2> QED BY <2>1, <1>2, OnceStays
<1>6. ASSUME NEW f \in Facts, Elapse(f) PROVE OnceInv'
    <2>1. /\ UNCHANGED <<seq, drains, ui, acked, reloads>>
          /\ \A g \in Facts : Waits(box'[g]) => Waits(box[g])
        BY <1>6 DEF Elapse, IInv, TypeInv, Entry, Waits
    <2> QED BY <2>1, <1>2, OnceStays
<1>7. ASSUME NEW t \in Tabs, NEW p \in Partitions, Reply(t, p) \/ Settle(t, p) PROVE OnceInv'
    <2>1. UNCHANGED reloads
        BY <1>7 DEF Reply, Settle
    <2> QED BY <2>1, <1>2, <1>7, OnceReply, OnceSettle
<1>8. ASSUME NEW t \in Tabs, Begin(t) PROVE OnceInv'
    <2>1. UNCHANGED reloads
        BY <1>8 DEF Begin
    <2> QED BY <2>1, <1>2, <1>8, OnceBegin
<1> QED BY <1>1, <1>3, <1>4, <1>5, <1>6, <1>7, <1>8
        DEF Next, Operator, Drains, People, Surroundings

\* With navigator.locks, nobody retrying from the tray and no tab reloaded, an operation the
\* server has taken is not sent again (outbox.ts: drainOnce, attempt).
THEOREM AcknowledgedOnce == HasLocks /\ ~Tray => (Spec => []AckedOnce)
<1> SUFFICES ASSUME HasLocks, ~Tray PROVE Spec => []AckedOnce
    OBVIOUS
<1>1. IInv /\ LineInv /\ [Next]_vars => LineInv'
    BY LineStep
<1>2. IInv /\ LineInv /\ OnceInv /\ [Next]_vars => OnceInv'
    BY OnceStep
<1>3. Init => OnceInv
    BY EntriesAndDrains DEF Init, OnceInv, AckInv
<1>4. OnceInv => AckedOnce
    BY DEF OnceInv, AckInv, AckedOnce, Flying
<1> QED BY <1>1, <1>2, <1>3, <1>4, LineInit, InvariantHolds, PTL DEF Spec

=============================================================================
