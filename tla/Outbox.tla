------------------------------- MODULE Outbox -------------------------------
(***************************************************************************)
(* The offline queue of the web client (lib/offline/outbox.ts and          *)
(* mutate.ts).  A fact the operator states is sent at once; when the       *)
(* network fails it is kept in IndexedDB, which the tabs of the tablet     *)
(* share, and replayed later.  A drain copies the queue, sends it one      *)
(* operation per partition at a time and writes each outcome back, from    *)
(* its copy, over whatever the queue holds by then.                        *)
(***************************************************************************)
EXTENDS Integers, Sequences, FiniteSetsExt

CONSTANTS
    Facts,        \* mutations that can be deferred, numbered in the order they are touched
    Tabs, TabOf,  \* TabOf[f]: the tab the operator states f in
    Partitions, PartitionOf,
    Deletes,      \* facts sent with DELETE
    Forbidden,    \* facts the role of whoever is logged in may not state: always a 403
    MaxAttempts,
    HasLocks,     \* the browser has navigator.locks
    Tray,         \* people use the tray: retry, discard
    OneByOne,     \* the operator waits for the outcome of a fact before stating the next
    MaxReloads    \* bound on tabs that are closed or reloaded

Nobody == 0

ASSUME FactsAssumption == Facts \subseteq Nat \ {Nobody}
ASSUME FactsAreFinite == IsFiniteSet(Facts)
ASSUME PlacesAssumption == TabOf \in [Facts -> Tabs] /\ PartitionOf \in [Facts -> Partitions]
ASSUME KindsAssumption == Deletes \subseteq Facts /\ Forbidden \subseteq Facts
ASSUME BoundsAssumption == MaxAttempts \in Nat \ {0} /\ MaxReloads \in Nat
ASSUME SwitchesAssumption == {HasLocks, Tray, OneByOne} \subseteq BOOLEAN

VARIABLES
    ui,         \* what the operator's screen knows of each fact
    box,        \* the table `outbox` of IndexedDB
    seq,        \* seq[f]: the key the database gave f; 0 until it is queued
    drains,     \* drains[t]: drainOnce under way in tab t
    asking,     \* asking[t]: the operation the discard dialog of t is about
    retrying,   \* retrying[t]: what requeuePartition of t read and has not put back
    session,    \* the cookie of the tablet can still be refreshed
    acked,      \* facts a drain got a favourable answer for
    refused,    \* facts a drain got a definitive refusal for
    tries,      \* tries[f]: sends without a decision since f was queued or put back,
                \* counted up to MaxAttempts
    discarded,  \* facts a person threw away
    reloads

vars == <<ui, box, seq, drains, asking, retrying, session, acked, refused, tries,
          discarded, reloads>>
history == <<acked, refused, tries>>
tray == <<asking, retrying, discarded>>

Screen == {"none", "sending", "offline", "sent", "refused", "queued", "gone"}
Entry == [status : {"none", "pending", "failed"}, attempts : 0..MaxAttempts, waiting : BOOLEAN]
Verdicts == {"flying", "sent", "failed", "retry", "auth"}
Drain == [copy : [Facts -> Entry], at : [Partitions -> Facts \cup {Nobody}],
          verdict : [Partitions -> Verdicts], noAuth : BOOLEAN]

Absent == [status |-> "none", attempts |-> 0, waiting |-> FALSE]
Fresh == [status |-> "pending", attempts |-> 0, waiting |-> FALSE]
Idle == [copy |-> [f \in Facts |-> Absent], at |-> [p \in Partitions |-> Nobody],
         verdict |-> [p \in Partitions |-> "flying"], noAuth |-> FALSE]

Busy(t) == drains[t] # Idle
Flying(t, p) == drains[t].at[p] # Nobody /\ drains[t].verdict[p] = "flying"

Init ==
    /\ ui = [f \in Facts |-> "none"]
    /\ box = [f \in Facts |-> Absent]
    /\ seq = [f \in Facts |-> 0]
    /\ drains = [t \in Tabs |-> Idle]
    /\ asking = [t \in Tabs |-> Nobody]
    /\ retrying = [t \in Tabs |-> {}]
    /\ session = TRUE
    /\ acked = {} /\ refused = {} /\ discarded = {}
    /\ tries = [f \in Facts |-> 0]
    /\ reloads = 0

-----------------------------------------------------------------------------
(* The server, as far as the queue can tell: whether it took what got no    *)
(* answer, the queue does not know.                                        *)

Accepts(f) == session /\ f \notin Forbidden

\* What can come back: "later" is no answer at all, a 5xx, or 408, 425 and 429.
Replies(f) == IF Accepts(f) THEN {"ok", "missing", "rejected", "later"} ELSE {"denied", "later"}

-----------------------------------------------------------------------------
(* mutate: straight to the server, to the queue only when there is no      *)
(* network.                                                                *)

Tap(f) ==
    /\ ui[f] = "none"
    /\ \A g \in Facts : g < f => ui[g] # "none"
    /\ OneByOne => \A g \in Facts : ui[g] \notin {"sending", "offline"}
    /\ ui' = [ui EXCEPT ![f] = "sending"]
    /\ UNCHANGED <<box, seq, drains, tray, session, history, reloads>>

Answered(f) ==
    /\ ui[f] = "sending"
    /\ \/ Accepts(f) /\ ui' = [ui EXCEPT ![f] = "sent"]
       \/ ui' = [ui EXCEPT ![f] = "offline"]
       \/ ui' = [ui EXCEPT ![f] = "refused"]
    /\ UNCHANGED <<box, seq, drains, tray, session, history, reloads>>

\* enqueue: the key is the autoincrement of the database, never given twice.
Enqueue(f) ==
    /\ ui[f] = "offline"
    /\ ui' = [ui EXCEPT ![f] = "queued"]
    /\ box' = [box EXCEPT ![f] = Fresh]
    /\ seq' = [seq EXCEPT ![f] = Cardinality({g \in Facts : seq[g] # 0}) + 1]
    /\ UNCHANGED <<drains, tray, session, history, reloads>>

-----------------------------------------------------------------------------
(* drain.                                                                  *)

\* The next operation of partition p after key n, if its backoff has passed.
NextFact(copy, p, n) ==
    LET rest == {f \in Facts : copy[f].status = "pending" /\ PartitionOf[f] = p /\ seq[f] > n}
        first == CHOOSE f \in rest : \A g \in rest : seq[f] <= seq[g]
    IN IF rest = {} THEN Nobody ELSE IF copy[first].waiting THEN Nobody ELSE first

LockOfTheTab(t) == ~Busy(t)
LockIsFree(t) == ~Busy(t) /\ (HasLocks => \A u \in Tabs : ~Busy(u))

\* flush: the probe got through.  Every partition sends its first operation before
\* any answer comes; with nothing to send the drain ends there.
Begin(t) ==
    LET copy == [f \in Facts |-> IF box[f].status = "pending" THEN box[f] ELSE Absent]
        at == [p \in Partitions |-> NextFact(copy, p, 0)]
    IN /\ LockIsFree(t)
       /\ at # Idle.at
       /\ drains' = [drains EXCEPT ![t] = [Idle EXCEPT !.copy = copy, !.at = at]]
       /\ UNCHANGED <<ui, box, seq, tray, session, history, reloads>>

ClassifyCoarse(f, reply) ==
    IF reply \in {"denied", "rejected", "missing"} THEN "failed"
    ELSE IF reply = "ok" THEN "sent" ELSE "retry"
Classify(f, reply) ==
    CASE reply = "ok" -> "sent"
      [] reply = "denied" -> "auth"
      [] reply = "missing" -> IF f \in Deletes THEN "sent" ELSE "failed"
      [] reply = "rejected" -> "failed"
      [] reply = "later" -> "retry"

Reply(t, p) ==
    LET f == drains[t].at[p] IN
    /\ Flying(t, p)
    /\ \E reply \in Replies(f) :
         LET verdict == Classify(f, reply) IN
         /\ drains' = [drains EXCEPT ![t].verdict[p] = verdict]
         /\ acked' = IF reply = "ok" \/ (reply = "missing" /\ f \in Deletes)
                     THEN acked \cup {f} ELSE acked
         /\ refused' = IF reply \in {"rejected", "missing"} THEN refused \cup {f} ELSE refused
         /\ tries' = IF reply = "later" THEN [tries EXCEPT ![f] = Min({@ + 1, MaxAttempts})]
                     ELSE tries
    /\ UNCHANGED <<ui, box, seq, tray, session, reloads>>

\* attempt: what becomes of the operation, reckoned from the copy of the drain.
RemoveByOtherKey(entry) == [entry EXCEPT !.waiting = TRUE]
Remove(entry) == Absent

GiveUpSilently(entry) == Absent
GiveUp(entry) == [status |-> "failed", attempts |-> entry.attempts + 1, waiting |-> FALSE]

TryAgainUncounted(entry) == [entry EXCEPT !.waiting = TRUE]
TryAgain(entry) == [entry EXCEPT !.attempts = @ + 1, !.waiting = TRUE]

Exhausted(entry) == entry.attempts + 1 >= MaxAttempts

AfterAttempt(entry, verdict) ==
    CASE verdict = "sent" -> Remove(entry)
      [] verdict = "auth" -> [entry EXCEPT !.waiting = TRUE]
      [] verdict = "failed" -> GiveUp(entry)
      [] verdict = "retry" -> IF Exhausted(entry) THEN GiveUp(entry) ELSE TryAgain(entry)

\* A sent or a given-up operation lets the next of its partition go; a session that
\* is not valid stops every partition as it comes back.
GoesOnAlways(entry, verdict) == verdict # "auth"
GoesOn(entry, verdict) == verdict = "sent" \/ (verdict # "auth" /\ entry.status = "failed")

Settle(t, p) ==
    LET d == drains[t]
        f == d.at[p]
        verdict == d.verdict[p]
        entry == AfterAttempt(d.copy[f], verdict)
        noAuth == d.noAuth \/ verdict = "auth"
        next == IF GoesOn(entry, verdict) /\ ~noAuth THEN NextFact(d.copy, p, seq[f]) ELSE Nobody
        after == [d EXCEPT !.at[p] = next, !.verdict[p] = "flying", !.noAuth = noAuth]
    IN /\ f # Nobody
       /\ ~Flying(t, p)
       /\ box' = [box EXCEPT ![f] = entry]
       /\ drains' = [drains EXCEPT ![t] = IF after.at = Idle.at THEN Idle ELSE after]
       /\ UNCHANGED <<ui, seq, tray, session, history, reloads>>

\* The backoff passes.
Elapse(f) ==
    /\ box[f].waiting
    /\ box' = [box EXCEPT ![f].waiting = FALSE]
    /\ UNCHANGED <<ui, seq, drains, tray, session, history, reloads>>

-----------------------------------------------------------------------------
(* The tray.                                                               *)

Ask(t, f) ==
    /\ asking[t] = Nobody
    /\ box[f].status = "failed"
    /\ asking' = [asking EXCEPT ![t] = f]
    /\ UNCHANGED <<ui, box, seq, drains, retrying, session, history, discarded, reloads>>

\* The dialog keeps the operation it was opened for; discard looks only at whether
\* the row is still there.
Confirm(t) ==
    LET f == asking[t] IN
    /\ f # Nobody
    /\ asking' = [asking EXCEPT ![t] = Nobody]
    /\ box' = [box EXCEPT ![f] = Absent]
    /\ discarded' = IF box[f] = Absent THEN discarded ELSE discarded \cup {f}
    /\ UNCHANGED <<ui, seq, drains, retrying, session, history, reloads>>

Cancel(t) ==
    /\ asking[t] # Nobody
    /\ asking' = [asking EXCEPT ![t] = Nobody]
    /\ UNCHANGED <<ui, box, seq, drains, retrying, session, history, discarded, reloads>>

Retry(t, p) ==
    LET stuck == {f \in Facts : PartitionOf[f] = p /\ box[f].status = "failed"} IN
    /\ asking[t] = Nobody /\ retrying[t] = {}
    /\ stuck # {}
    /\ retrying' = [retrying EXCEPT ![t] = stuck]
    /\ UNCHANGED <<ui, box, seq, drains, asking, session, history, discarded, reloads>>

PutBack(t, f) ==
    /\ f \in retrying[t]
    /\ retrying' = [retrying EXCEPT ![t] = @ \ {f}]
    /\ box' = [box EXCEPT ![f] = Fresh]
    /\ tries' = [tries EXCEPT ![f] = 0]
    /\ UNCHANGED <<ui, seq, drains, asking, session, acked, refused, discarded, reloads>>

-----------------------------------------------------------------------------
(* The surroundings: a tab is closed or reloaded, the session runs out.    *)

Reload(t) ==
    /\ reloads < MaxReloads
    /\ reloads' = reloads + 1
    /\ ui' = [f \in Facts |-> IF TabOf[f] = t /\ ui[f] \in {"sending", "offline"}
                              THEN "gone" ELSE ui[f]]
    /\ drains' = [drains EXCEPT ![t] = Idle]
    /\ asking' = [asking EXCEPT ![t] = Nobody]
    /\ retrying' = [retrying EXCEPT ![t] = {}]
    /\ UNCHANGED <<box, seq, session, history, discarded>>

Expire == session /\ session' = FALSE
          /\ UNCHANGED <<ui, box, seq, drains, tray, history, reloads>>
Login == ~session /\ session' = TRUE
         /\ UNCHANGED <<ui, box, seq, drains, tray, history, reloads>>

Operator == \E f \in Facts : Tap(f) \/ Answered(f) \/ Enqueue(f)
Drains == \E t \in Tabs : Begin(t) \/ \E p \in Partitions : Reply(t, p) \/ Settle(t, p)
People == Tray /\ \E t \in Tabs : \/ Confirm(t) \/ Cancel(t)
                                  \/ \E f \in Facts : Ask(t, f) \/ PutBack(t, f)
                                  \/ \E p \in Partitions : Retry(t, p)
Surroundings == (\E t \in Tabs : Reload(t)) \/ Expire \/ Login \/ \E f \in Facts : Elapse(f)

Next == Operator \/ Drains \/ People \/ Surroundings

Spec == Init /\ [][Next]_vars

\* The interval of fifteen seconds keeps draining, every request ends in an answer or
\* in an error, a write of IndexedDB completes and the clock runs.
Fairness ==
    /\ WF_vars(\E t \in Tabs : Begin(t))
    /\ \A t \in Tabs, p \in Partitions : WF_vars(Reply(t, p)) /\ WF_vars(Settle(t, p))
    /\ \A f \in Facts : WF_vars(Elapse(f))

FairSpec == Spec /\ Fairness

-----------------------------------------------------------------------------
TypeOK ==
    /\ ui \in [Facts -> Screen]
    /\ box \in [Facts -> Entry]
    /\ seq \in [Facts -> Nat]
    /\ drains \in [Tabs -> Drain]
    /\ asking \in [Tabs -> Facts \cup {Nobody}]
    /\ retrying \in [Tabs -> SUBSET Facts]
    /\ session \in BOOLEAN
    /\ acked \subseteq Facts /\ refused \subseteq Facts /\ discarded \subseteq Facts
    /\ tries \in [Facts -> 0..MaxAttempts]
    /\ reloads \in 0..MaxReloads

\* A fact the screen was told is queued is in the queue or in the tray until the server
\* has taken it or a person has thrown it away, whatever tabs are closed meanwhile.
NothingLost ==
    \A f \in Facts : ui[f] = "queued" => box[f] # Absent \/ f \in acked \cup discarded

\* No operation is in flight while an older one of its partition still waits in the
\* queue: neither its backoff nor its retries let the next one overtake it.
ReplayInLine ==
    \A t \in Tabs, p \in Partitions : Flying(t, p) =>
      \A f \in Facts :
        box[f].status = "pending" /\ PartitionOf[f] = p => seq[f] >= seq[drains[t].at[p]]

\* The tray only shows what the server refused or what was sent the agreed number of
\* times without a decision: a session that ran out never sends an operation there.
HonestTray ==
    \A f \in Facts : box[f].status = "failed" => f \in refused \/ tries[f] >= MaxAttempts

\* While no tab is reloaded, what a drain has read a favourable answer for is not sent
\* again.  What the server took and whose answer was lost is: the queue cannot tell.
AckedOnce ==
    reloads = 0 => \A t \in Tabs, p \in Partitions : Flying(t, p) => drains[t].at[p] \notin acked

\* With a session, an operation of a partition where everything is permitted does not
\* wait for ever, however often another account stops the whole drain.
EventuallyDecided ==
    <>[]session => \A f \in Facts :
      (\A g \in Forbidden : PartitionOf[g] # PartitionOf[f]) =>
        (box[f].status = "pending" ~> box[f].status # "pending")
=============================================================================
