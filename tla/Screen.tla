------------------------------- MODULE Screen -------------------------------
(***************************************************************************)
(* The list of open accounts on a device of the salon: the copy of what    *)
(* the server told (lib/offline/cache.ts), the rows the screen writes for  *)
(* what it could not send (optimistic.ts), the queue laid over them        *)
(* (apply-pending.ts), and the two that replace the copy: the reload after *)
(* an event of the socket (realtime-invalidator.tsx) and the seeding with  *)
(* what the server component brought (use-cache.ts).  Each await of        *)
(* IndexedDB or of the network is a step of its own.                       *)
(***************************************************************************)
EXTENDS Integers, FiniteSets, SequencesExt

CONSTANTS
    Accounts, Lines,
    Ops,          \* what the operator of this device states, numbered in that order
    OpOf,         \* OpOf[o]: its kind, account and line
    Theirs,       \* the line another device adds
    Touched,      \* the accounts other devices add it to, or close
    Known,        \* the accounts the server has at first, each with its row
    Leftover,     \* operations the queue still holds from before the page was loaded
    Initial,      \* what the server component brought: None, or an answer of the server
    MaxLoads,     \* bound on reloads under way at once
    MaxOutages,   \* bound on how often the network fails
    None          \* no row, no answer, no job

Kinds == {"create", "add", "ready"}
\* The lines of an account, those that stand twice in its array, and those that are ready.
Row == [lines : SUBSET Lines, twice : SUBSET Lines, ready : SUBSET Lines]
Answers == [Accounts -> Row \cup {None}]

ASSUME OpsAssumption ==
    /\ Ops \subseteq Nat /\ Leftover \subseteq Ops
    /\ OpOf \in [Ops -> [kind : Kinds, account : Accounts, line : Lines]]
    /\ Theirs \in Lines /\ Touched \subseteq Accounts
ASSUME RowsAssumption == Known \in Answers /\ Initial \in Answers \cup {None}
ASSUME BoundsAssumption == MaxLoads \in Nat \ {0} /\ MaxOutages \in Nat

VARIABLES
    server,      \* server[a]: the account as the server has it
    closed,      \* accounts that are not in `GET /orders?open=true` any more
    online,      \* the API can be reached
    connected,   \* the socket is connected
    outages,
    ui,          \* what became of each operation on the screen
    queue,       \* the pending operations, by seq
    verdict,     \* verdict[o]: what the drain was answered and has not written yet
    failed,      \* operations in the tray
    draft,       \* the row addItemLocally read and has not put back
    late,        \* accounts with a row written here for what the server had done already (history)
    copy,        \* the collection `orders` of the store `cache`
    scheduled,   \* the timer of 150 ms runs
    loads,       \* reloads under way, in the order they were sent
    protect,     \* the pending ids the mounted view last rendered with
    seed         \* the replacement of an effect of the view, if one is under way

salon == <<server, closed>>
net == <<online, connected, outages>>
box == <<queue, verdict, failed>>
local == <<ui, draft, late>>
vars == <<salon, net, box, local, copy, scheduled, loads, protect, seed>>

Kind(o) == OpOf[o].kind
Acc(o) == OpOf[o].account
Line(o) == OpOf[o].line

Queued == {queue[i] : i \in DOMAIN queue}
PendingIds == {Acc(o) : o \in Queued}

Job == [step : {"sent", "answered", "read"}, data : Answers \cup {None},
        protect : SUBSET Accounts, gone : SUBSET Accounts]
Sent == [step |-> "sent", data |-> None, protect |-> {}, gone |-> {}]
Seeding(data, ids) == [step |-> "answered", data |-> data, protect |-> ids, gone |-> {}]

Opened(o) == [lines |-> {Line(o)}, twice |-> {}, ready |-> {}]

Init ==
    /\ server = Known
    /\ closed = {}
    /\ online = TRUE /\ connected = TRUE /\ outages = 0
    /\ ui = [o \in Ops |-> IF o \in Leftover THEN "shown" ELSE "none"]
    /\ queue = SetToSortSeq(Leftover, <)
    /\ verdict = [o \in Ops |-> None]
    /\ failed = {}
    /\ draft = None
    /\ late = {}
    /\ copy = [a \in Accounts |->
                 LET here == {o \in Leftover : Acc(o) = a /\ Kind(o) = "create"}
                 IN IF here = {} THEN Known[a] ELSE Opened(CHOOSE o \in here : TRUE)]
    /\ scheduled = FALSE
    /\ loads = <<>>
    /\ protect = {}
    /\ seed = IF Initial = None THEN None ELSE Seeding(Initial, {})

-----------------------------------------------------------------------------
(* The server, as far as this device can tell.                             *)

Applied(o) ==
    IF Kind(o) = "create" THEN server[Acc(o)] # None
    ELSE server[Acc(o)] # None /\ Kind(o) = "add" /\ Line(o) \in server[Acc(o)].lines

\* A create or an add that comes again is answered before anything else is looked at.
Accepts(o) ==
    Applied(o) \/ IF Kind(o) = "create" THEN TRUE
                  ELSE /\ server[Acc(o)] # None /\ Acc(o) \notin closed
                       /\ Kind(o) = "ready" => Line(o) \in server[Acc(o)].lines

Changed(o) ==
    IF Kind(o) = "create" THEN Opened(o)
    ELSE IF Kind(o) = "add" THEN [server[Acc(o)] EXCEPT !.lines = @ \cup {Line(o)}]
    ELSE [server[Acc(o)] EXCEPT !.ready = @ \cup {Line(o)}]

\* The gateway sends an event of every change to the sockets connected at that moment.
Announce == scheduled' = (scheduled \/ connected)

Apply(o) ==
    IF Applied(o) THEN UNCHANGED <<server, scheduled>>
    ELSE server' = [server EXCEPT ![Acc(o)] = Changed(o)] /\ Announce

Listed == [a \in Accounts |-> IF a \in closed THEN None ELSE server[a]]

AddElsewhere(a) ==
    /\ server[a] # None /\ a \notin closed
    /\ Theirs \notin server[a].lines
    /\ server' = [server EXCEPT ![a].lines = @ \cup {Theirs}]
    /\ Announce
    /\ UNCHANGED <<closed, net, box, local, copy, loads, protect, seed>>

CloseElsewhere(a) ==
    /\ server[a] # None /\ a \notin closed
    /\ closed' = closed \cup {a}
    /\ Announce
    /\ UNCHANGED <<server, net, box, local, copy, loads, protect, seed>>

-----------------------------------------------------------------------------
(* The operator, one thing at a time: mutate, and what the screen writes   *)
(* when the operation was queued.                                          *)

Visible(o) ==
    CASE Kind(o) = "create" -> TRUE
      [] Kind(o) = "add" -> copy[Acc(o)] # None
      [] Kind(o) = "ready" -> copy[Acc(o)] # None /\ Line(o) \in copy[Acc(o)].lines

Mutate(o) ==
    /\ ui[o] = "none" /\ Visible(o)
    /\ \A p \in Ops : p < o => ui[p] \notin {"none", "offline", "queued"}
    /\ \/ online /\ Accepts(o) /\ Apply(o) /\ ui' = [ui EXCEPT ![o] = "sent"]
       \/ online /\ Accepts(o) /\ Apply(o) /\ ui' = [ui EXCEPT ![o] = "offline"]
       \/ online /\ ~Accepts(o) /\ ui' = [ui EXCEPT ![o] = "refused"]
            /\ UNCHANGED <<server, scheduled>>
       \/ ui' = [ui EXCEPT ![o] = "offline"] /\ UNCHANGED <<server, scheduled>>
    /\ UNCHANGED <<closed, net, box, draft, late, copy, loads, protect, seed>>

Enqueue(o) ==
    /\ ui[o] = "offline"
    /\ queue' = Append(queue, o)
    /\ ui' = [ui EXCEPT ![o] = IF Kind(o) = "ready" THEN "shown" ELSE "queued"]
    /\ UNCHANGED <<salon, net, verdict, failed, draft, late, copy, scheduled, loads, protect, seed>>

\* The answer that got lost said that the operation was done.
WrittenLate(o) == IF Applied(o) THEN late \cup {Acc(o)} ELSE late

\* createOrderLocally: a new row.
CreateLocally(o) ==
    /\ ui[o] = "queued" /\ Kind(o) = "create"
    /\ copy' = [copy EXCEPT ![Acc(o)] = Opened(o)]
    /\ late' = WrittenLate(o)
    /\ ui' = [ui EXCEPT ![o] = "shown"]
    /\ UNCHANGED <<salon, net, box, draft, scheduled, loads, protect, seed>>

\* addItemLocally: reads the row, and puts it back with one line more, which does not look
\* whether the row has the line already.
ReadLocally(o) ==
    /\ ui[o] = "queued" /\ Kind(o) = "add" /\ draft = None
    /\ IF copy[Acc(o)] = None THEN ui' = [ui EXCEPT ![o] = "shown"] /\ UNCHANGED draft
       ELSE draft' = copy[Acc(o)] /\ UNCHANGED ui
    /\ UNCHANGED <<salon, net, box, late, copy, scheduled, loads, protect, seed>>

Appended(row, l) ==
    [row EXCEPT !.lines = @ \cup {l}, !.twice = IF l \in row.lines THEN @ \cup {l} ELSE @]

AddLocally(o) ==
    /\ ui[o] = "queued" /\ Kind(o) = "add" /\ draft # None
    /\ copy' = [copy EXCEPT ![Acc(o)] = Appended(draft, Line(o))]
    /\ late' = WrittenLate(o)
    /\ draft' = None
    /\ ui' = [ui EXCEPT ![o] = "shown"]
    /\ UNCHANGED <<salon, net, box, scheduled, loads, protect, seed>>

-----------------------------------------------------------------------------
(* The drain, in one tab (module Outbox has the rest of it).               *)

First(o) == \E i \in DOMAIN queue :
              queue[i] = o /\ \A j \in 1..(i - 1) : Acc(queue[j]) # Acc(o)

Deliver(o) ==
    /\ online /\ o \in Queued /\ First(o) /\ verdict[o] = None
    /\ \/ Accepts(o) /\ Apply(o) /\ verdict' = [verdict EXCEPT ![o] = "sent"]
       \/ Accepts(o) /\ Apply(o) /\ UNCHANGED verdict
       \/ ~Accepts(o) /\ verdict' = [verdict EXCEPT ![o] = "failed"]
            /\ UNCHANGED <<server, scheduled>>
    /\ UNCHANGED <<closed, net, queue, failed, local, copy, loads, protect, seed>>

Settle(o) ==
    LET Other(p) == p # o IN
    /\ verdict[o] # None
    /\ queue' = SelectSeq(queue, Other)
    /\ failed' = IF verdict[o] = "failed" THEN failed \cup {o} ELSE failed
    /\ verdict' = [verdict EXCEPT ![o] = None]
    /\ UNCHANGED <<salon, net, local, copy, scheduled, loads, protect, seed>>

-----------------------------------------------------------------------------
(* Replacing the copy.                                                     *)

\* The 150 ms are longer than a write of IndexedDB.
Timer ==
    /\ scheduled /\ draft = None
    /\ Len(loads) < MaxLoads
    /\ scheduled' = FALSE
    /\ loads' = Append(loads, Sent)
    /\ UNCHANGED <<salon, net, box, local, copy, protect, seed>>

Answer(i) ==
    /\ online /\ loads[i].step = "sent"
    /\ loads' = [loads EXCEPT ![i].step = "answered", ![i].data = Listed]
    /\ UNCHANGED <<salon, net, box, local, copy, scheduled, protect, seed>>

\* The request fails, or its answer does not arrive: nothing is written.
Lose(i) ==
    /\ ~online /\ loads[i].step \in {"sent", "answered"}
    /\ loads' = RemoveAt(loads, i)
    /\ UNCHANGED <<salon, net, box, local, copy, scheduled, protect, seed>>

\* Answers arrive in the order of their requests, so it is the turn of the oldest reload;
\* the seeding keeps no order with the reloads.
Turn(w) == IF w = "seed" THEN seed ELSE IF loads = <<>> THEN None ELSE Head(loads)
Becomes(w, job) ==
    IF w = "seed" THEN seed' = job /\ UNCHANGED loads
    ELSE /\ loads' = IF job = None THEN Tail(loads) ELSE [loads EXCEPT ![1] = job]
         /\ UNCHANGED seed

\* A reload asks the queue for the ids to protect, when the answer has come; a seeding
\* has those the view was rendered with.
ProtectedByNobody(w) == {}
Protected(w) == IF w = "seed" THEN seed.protect ELSE PendingIds

\* replaceCollection reads what is there ...
ReadCopy(w) ==
    LET job == Turn(w) IN
    /\ job # None
    /\ job.step = "answered"
    /\ Becomes(w, [job EXCEPT !.step = "read",
                     !.gone = {a \in Accounts : /\ copy[a] # None /\ job.data[a] = None
                                                /\ a \notin Protected(w)}])
    /\ UNCHANGED <<salon, net, box, local, copy, scheduled, protect>>

\* ... deletes what did not come and puts what came.
Put(w) ==
    LET job == Turn(w) IN
    /\ job # None
    /\ job.step = "read"
    /\ copy' = [a \in Accounts |-> IF a \in job.gone THEN None
                                   ELSE IF job.data[a] = None THEN copy[a] ELSE job.data[a]]
    /\ late' = {a \in late : job.data[a] = None}
    /\ Becomes(w, None)
    /\ UNCHANGED <<salon, net, box, ui, draft, scheduled, protect>>

\* The live query of the queue renders the view again; its effect seeds once more when
\* the ids changed.
Render ==
    /\ protect # PendingIds /\ seed = None
    /\ protect' = PendingIds
    /\ seed' = IF Initial = None THEN None ELSE Seeding(Initial, PendingIds)
    /\ UNCHANGED <<salon, net, box, local, copy, scheduled, loads>>

-----------------------------------------------------------------------------
(* The network.  What happens while the socket is down is never told       *)
(* later; when it comes back, the list is read again.                      *)

Outage ==
    /\ online /\ outages < MaxOutages
    /\ online' = FALSE /\ connected' = FALSE
    /\ outages' = outages + 1
    /\ UNCHANGED <<salon, box, local, copy, scheduled, loads, protect, seed>>

NetworkBack ==
    /\ ~online
    /\ online' = TRUE
    /\ UNCHANGED <<salon, connected, outages, box, local, copy, scheduled, loads, protect, seed>>

ReconnectSilently ==
    /\ online /\ ~connected /\ draft = None
    /\ Len(loads) < MaxLoads
    /\ connected' = TRUE
    /\ UNCHANGED <<salon, online, outages, box, local, copy, scheduled, loads, protect, seed>>
Reconnect ==
    /\ online /\ ~connected /\ draft = None
    /\ Len(loads) < MaxLoads
    /\ connected' = TRUE
    /\ loads' = Append(loads, Sent)
    /\ UNCHANGED <<salon, online, outages, box, local, copy, scheduled, protect, seed>>

Operator == \E o \in Ops : Mutate(o) \/ Enqueue(o) \/ CreateLocally(o) \/ ReadLocally(o) \/ AddLocally(o)
Drain == \E o \in Ops : Deliver(o) \/ Settle(o)
Replace == \E w \in {"seed", "reload"} : ReadCopy(w) \/ Put(w)
Reload == Timer \/ Render \/ \E i \in DOMAIN loads : Answer(i) \/ Lose(i)
Elsewhere == \E a \in Touched : AddElsewhere(a) \/ CloseElsewhere(a)
Network == Outage \/ NetworkBack \/ Reconnect

Next == Operator \/ Drain \/ Replace \/ Reload \/ Elsewhere \/ Network

Spec == Init /\ [][Next]_vars

\* Writes of IndexedDB complete, timers run, the drain repeats until an answer comes,
\* requests are answered while the network is there and the socket reconnects.
Fairness ==
    /\ \A o \in Ops : /\ WF_vars(Enqueue(o)) /\ WF_vars(CreateLocally(o))
                      /\ WF_vars(ReadLocally(o)) /\ WF_vars(AddLocally(o))
                      /\ SF_vars(Deliver(o) /\ verdict'[o] # None) /\ WF_vars(Settle(o))
    /\ WF_vars(Replace) /\ WF_vars(Timer) /\ WF_vars(Render)
    /\ WF_vars(\E i \in DOMAIN loads : Answer(i) \/ Lose(i))
    /\ WF_vars(Reconnect)

FairSpec == Spec /\ Fairness

-----------------------------------------------------------------------------
\* An account that was opened here and that the server does not know yet stays on the
\* screen, with every line written for it, whatever the reloads of the list bring.
OpenedHereStays ==
    \A c \in Queued :
      Kind(c) = "create" /\ ui[c] = "shown" /\ server[Acc(c)] = None =>
        /\ copy[Acc(c)] # None
        /\ {Line(o) : o \in {p \in Queued : Acc(p) = Acc(c) /\ ui[p] = "shown"}}
             \subseteq copy[Acc(c)].lines

\* What the screen shows of an account: the copy with the queued statuses on it.
Shown(a) ==
    IF copy[a] = None THEN None
    ELSE [copy[a] EXCEPT !.ready = @ \cup {Line(o) : o \in {p \in Queued :
                                       Acc(p) = a /\ Kind(p) = "ready" /\ Line(p) \in copy[a].lines}}]

\* When the network stays and nothing was refused, every open account ends up on the
\* screen as the server has it, whatever was missed, queued, lost or answered late; but for
\* those whose last row was written here for an operation the server had done already: no
\* event comes to correct that row.
CatchesUp ==
    (<>[]online /\ [](failed = {})) =>
        <>[](\A a \in Accounts : Listed[a] # None => a \in late \/ Shown(a) = Listed[a])
=============================================================================
