--------------------------- MODULE SessionsProofs ---------------------------
(***************************************************************************)
(* Proofs about Sessions: the types; that whoever is let pass is served    *)
(* with the role and the permissions of the moment (ServedIsCurrent); and  *)
(* that the renewal keeps people in (StaysIn).                             *)
(*                                                                         *)
(* The first argument: a request that has not noted an edit runs beside    *)
(* none, and what it read is as it was (ReadInv); every entry of the cache *)
(* made so bears the version of the moment or is about to be dropped; and  *)
(* while the edits come one at a time every token that tells another role  *)
(* or other permissions is refused by its version, or will be when the     *)
(* edit that made it wrong raises it (TokenInv).  The second: one device   *)
(* holds a renewable token, so two renewals with it overlap and note it    *)
(* (HandInv); a token that renews is the last of its session, a new one    *)
(* takes the place of the one it was given for, and so what is pruned is   *)
(* older than as many sessions as may live (PruneInv).                     *)
(***************************************************************************)
EXTENDS Sessions, SequenceTheorems, FiniteSetTheorems, TLAPS

ReaderSteps == {"version", "reading", "keep", "refused", "find", "mark", "permissions",
                "insert", "look", "prune", "answer", "revoke", "clear"}
EditSteps == {"grant", "members", "reload", "write", "bump", "drop"}
Places == ReaderSteps \cup EditSteps \cup Over \cup {"idle"}

User == [role : Roles, version : Nat]
Mem == [token : Token \cup {None}, refresh : Nat, retried : BOOLEAN,
        stage : {"guard", "issue"}, role : Roles \cup {None}, level : Levels, tv : Nat,
        cached : Nat \cup {None}, stored : Nat, doomed : SUBSET Nat,
        copy : User \cup {None}, base : User \cup {None}]
Marks == {"met", "edited", "overlap"}

StepOfKind(r) ==
    /\ pc[r] \in {"grant", "members"} => op[r].kind = "grant"
    /\ pc[r] \in {"reload", "write"} => op[r].kind = "update"
    /\ pc[r] \in {"bump", "drop"} => IsEdit(r)
    /\ pc[r] \in ReaderSteps => ~IsEdit(r)

\* A request that is being given a token, with what it read for it.
Signing(r) ==
    \/ pc[r] = "mark"
    \/ mem[r].stage = "issue" /\ pc[r] \in {"permissions", "version", "reading", "keep", "insert"}

\* A request that holds a token: its new one, or the one it came with.
Bearing(r) ==
    \/ pc[r] \in {"look", "prune", "answer"}
    \/ mem[r].stage = "guard" /\ pc[r] \in {"version", "reading", "keep"}

MemOfStep(r) ==
    /\ pc[r] \in {"reload", "write"} => mem[r].copy \in User
    /\ pc[r] = "write" => mem[r].base \in User
    /\ Signing(r) => mem[r].role \in Roles
    /\ Bearing(r) => mem[r].token \in Token
    /\ pc[r] \in {"permissions", "insert", "look", "prune", "answer"} => mem[r].stage = "issue"
    /\ pc[r] \in {"idle", "revoke", "clear", "refused", "find", "mark"} => mem[r].stage = "guard"

StoreTypes ==
    /\ role \in Roles /\ version \in Nat /\ granted \in [Roles -> Levels]
    /\ rows \in Seq(Renewal)
    /\ cache # None => cache \in Entry
    /\ jar \in [Devices -> Cookies]
    /\ op \in Plans /\ torn \in BOOLEAN

ProcTypes ==
    /\ pc \in [Requests -> Places]
    /\ mem \in [Requests -> Mem]
    /\ marks \in [Requests -> SUBSET Marks]
    /\ \A r \in Requests : StepOfKind(r) /\ MemOfStep(r)

Types == StoreTypes /\ ProcTypes

Step(r) == Client(r) \/ Guard(r) \/ Issue(r) \/ Logout(r) \/ EditOf(r)

LEMMA OpType ==
    ASSUME StoreTypes, NEW r \in Requests
    PROVE  /\ op[r] \in Op /\ Dev(r) \in Devices
           /\ op[r].kind = "grant" => op[r].role \in Roles
  BY PlansAssumption DEF StoreTypes, Op, Dev

LEMMA BlankType == Blank \in Mem
  BY LevelsAssumption DEF Blank, Mem, NoCookie

LEMMA Frame ==
    ASSUME Types, NEW r \in Requests, Step(r)
    PROVE  /\ op' = op
           /\ \A s \in Requests \ {r} : /\ pc'[s] = pc[s] /\ mem'[s] = mem[s]
                                        /\ marks[s] \subseteq marks'[s]
<1> USE DEF Types, ProcTypes, Goto, Hold, Mark, End, Since, Learns, Still, Begins
<1>1. CASE Client(r)
  BY <1>1 DEF Client, Send, OpenPage, Refused, RefusedAgain, Answer, LoseAnswer
<1>2. CASE Guard(r)
  BY <1>2 DEF Guard, AskVersion, ReadVersion, KeepVersion, FailToRead
<1>3. CASE Issue(r)
  BY <1>3 DEF Issue, Login, FindToken, MarkUsed, ReadPermissions, FailToIssue, InsertToken,
     LookForStale, Prune, FailToPrune
<1>4. CASE Logout(r)
  BY <1>4 DEF Logout, Revoke, ClearCookies
<1>5. CASE EditOf(r)
  BY <1>5 DEF EditOf, Strip, Grant, FindMembers, OpenUser, ReloadUser, SaveUser, Bump, DropEntry
<1> QED
  BY <1>1, <1>2, <1>3, <1>4, <1>5 DEF Step

\* What signs a token.
LEMMA SignedType ==
    ASSUME ProcTypes, NEW r \in Requests, Signing(r)
    PROVE  Signed(r) \in Token
  BY DEF ProcTypes, MemOfStep, Mem, Signed, Token, Marks

\* An update of the rows, one by one, and a new row.
LEMMA RowsType ==
    ASSUME NEW s \in Seq(Renewal)
    PROVE  /\ Len(s) \in Nat /\ DOMAIN s = 1..Len(s)
           /\ \A t : t \in [DOMAIN s -> Renewal] => t \in Seq(Renewal) /\ Len(t) = Len(s)
           /\ \A x \in Renewal : Append(s, x) \in Seq(Renewal)
<1>1. Len(s) \in Nat /\ DOMAIN s = 1..Len(s)
  OBVIOUS
<1>2. ASSUME NEW t \in [1..Len(s) -> Renewal] PROVE t \in Seq(Renewal)
  BY <1>1, SeqDef
<1>3. ASSUME NEW t \in [1..Len(s) -> Renewal] PROVE Len(t) = Len(s)
  BY <1>1, <1>2
<1> QED
  BY <1>1, <1>2, <1>3

\* A step that changes what rows are, and nothing else of them.
LEMMA RowsMarked ==
    ASSUME rows \in Seq(Renewal),
           rows' = [i \in DOMAIN rows |-> rows'[i]],
           \A i \in DOMAIN rows : rows'[i] = rows[i]
              \/ \E v \in {"live", "used", "out", "pruned"} : rows'[i] = [rows[i] EXCEPT !.is = v]
    PROVE  rows' \in Seq(Renewal)
<1>1. \A i \in DOMAIN rows : rows[i] \in Renewal
  BY ElementOfSeq
<1>2. \A x \in Renewal, v \in {"live", "used", "out", "pruned"} : [x EXCEPT !.is = v] \in Renewal
  BY DEF Renewal
<1>3. ASSUME NEW i \in DOMAIN rows PROVE rows'[i] \in Renewal
  <2>1. CASE rows'[i] = rows[i]
    BY <1>1, <2>1
  <2>2. CASE rows'[i] # rows[i]
    <3>1. PICK v \in {"live", "used", "out", "pruned"} : rows'[i] = [rows[i] EXCEPT !.is = v]
      BY <2>2
    <3>2. rows[i] \in Renewal
      BY <1>1
    <3> QED
      BY <3>1, <3>2 DEF Renewal
  <2> QED
    BY <2>1, <2>2
<1>4. rows' \in [DOMAIN rows -> Renewal]
  BY <1>3
<1> QED
  BY <1>4, RowsType

LEMMA NearType == \A S : S \subseteq Requests => Cardinality(S) \in Nat
  BY FiniteAssumption, FS_Subset, FS_CardinalityType

LEMMA StoreTypesStep ==
    ASSUME Types, NEW r \in Requests, Step(r)
    PROVE  StoreTypes'
<1> USE DEF Types, StoreTypes, store, user, Still
<1>0. op[r] \in Op /\ Dev(r) \in Devices /\ (op[r].kind = "grant" => op[r].role \in Roles)
  BY OpType
<1>1. CASE Client(r)
  <2>1. CASE Answer(r)
    <3>1. mem[r].token \in Token /\ mem[r].stored \in Nat
      BY <2>1 DEF Answer, ProcTypes, MemOfStep, Bearing, Mem
    <3> QED
      BY <1>0, <2>1, <3>1 DEF Answer, Cookies
  <2>2. CASE OpenPage(r)
    BY <1>0, <2>2 DEF OpenPage, Cookies
  <2>3. CASE ~Answer(r) /\ ~OpenPage(r)
    BY <1>1, <2>3 DEF Client, Send, Refused, RefusedAgain, LoseAnswer
  <2> QED
    BY <2>1, <2>2, <2>3
<1>2. CASE Guard(r)
  <2>1. CASE KeepVersion(r)
    BY <2>1 DEF KeepVersion, Entry, ProcTypes, Mem
  <2>2. CASE ~KeepVersion(r)
    BY <1>2, <2>2 DEF Guard, AskVersion, ReadVersion, FailToRead
  <2> QED
    BY <2>1, <2>2
<1>3. CASE Issue(r)
  <2>1. CASE MarkUsed(r)
    <3>1. rows' \in Seq(Renewal)
      <4> DEFINE j == mem[r].refresh
      <4>1. \A i \in DOMAIN rows : rows[i] \in Renewal
        BY ElementOfSeq
      <4>2. rows' = [rows EXCEPT ![j].is = IF rows[j].is = "live" THEN "used" ELSE rows[j].is]
        BY <2>1 DEF MarkUsed
      <4>3. \A i \in DOMAIN rows : rows'[i] = rows[i]
              \/ \E v \in {"live", "used", "out", "pruned"} : rows'[i] = [rows[i] EXCEPT !.is = v]
        BY <4>1, <4>2 DEF Renewal
      <4> QED
        BY <4>2, <4>3, RowsMarked
    <3> QED
      BY <2>1, <3>1 DEF MarkUsed
  <2>2. CASE InsertToken(r)
    <3> DEFINE n == Cardinality({q \in Requests \ {r} : pc[q] = "look"})
    <3>1. n \in Nat /\ mem[r].refresh \in Nat
      BY NearType DEF ProcTypes, Mem
    <3>2. [is |-> "live", of |-> mem[r].refresh, near |-> n] \in Renewal
      BY <3>1 DEF Renewal
    <3>3. rows' = Append(rows, [is |-> "live", of |-> mem[r].refresh, near |-> n])
      BY <2>2 DEF InsertToken
    <3> HIDE DEF n
    <3>4. rows' \in Seq(Renewal)
      BY <3>2, <3>3, RowsType
    <3> QED
      BY <2>2, <3>4 DEF InsertToken
  <2>3. CASE Prune(r)
    <3>1. rows' \in Seq(Renewal)
      BY <2>3, RowsMarked DEF Prune
    <3> QED
      BY <2>3, <3>1 DEF Prune
  <2>4. CASE FailToIssue(r)
    <3>1. pc[r] = "insert" => Signed(r) \in Token
      BY SignedType DEF ProcTypes, MemOfStep, Signing
    <3> QED
      BY <1>0, <2>4, <3>1 DEF FailToIssue, Trouble, Cookies
  <2>5. CASE Login(r) \/ FindToken(r) \/ ReadPermissions(r) \/ LookForStale(r) \/ FailToPrune(r)
    BY <2>5 DEF Login, FindToken, ReadPermissions, LookForStale, FailToPrune
  <2> QED
    BY <1>3, <2>1, <2>2, <2>3, <2>4, <2>5 DEF Issue
<1>4. CASE Logout(r)
  <2>1. CASE Revoke(r)
    <3>1. rows' \in Seq(Renewal)
      BY <2>1, RowsMarked DEF Revoke
    <3> QED
      BY <2>1, <3>1 DEF Revoke
  <2>2. CASE ClearCookies(r)
    BY <1>0, <2>2 DEF ClearCookies, Cookies, NoCookie
  <2> QED
    BY <1>4, <2>1, <2>2 DEF Logout
<1>5. CASE EditOf(r)
  <2>1. CASE Strip(r) \/ Grant(r)
    BY <1>0, <2>1, LevelsAssumption DEF Strip, Grant, Begins, ProcTypes, StepOfKind, Op
  <2>2. CASE SaveUser(r)
    BY <1>0, <2>2 DEF SaveUser, Column, ProcTypes, MemOfStep, User, Op
  <2>3. CASE Bump(r) \/ DropEntry(r)
    BY <2>3 DEF Bump, DropEntry, WithoutEntry
  <2>4. CASE FindMembers(r) \/ OpenUser(r) \/ ReloadUser(r)
    BY <2>4 DEF FindMembers, OpenUser, ReloadUser, Begins
  <2> QED
    BY <1>5, <2>1, <2>2, <2>3, <2>4 DEF EditOf
<1> QED
  BY <1>1, <1>2, <1>3, <1>4, <1>5 DEF Step

\* It is enough that the request that moves is where it may be.
LEMMA ProcMoves ==
    ASSUME ProcTypes, NEW r \in Requests, op' = op,
           pc' \in [Requests -> Places], mem' \in [Requests -> Mem],
           marks' \in [Requests -> SUBSET Marks],
           \A s \in Requests \ {r} : pc'[s] = pc[s] /\ mem'[s] = mem[s],
           StepOfKind(r)', MemOfStep(r)'
    PROVE  ProcTypes'
  BY DEF ProcTypes, StepOfKind, MemOfStep, IsEdit, Signing, Bearing

LEMMA ProcTypesStep ==
    ASSUME Types, NEW r \in Requests, Step(r)
    PROVE  ProcTypes'
<1> USE DEF Types
<1>0. op' = op /\ op[r] \in Op /\ Dev(r) \in Devices
      /\ \A s \in Requests \ {r} : pc'[s] = pc[s] /\ mem'[s] = mem[s]
  BY OpType, Frame
<1>1. pc' \in [Requests -> Places]
  BY DEF ProcTypes, Step, Client, Guard, Issue, Logout, EditOf, Send, OpenPage, Refused, RefusedAgain, Answer, LoseAnswer,
     AskVersion, ReadVersion, KeepVersion, FailToRead, Login, FindToken, MarkUsed, ReadPermissions,
     FailToIssue, InsertToken, LookForStale, Prune, FailToPrune, Revoke, ClearCookies, Strip, Grant,
     FindMembers, OpenUser, ReloadUser, SaveUser, Bump, DropEntry, Goto, End, Learns, Places,
     ReaderSteps, EditSteps, Over
<1>2. marks' \in [Requests -> SUBSET Marks]
  BY DEF ProcTypes, Step, Client, Guard, Issue, Logout, EditOf, Send, OpenPage, Refused, RefusedAgain, Answer, LoseAnswer,
     AskVersion, ReadVersion, KeepVersion, FailToRead, Login, FindToken, MarkUsed, ReadPermissions,
     FailToIssue, InsertToken, LookForStale, Prune, FailToPrune, Revoke, ClearCookies, Strip, Grant,
     FindMembers, OpenUser, ReloadUser, SaveUser, Bump, DropEntry, End, Mark, Since, Learns, Begins,
     Tainted, Marks
<1>3. StepOfKind(r)'
  BY <1>0 DEF ProcTypes, Step, Client, Guard, Issue, Logout, EditOf, Send, OpenPage, Refused, RefusedAgain, Answer, LoseAnswer,
     AskVersion, ReadVersion, KeepVersion, FailToRead, Login, FindToken, MarkUsed, ReadPermissions,
     FailToIssue, InsertToken, LookForStale, Prune, FailToPrune, Revoke, ClearCookies, Strip, Grant,
     FindMembers, OpenUser, ReloadUser, SaveUser, Bump, DropEntry, Goto, End, Learns, StepOfKind, IsEdit,
     Over, Op, ReaderSteps
<1> SUFFICES mem' \in [Requests -> Mem] /\ MemOfStep(r)'
  BY <1>0, <1>1, <1>2, <1>3, ProcMoves
<1> USE DEF Hold, Goto
<1>m. mem[r] \in Mem /\ mem \in [Requests -> Mem] /\ MemOfStep(r) /\ pc[r] \in Places
  BY DEF ProcTypes
<1>4. ASSUME NEW x \in Over, End(r, x)
      PROVE  mem' \in [Requests -> Mem] /\ MemOfStep(r)'
  <2>1. mem' \in [Requests -> Mem] /\ pc'[r] = x
    BY <1>4, <1>m, BlankType DEF End, ProcTypes
  <2>2. MemOfStep(r)'
    BY <2>1 DEF MemOfStep, Signing, Bearing, Over
  <2> QED
    BY <2>1, <2>2
\* What the request then holds, where it goes with it.
<1> DEFINE Fits(m, step) ==
      /\ step \in {"reload", "write"} => m.copy \in User
      /\ step = "write" => m.base \in User
      /\ step = "mark" \/ (m.stage = "issue" /\ step \in {"permissions", "version", "reading", "keep", "insert"})
           => m.role \in Roles
      /\ step \in {"look", "prune", "answer"} \/ (m.stage = "guard" /\ step \in {"version", "reading", "keep"})
           => m.token \in Token
      /\ step \in {"permissions", "insert", "look", "prune", "answer"} => m.stage = "issue"
      /\ step \in {"idle", "revoke", "clear", "refused", "find", "mark"} => m.stage = "guard"
<1>h. ASSUME NEW m \in Mem, NEW step, Hold(r, m), Goto(r, step), Fits(m, step)
      PROVE  mem' \in [Requests -> Mem] /\ MemOfStep(r)'
  <2>1. mem'[r] = m /\ pc'[r] = step /\ mem' \in [Requests -> Mem]
    BY <1>h, <1>m DEF ProcTypes
  <2> QED
    BY <1>h, <2>1 DEF MemOfStep, Signing, Bearing
<1>s. ASSUME mem' = mem, NEW step, Goto(r, step), Fits(mem[r], step)
      PROVE  mem' \in [Requests -> Mem] /\ MemOfStep(r)'
  <2>1. mem'[r] = mem[r] /\ pc'[r] = step
    BY <1>s, <1>m DEF ProcTypes
  <2> QED
    BY <1>s, <1>m, <2>1 DEF MemOfStep, Signing, Bearing
<1>5. ASSUME NEW v \in Nat \cup {None}, NEW ms, Learns(r, v, ms),
             pc[r] \in {"version", "reading", "keep"}
      PROVE  mem' \in [Requests -> Mem] /\ MemOfStep(r)'
  <2>1. CASE mem[r].stage = "issue"
    <3> DEFINE m == [mem[r] EXCEPT !.tv = IF v = None THEN 0 ELSE v, !.cached = None]
    <3>1. m \in Mem /\ m.stage = "issue" /\ m.role = mem[r].role
      BY <1>5, <1>m, <2>1 DEF Mem
    <3>2. mem' = [mem EXCEPT ![r] = m] /\ pc' = [pc EXCEPT ![r] = "insert"]
      BY <1>5, <2>1 DEF Learns
    <3>3. mem'[r] = m /\ pc'[r] = "insert"
      BY <1>m, <3>2 DEF ProcTypes
    <3> HIDE DEF m
    <3> QED
      BY <1>5, <1>m, <2>1, <3>1, <3>2, <3>3 DEF MemOfStep, Signing, Bearing
  <2>2. CASE mem[r].stage # "issue" /\ End(r, "ok")
    BY <1>4, <2>2 DEF Over
  <2>3. CASE mem[r].stage # "issue" /\ ~End(r, "ok")
    <3>1. mem' = mem /\ pc'[r] \in {"refused", "revoke"}
      BY <1>5, <1>m, <2>3 DEF Learns, ProcTypes
    <3>2. mem[r].stage = "guard"
      BY <1>m, <2>3 DEF Mem
    <3> QED
      BY <1>m, <3>1, <3>2 DEF MemOfStep, Signing, Bearing
  <2> QED
    BY <2>1, <2>2, <2>3
<1>6. CASE AskVersion(r) \/ ReadVersion(r)
  <2>1. /\ pc[r] \in {"version", "reading"}
        /\ mem[r].stage = "issue" => mem[r].role \in Roles
        /\ mem[r].stage = "guard" => mem[r].token \in Token
    BY <1>6, <1>m DEF AskVersion, ReadVersion, MemOfStep, Signing, Bearing
  <2>2. CASE ReadVersion(r)
    <3> DEFINE m == [mem[r] EXCEPT !.tv = version]
    <3>1. m \in Mem /\ Fits(m, "keep")
      BY <1>m, <2>1 DEF Mem, StoreTypes
    <3> QED
      BY <1>h, <2>2, <3>1 DEF ReadVersion
  <2>3. CASE AskVersion(r) /\ ~(cache # None /\ cache.fresh)
    <3> DEFINE m == [mem[r] EXCEPT !.cached = IF cache = None THEN None ELSE cache.version]
    <3>1. m \in Mem /\ Fits(m, "reading")
      BY <1>m, <2>1 DEF Mem, StoreTypes, Entry
    <3> QED
      BY <1>h, <2>3, <3>1 DEF AskVersion
  <2>4. CASE AskVersion(r) /\ cache # None /\ cache.fresh
    <3>1. Learns(r, cache.version, Tainted(cache.met)) /\ cache.version \in Nat
      BY <2>4 DEF AskVersion, StoreTypes, Entry
    <3> QED
      BY <1>5, <2>1, <3>1
  <2> QED
    BY <1>6, <2>2, <2>3, <2>4
<1>7. CASE KeepVersion(r) \/ FailToRead(r)
  <2>1. CASE KeepVersion(r)
    <3>1. Learns(r, mem[r].tv, {}) /\ mem[r].tv \in Nat /\ pc[r] = "keep"
      BY <1>m, <2>1 DEF KeepVersion, Mem
    <3> QED
      BY <1>5, <3>1
  <2>2. CASE FailToRead(r)
    <3>1. Learns(r, mem[r].cached, {"met"}) /\ mem[r].cached \in Nat \cup {None} /\ pc[r] = "reading"
      BY <1>m, <2>2 DEF FailToRead, Mem
    <3> QED
      BY <1>5, <3>1
  <2> QED
    BY <1>7, <2>1, <2>2
<1>8. CASE Client(r)
  <2>1. CASE Send(r)
    <3>1. jar[Dev(r)] \in Cookies
      BY <1>0 DEF StoreTypes
    <3>2. CASE Goto(r, "refused") /\ mem' = mem
      <4>1. mem[r].stage = "guard"
        BY <1>m, <2>1 DEF Send, MemOfStep
      <4> QED
        BY <1>s, <3>2, <4>1
    <3>3. CASE jar[Dev(r)].access # None /\ Hold(r, [Blank EXCEPT !.token = jar[Dev(r)].access]) /\ Goto(r, "version")
      <4> DEFINE m == [Blank EXCEPT !.token = jar[Dev(r)].access]
      <4>1. m \in Mem /\ Fits(m, "version")
        BY <3>1, <3>3, BlankType DEF Mem, Blank, Cookies
      <4> QED
        BY <1>h, <3>3, <4>1
    <3> QED
      BY <2>1, <3>2, <3>3 DEF Send
  <2>2. CASE Refused(r) /\ ~End(r, "bounced")
    <3> DEFINE m == [mem[r] EXCEPT !.refresh = jar[Dev(r)].refresh]
    <3>1. jar[Dev(r)].refresh \in Nat /\ mem[r].stage = "guard"
      BY <1>0, <1>m, <2>2 DEF StoreTypes, Cookies, Refused, MemOfStep
    <3>2. m \in Mem /\ Fits(m, "find")
      BY <1>m, <3>1 DEF Mem
    <3> QED
      BY <1>h, <2>2, <3>2 DEF Refused
  <2>3. CASE Answer(r) /\ ~End(r, "ok")
    <3> DEFINE m == [Blank EXCEPT !.token = mem[r].token, !.retried = TRUE]
    <3>1. mem[r].token \in Token
      BY <1>m, <2>3 DEF Answer, MemOfStep, Bearing
    <3>2. m \in Mem /\ Fits(m, "version")
      BY <3>1, BlankType DEF Mem, Blank
    <3> QED
      BY <1>h, <2>3, <3>2 DEF Answer
  <2>4. CASE OpenPage(r)
    BY <1>4, <2>4 DEF OpenPage, Over
  <2> QED
    BY <1>4, <1>8, <2>1, <2>2, <2>3, <2>4 DEF Client, Refused, RefusedAgain, Answer, LoseAnswer, Over
<1>9. CASE Issue(r)
  <2>1. CASE Login(r)
    <3> DEFINE m == [Blank EXCEPT !.stage = "issue", !.role = role]
    <3>1. m \in Mem /\ Fits(m, "permissions")
      BY BlankType DEF Mem, Blank, StoreTypes
    <3> QED
      BY <1>h, <2>1, <3>1 DEF Login
  <2>2. CASE FindToken(r) /\ ~End(r, "bounced")
    <3> DEFINE m == [mem[r] EXCEPT !.role = role]
    <3>1. m \in Mem /\ Fits(m, "mark")
      BY <1>m, <2>2 DEF Mem, StoreTypes, FindToken, MemOfStep
    <3> QED
      BY <1>h, <2>2, <3>1 DEF FindToken
  <2>3. CASE MarkUsed(r)
    <3> DEFINE m == [mem[r] EXCEPT !.stage = "issue"]
    <3>1. mem[r].role \in Roles
      BY <1>m, <2>3 DEF MarkUsed, MemOfStep, Signing
    <3>2. m \in Mem /\ Fits(m, "permissions")
      BY <1>m, <3>1 DEF Mem
    <3> QED
      BY <1>h, <2>3, <3>2 DEF MarkUsed
  <2>4. CASE ReadPermissions(r)
    <3> DEFINE m == [mem[r] EXCEPT !.level = granted[mem[r].role]]
    <3>1. mem[r].role \in Roles /\ mem[r].stage = "issue"
      BY <1>m, <2>4 DEF ReadPermissions, MemOfStep, Signing
    <3>2. m \in Mem /\ Fits(m, "version")
      BY <1>m, <3>1 DEF Mem, StoreTypes
    <3> QED
      BY <1>h, <2>4, <3>2 DEF ReadPermissions
  <2>5. CASE InsertToken(r)
    <3> DEFINE m == [Blank EXCEPT !.stage = "issue", !.refresh = mem[r].refresh,
                                  !.token = Signed(r), !.stored = Len(rows) + 1]
    <3>1. Signed(r) \in Token /\ Len(rows) \in Nat /\ mem[r].refresh \in Nat
      BY <1>m, <2>5, SignedType DEF InsertToken, MemOfStep, Signing, StoreTypes, Mem
    <3>2. /\ m.token = Signed(r) /\ m.stage = "issue" /\ m.stored = Len(rows) + 1
          /\ m.refresh = mem[r].refresh
      BY DEF Blank
    <3>3. m \in Mem
      <4>1. Len(rows) + 1 \in Nat
        BY <3>1
      <4> QED
        BY <3>1, <4>1, LevelsAssumption DEF Blank, Mem, NoCookie
    <3>4. Fits(m, "look")
      BY <3>1, <3>2
    <3> QED
      BY <1>h, <2>5, <3>3, <3>4 DEF InsertToken
  <2>6. CASE LookForStale(r)
    <3> DEFINE m == [mem[r] EXCEPT !.doomed = Stale(r)]
    <3>1. Stale(r) \subseteq Nat
      BY RowsType DEF Stale, Live, StoreTypes
    <3>2. mem[r].token \in Token /\ mem[r].stage = "issue"
      BY <1>m, <2>6 DEF LookForStale, MemOfStep, Bearing
    <3>3. m \in Mem /\ \A step \in {"answer", "prune"} : Fits(m, step)
      BY <1>m, <3>1, <3>2 DEF Mem
    <3>4. Hold(r, m) /\ (Goto(r, "answer") \/ Goto(r, "prune"))
      BY <2>6 DEF LookForStale
    <3> QED
      BY <1>h, <3>3, <3>4
  <2>7. CASE Prune(r) \/ FailToPrune(r)
    <3>1. Fits(mem[r], "answer")
      BY <1>m, <2>7 DEF Prune, FailToPrune, MemOfStep, Bearing
    <3> QED
      BY <1>s, <2>7, <3>1 DEF Prune, FailToPrune
  <2> QED
    BY <1>4, <1>9, <2>1, <2>2, <2>3, <2>4, <2>5, <2>6, <2>7 DEF Issue, FindToken, FailToIssue, Over
<1>10. CASE Logout(r)
  <2>1. CASE Revoke(r)
    <3>1. Fits(mem[r], "clear")
      BY <1>m, <2>1 DEF Revoke, MemOfStep
    <3> QED
      BY <1>s, <2>1, <3>1 DEF Revoke
  <2> QED
    BY <1>4, <1>10, <2>1 DEF Logout, ClearCookies, Over
<1>11. CASE EditOf(r)
  <2>1. CASE OpenUser(r)
    <3> DEFINE m == [Blank EXCEPT !.copy = [role |-> role, version |-> version]]
    <3>1. m \in Mem /\ Fits(m, "reload")
      BY BlankType DEF Mem, Blank, User, StoreTypes
    <3> QED
      BY <1>h, <2>1, <3>1 DEF OpenUser
  <2>2. CASE ReloadUser(r)
    <3> DEFINE m == [mem[r] EXCEPT !.base = [role |-> role, version |-> version]]
    <3>1. m \in Mem /\ Fits(m, "write")
      BY <1>m, <2>2 DEF Mem, User, StoreTypes, ReloadUser, MemOfStep
    <3> QED
      BY <1>h, <2>2, <3>1 DEF ReloadUser
  <2>3. ASSUME mem' = mem, NEW step \in {"grant", "members", "bump", "drop"}, Goto(r, step)
        PROVE  mem' \in [Requests -> Mem] /\ MemOfStep(r)'
    BY <1>s, <2>3
  <2> QED
    BY <1>4, <1>11, <2>1, <2>2, <2>3 DEF EditOf, Strip, Grant, FindMembers, SaveUser, Bump, DropEntry, Over
<1> QED
  BY <1>6, <1>7, <1>8, <1>9, <1>10, <1>11 DEF Step, Guard

LEMMA TypesInit == Init => Types
<1> SUFFICES ASSUME Init PROVE Types
  OBVIOUS
<1>1. PICK n \in Nat : rows = [i \in 1..n |-> [is |-> "live", of |-> NoCookie, near |-> 0]]
  <2> DEFINE S == {Cardinality(Devices), MaxLive}  n == Min(S)
  <2>1. Cardinality(Devices) \in Nat /\ MaxLive \in Nat
    BY FiniteAssumption, FS_CardinalityType, MaxLiveAssumption
  <2>2. \E x \in S : \A y \in S : x <= y
    BY <2>1
  <2>3. n \in S
    BY <2>2 DEF Min
  <2> QED
    BY <2>1, <2>3 DEF Init
<1>2. rows \in Seq(Renewal) /\ DOMAIN rows \subseteq Nat
  <2>1. rows \in [1..n -> Renewal]
    BY <1>1 DEF Renewal, NoCookie
  <2> QED
    BY <1>1, <2>1, SeqDef
<1>3. jar \in [Devices -> Cookies]
  <2>1. FirstToken \in Token
    BY PlansAssumption, LevelsAssumption DEF FirstToken, Token
  <2>2. \A i \in DOMAIN rows : [access |-> FirstToken, refresh |-> i] \in Cookies
    BY <1>2, <2>1 DEF Cookies
  <2>3. {[access |-> FirstToken, refresh |-> i] : i \in DOMAIN rows} \subseteq Cookies
    BY <2>2
  <2>4. jar \in [Devices -> {[access |-> FirstToken, refresh |-> i] : i \in DOMAIN rows}]
    BY DEF Init
  <2> HIDE DEF Init
  <2> QED
    BY <2>3, <2>4
<1>4. StoreTypes
  BY <1>2, <1>3, PlansAssumption, LevelsAssumption DEF Init, StoreTypes
<1>5. ProcTypes
  BY BlankType DEF Init, ProcTypes, Places, StepOfKind, MemOfStep, Signing, Bearing, ReaderSteps, Blank
<1> QED
  BY <1>4, <1>5 DEF Types

LEMMA TypesStep == Types /\ [Next]_vars => Types'
<1> SUFFICES ASSUME Types, [Next]_vars PROVE Types'
  OBVIOUS
<1>1. ASSUME NEW r \in Requests, Step(r) PROVE Types'
  BY <1>1, StoreTypesStep, ProcTypesStep DEF Types
<1>2. CASE Age
  BY <1>2 DEF Age, Still, user, Types, StoreTypes, ProcTypes, StepOfKind, MemOfStep, IsEdit, Signing,
     Bearing, Entry
<1>3. CASE Crash
  <2>1. ProcTypes'
    BY <1>3, BlankType DEF Crash, Types, ProcTypes, StepOfKind, MemOfStep, IsEdit, Signing,
       Bearing, Over, Places, ReaderSteps, EditSteps, InFlight, Blank
  <2> QED
    BY <1>3, <2>1 DEF Crash, Trouble, user, Types, StoreTypes
<1>4. CASE UNCHANGED vars
  BY <1>4 DEF vars, Types, StoreTypes, ProcTypes, StepOfKind, MemOfStep, IsEdit, Signing, Bearing
<1> QED
  BY <1>1, <1>2, <1>3, <1>4 DEF Next, Step

(***************************************************************************)
(* What a request read, and the edits it may have met.                     *)
(***************************************************************************)

InEdit(e) == pc[e] \in EditSteps
Unmet(r) == pc[r] \in ReaderSteps /\ "met" \notin marks[r]

\* No edit is under way that a request in flight has not noted.
EditsAreSeen == \A r \in Requests : Unmet(r) => ~Editing

\* Then it knows the role, the permissions and the version as they are.
ReadAsItIs == \A r \in Requests : Unmet(r) =>
    /\ Signing(r) => mem[r].role = role
    /\ Signing(r) /\ pc[r] \notin {"mark", "permissions"} => mem[r].level = granted[role]
    /\ pc[r] \in {"keep", "insert"} => mem[r].tv = version

\* The entry of the cache is good, or about to be dropped, and no stale copy of the
\* person brings the version back behind it.
Dropping == \E e \in Requests : pc[e] = "drop"
OutOfStep(e) ==
    \/ pc[e] = "reload" /\ mem[e].copy.version # version
    \/ pc[e] = "write" /\ ~(mem[e].copy.version = version /\ mem[e].base.version = version)
CacheIsGood == cache # None /\ ~cache.met =>
    Dropping \/ (cache.version = version /\ ~ \E e \in Requests : OutOfStep(e))

ReadInv == Types /\ EditsAreSeen /\ ReadAsItIs /\ CacheIsGood

LEMMA EditingMeans == ProcTypes => (Editing <=> \E e \in Requests : InEdit(e))
  BY DEF ProcTypes, StepOfKind, Places, ReaderSteps, EditSteps, Editing, InEdit, IsEdit, InFlight, Over

LEMMA ReaderSteady ==
    ASSUME Types, NEW r \in Requests, Step(r), ~EditOf(r)
    PROVE  /\ role' = role /\ version' = version /\ granted' = granted /\ torn' = torn
           /\ cache' = cache \/ KeepVersion(r)
           /\ ~InEdit(r) /\ ~InEdit(r)' /\ \A e \in Requests : InEdit(e)' <=> InEdit(e)
           /\ Editing' <=> Editing
<1>1. pc[r] \notin EditSteps /\ pc'[r] \notin EditSteps
  BY DEF Types, ProcTypes, Step, Client, Guard, Issue, Logout, Send, OpenPage, Refused, RefusedAgain, Answer, LoseAnswer,
     AskVersion, ReadVersion, KeepVersion, FailToRead, Login, FindToken, MarkUsed, ReadPermissions,
     FailToIssue, InsertToken, LookForStale, Prune, FailToPrune, Revoke, ClearCookies, Goto, End, Learns, EditSteps, Over
<1>2. \A e \in Requests : InEdit(e)' <=> InEdit(e)
  BY <1>1, Frame DEF InEdit
<1>3. Editing' <=> Editing
  <2>1. ProcTypes'
    BY ProcTypesStep
  <2>2. Editing' <=> \E e \in Requests : InEdit(e)'
    BY <2>1 DEF ProcTypes, StepOfKind, Places, ReaderSteps, EditSteps, Editing, InEdit, IsEdit,
       InFlight, Over
  <2> QED
    BY <1>2, <2>2, EditingMeans DEF Types
<1>4. /\ role' = role /\ version' = version /\ granted' = granted /\ torn' = torn
      /\ cache' = cache \/ KeepVersion(r)
  BY DEF Types, ProcTypes, Step, Client, Guard, Issue, Logout, Send, OpenPage, Refused, RefusedAgain, Answer, LoseAnswer,
     AskVersion, ReadVersion, KeepVersion, FailToRead, Login, FindToken, MarkUsed, ReadPermissions,
     FailToIssue, InsertToken, LookForStale, Prune, FailToPrune, Revoke, ClearCookies, store, user, Still, Trouble
<1> QED
  BY <1>1, <1>2, <1>3, <1>4 DEF InEdit

\* Where an edit goes, and that whatever is in flight notes its beginning.
LEMMA EditMoves ==
    ASSUME Types, NEW r \in Requests, EditOf(r)
    PROVE  /\ pc'[r] \in EditSteps \cup {"ok"} /\ IsEdit(r)
           /\ \/ InEdit(r) /\ torn' = torn
              \/ /\ pc[r] = "idle" /\ torn' = (torn \/ Editing)
                 /\ \A s \in Requests : InFlight(s) => "met" \in marks'[s]
<1>1. CASE Strip(r) \/ OpenUser(r)
  BY <1>1 DEF Strip, OpenUser, Begins, Goto, Types, ProcTypes, IsEdit, EditSteps, Marks
<1>2. CASE ~(Strip(r) \/ OpenUser(r))
  BY <1>2 DEF EditOf, Strip, Grant, FindMembers, OpenUser, ReloadUser, SaveUser, Bump, DropEntry, Goto, End, Still, Types, ProcTypes, StepOfKind, IsEdit, EditSteps, InEdit
<1> QED
  BY <1>1, <1>2

LEMMA EditsAreSeenStep ==
    ASSUME ReadInv, NEW r \in Requests, Step(r)
    PROVE  EditsAreSeen'
<1> USE DEF ReadInv
<1> SUFFICES ASSUME NEW s \in Requests, Unmet(s)' PROVE ~Editing'
  BY DEF EditsAreSeen
<1>1. CASE s # r
  <2>1. Unmet(s)
    BY <1>1, Frame DEF Unmet
  <2>2. ~Editing
    BY <2>1 DEF EditsAreSeen
  <2>3. CASE EditOf(r)
    <3>1. InFlight(s)
      BY <2>1 DEF Unmet, InFlight, ReaderSteps, Over
    <3>2. ~InEdit(r)
      BY <2>2, EditingMeans DEF Types
    <3> QED
      BY <2>3, <3>1, <3>2, EditMoves DEF Unmet
  <2> QED
    BY <2>2, <2>3, ReaderSteady
<1>2. CASE s = r
  <2>1. ~EditOf(r)
    BY <1>2, EditMoves DEF Unmet, ReaderSteps, EditSteps
  <2>2. \/ pc[r] \in ReaderSteps /\ marks[r] \subseteq marks'[r]
        \/ Editing => "met" \in marks'[r]
    BY <1>2, <2>1 DEF Unmet, Types, ProcTypes, Step, Client, Guard, Issue, Logout, Send, OpenPage, Refused, RefusedAgain, Answer, LoseAnswer,
     AskVersion, ReadVersion, KeepVersion, FailToRead, Login, FindToken, MarkUsed, ReadPermissions,
     FailToIssue, InsertToken, LookForStale, Prune, FailToPrune, Revoke, ClearCookies,
       Goto, End, Learns, Mark, Since, ReaderSteps, Over
  <2>3. ~Editing
    BY <1>2, <2>2 DEF EditsAreSeen, Unmet
  <2> QED
    BY <2>1, <2>3, ReaderSteady
<1> QED
  BY <1>1, <1>2

\* What an edit meets has noted it.
LEMMA UnmetByEdits ==
    ASSUME ReadInv, NEW r \in Requests, Step(r), NEW s \in Requests, s # r, Unmet(s)'
    PROVE  Unmet(s) /\ ~Editing /\ ~EditOf(r)
<1>1. Unmet(s)
  BY Frame DEF Unmet, ReadInv
<1>2. ~Editing
  BY <1>1 DEF ReadInv, EditsAreSeen
<1>3. InFlight(s)
  BY <1>1 DEF Unmet, InFlight, ReaderSteps, Over
<1>4. ~EditOf(r)
  BY <1>2, <1>3, EditMoves, EditingMeans DEF Unmet, ReadInv, Types
<1> QED
  BY <1>1, <1>2, <1>4

LEMMA ReadAsItIsStep ==
    ASSUME ReadInv, NEW r \in Requests, Step(r)
    PROVE  ReadAsItIs'
<1> USE DEF ReadInv, Types
<1> SUFFICES ASSUME NEW s \in Requests, Unmet(s)'
             PROVE  /\ Signing(s)' => mem'[s].role = role'
                    /\ Signing(s)' /\ pc'[s] \notin {"mark", "permissions"} =>
                          mem'[s].level = granted'[role']
                    /\ pc'[s] \in {"keep", "insert"} => mem'[s].tv = version'
  BY DEF ReadAsItIs
<1>1. CASE s # r
  <2>1. Unmet(s) /\ ~EditOf(r) /\ pc'[s] = pc[s] /\ mem'[s] = mem[s]
    BY <1>1, UnmetByEdits, Frame
  <2> QED
    BY <2>1, ReaderSteady DEF ReadAsItIs, Signing
<1>2. CASE s = r
  <2>0. ~EditOf(r)
    BY <1>2, EditMoves DEF Unmet, ReaderSteps, EditSteps
  <2>1. role' = role /\ version' = version /\ granted' = granted /\ (Editing' <=> Editing)
    BY <2>0, ReaderSteady
  <2>2. ~Editing
    BY <1>2, <2>1, EditsAreSeenStep DEF EditsAreSeen
  <2>3. mem \in [Requests -> Mem] /\ mem[r] \in Mem /\ MemOfStep(r) /\ MemOfStep(r)'
    BY ProcTypesStep DEF ProcTypes
  <2>4. CASE FindToken(r)
    BY <1>2, <2>1, <2>3, <2>4 DEF FindToken, Goto, Hold, End, Signing, ProcTypes, Mem, Unmet,
       ReaderSteps, MemOfStep
  <2>5. CASE Login(r)
    BY <1>2, <2>1, <2>3, <2>5 DEF Login, Goto, Hold, Signing, ProcTypes, Mem, Blank
  <2>6. CASE MarkUsed(r)
    <3>1. Unmet(r) /\ Signing(r)
      BY <1>2, <2>6 DEF MarkUsed, Unmet, ReaderSteps, Signing
    <3> QED
      BY <1>2, <2>1, <2>3, <2>6, <3>1 DEF MarkUsed, Goto, Hold, ProcTypes, Mem, ReadAsItIs
  <2>7. CASE ReadPermissions(r)
    <3>1. Unmet(r) /\ Signing(r)
      BY <1>2, <2>3, <2>7 DEF ReadPermissions, Unmet, ReaderSteps, Signing, MemOfStep
    <3> QED
      BY <1>2, <2>1, <2>3, <2>7, <3>1 DEF ReadPermissions, Goto, Hold, ProcTypes, Mem, ReadAsItIs
  <2>8. CASE AskVersion(r)
    <3>1. Unmet(r) /\ pc[r] = "version"
      BY <1>2, <2>8 DEF AskVersion, Learns, Mark, End, Unmet, ReaderSteps, ProcTypes, Goto, Over
    <3>2. CASE cache # None /\ cache.fresh
      <4>1. CASE mem[r].stage = "issue"
        <5>0. Learns(r, cache.version, Tainted(cache.met)) /\ cache.version \in Nat
          BY <2>8, <3>2 DEF AskVersion, StoreTypes, Entry
        <5>1. pc'[r] = "insert" /\ marks'[r] = marks[r] \cup Tainted(cache.met)
          BY <4>1, <5>0 DEF Learns, Mark, Goto, ProcTypes
        <5>2. ~cache.met
          BY <1>2, <5>1 DEF Tainted, Unmet
        <5>3. ~Dropping
          BY <2>2, EditingMeans DEF Dropping, InEdit, EditSteps
        <5>4. cache.version = version
          BY <3>2, <5>2, <5>3 DEF CacheIsGood
        <5>5. cache.version # None
          BY <5>0, NoneAssumption
        <5>6. mem' = [mem EXCEPT ![r] = [mem[r] EXCEPT !.tv = IF cache.version = None THEN 0 ELSE cache.version,
                                                       !.cached = None]]
          BY <4>1, <5>0 DEF Learns, Hold
        <5>7. mem'[r].tv = version /\ mem'[r].role = mem[r].role /\ mem'[r].level = mem[r].level
          BY <2>3, <5>4, <5>5, <5>6 DEF Mem
        <5>8. Signing(r) /\ pc[r] \notin {"mark", "permissions"}
          BY <3>1, <4>1 DEF Signing
        <5> QED
          BY <1>2, <2>1, <3>1, <5>1, <5>7, <5>8 DEF ReadAsItIs
      <4>2. CASE mem[r].stage # "issue"
        BY <1>2, <2>3, <2>8, <3>2, <4>2 DEF AskVersion, Learns, Goto, End, ProcTypes, Signing, Unmet,
           ReaderSteps
      <4> QED
        BY <4>1, <4>2
    <3>3. CASE ~(cache # None /\ cache.fresh)
      <4>1. /\ pc'[r] = "reading" /\ mem'[r].stage = mem[r].stage
            /\ mem'[r].role = mem[r].role /\ mem'[r].level = mem[r].level
        BY <2>3, <2>8, <3>3 DEF AskVersion, Goto, Hold, ProcTypes, Mem
      <4> QED
        BY <1>2, <2>1, <3>1, <4>1 DEF ReadAsItIs, Signing
    <3> QED
      BY <3>2, <3>3
  <2>9. CASE ReadVersion(r)
    <3>1. Unmet(r) /\ pc[r] = "reading"
      BY <1>2, <2>9 DEF ReadVersion, Unmet, ReaderSteps
    <3>2. /\ pc'[r] = "keep" /\ mem'[r].stage = mem[r].stage /\ mem'[r].tv = version
          /\ mem'[r].role = mem[r].role /\ mem'[r].level = mem[r].level
      BY <2>3, <2>9 DEF ReadVersion, Goto, Hold, ProcTypes, Mem
    <3> QED
      BY <1>2, <2>1, <3>1, <3>2 DEF ReadAsItIs, Signing
  <2>10. CASE KeepVersion(r)
    <3>1. pc[r] = "keep" /\ Learns(r, mem[r].tv, {})
      BY <2>10 DEF KeepVersion
    <3>2. CASE mem[r].stage = "issue"
      <4>1. pc'[r] = "insert" /\ marks'[r] = marks[r]
        BY <3>1, <3>2 DEF Learns, Mark, Goto, ProcTypes
      <4>2. Unmet(r) /\ Signing(r)
        BY <1>2, <3>1, <3>2, <4>1 DEF Unmet, ReaderSteps, Signing
      <4>3. mem[r].tv = version /\ mem[r].role = role /\ mem[r].level = granted[role]
        BY <3>1, <4>2 DEF ReadAsItIs
      <4>4. mem' = [mem EXCEPT ![r] = [mem[r] EXCEPT !.tv = IF mem[r].tv = None THEN 0 ELSE mem[r].tv,
                                                     !.cached = None]]
        BY <3>1, <3>2 DEF Learns, Hold
      <4>5. version # None
        BY NoneAssumption DEF StoreTypes
      <4>6. mem'[r].tv = mem[r].tv /\ mem'[r].role = mem[r].role /\ mem'[r].level = mem[r].level
        BY <2>3, <4>3, <4>4, <4>5 DEF Mem
      <4> QED
        BY <1>2, <2>1, <4>1, <4>3, <4>6
    <3>3. CASE mem[r].stage # "issue"
      BY <1>2, <2>3, <3>1, <3>3 DEF Learns, Goto, End, ProcTypes, Signing, Unmet, ReaderSteps
    <3> QED
      BY <3>2, <3>3
  <2>11. CASE FailToRead(r)
    BY <1>2, <2>3, <2>11 DEF FailToRead, Learns, Mark, Goto, End, ProcTypes, Unmet, Signing, ReaderSteps
  <2>12. CASE Client(r) \/ Logout(r)
    <3>1. CASE Send(r) /\ pc'[r] # "refused"
      BY <1>2, <2>3, <3>1 DEF Send, Goto, Hold, ProcTypes, Blank, Signing
    <3>2. CASE Answer(r) /\ ~End(r, "ok")
      BY <1>2, <2>3, <3>2 DEF Answer, Goto, Hold, ProcTypes, Blank, Signing
    <3>3. CASE pc'[r] \in {"refused", "find", "clear"}
      BY <1>2, <2>3, <3>3 DEF Signing, MemOfStep
    <3>4. CASE \E x \in Over : End(r, x)
      BY <1>2, <3>4 DEF End, Goto, ProcTypes, Unmet, ReaderSteps, Over
    <3> QED
      BY <1>2, <2>12, <3>1, <3>2, <3>3, <3>4 DEF Client, Logout, Send, OpenPage, Refused, RefusedAgain, Answer,
         LoseAnswer, Revoke, ClearCookies, Goto, ProcTypes, Over
  <2>13. CASE InsertToken(r) \/ LookForStale(r) \/ Prune(r) \/ FailToPrune(r) \/ FailToIssue(r)
    BY <1>2, <2>3, <2>13 DEF InsertToken, LookForStale, Prune, FailToPrune, FailToIssue, Goto, End,
       ProcTypes, Signing, Unmet, ReaderSteps
  <2> QED
    BY <2>0, <2>4, <2>5, <2>6, <2>7, <2>8, <2>9, <2>10, <2>11, <2>12, <2>13 DEF Step, Guard, Issue
<1> QED
  BY <1>1, <1>2

LEMMA CacheIsGoodStep ==
    ASSUME ReadInv, NEW r \in Requests, Step(r)
    PROVE  CacheIsGood'
<1> USE DEF ReadInv, Types
<1> SUFFICES ASSUME cache' # None, ~cache'.met
             PROVE  Dropping' \/ (cache'.version = version' /\ ~ \E e \in Requests : OutOfStep(e)')
  BY DEF CacheIsGood
<1>0. \A s \in Requests \ {r} : pc'[s] = pc[s] /\ mem'[s] = mem[s]
  BY Frame
<1>1. CASE ~EditOf(r)
  <2>1. version' = version /\ ~InEdit(r)' /\ ~InEdit(r)
    BY <1>1, ReaderSteady
  <2>2. \A e \in Requests : OutOfStep(e)' => OutOfStep(e)
    BY <1>0, <2>1 DEF OutOfStep, InEdit, EditSteps
  <2>3. CASE cache' = cache
    BY <1>0, <2>1, <2>2, <2>3 DEF CacheIsGood, Dropping, InEdit, EditSteps
  <2>4. CASE KeepVersion(r)
    <3>1. "met" \notin marks[r] /\ pc[r] = "keep" /\ cache'.version = mem[r].tv
      BY <2>4 DEF KeepVersion
    <3>2. ~Editing /\ mem[r].tv = version
      BY <3>1 DEF EditsAreSeen, ReadAsItIs, Unmet, ReaderSteps
    <3>3. ~ \E e \in Requests : OutOfStep(e)
      BY <3>2, EditingMeans DEF OutOfStep, InEdit, EditSteps
    <3> QED
      BY <2>1, <2>2, <3>1, <3>2, <3>3
  <2> QED
    BY <1>1, <2>3, <2>4, ReaderSteady
<1>2. CASE Bump(r)
  <2>1. pc'[r] = "drop"
    BY <1>2 DEF Bump, Goto, ProcTypes
  <2> QED
    BY <2>1 DEF Dropping
<1>3. CASE DropEntry(r)
  BY <1>3 DEF DropEntry, WithoutEntry
<1>4. CASE EditOf(r) /\ ~Bump(r) /\ ~DropEntry(r)
  <2>1. cache' = cache /\ pc[r] # "drop"
    BY <1>4 DEF EditOf, Strip, Grant, FindMembers, OpenUser, ReloadUser, SaveUser, Begins, store
  <2>2. CASE Dropping
    BY <1>0, <2>1, <2>2 DEF Dropping
  <2>3. CASE ~Dropping
    <3>1. cache.version = version /\ \A e \in Requests : ~OutOfStep(e)
      BY <2>1, <2>3 DEF CacheIsGood
    <3>2. version' = version
      <4>1. CASE SaveUser(r)
        <5>1. mem[r].copy.version = version /\ mem[r].base.version = version
          BY <3>1, <4>1 DEF SaveUser, OutOfStep
        <5> QED
          BY <4>1, <5>1 DEF SaveUser, Column
      <4> QED
        BY <1>4, <4>1 DEF EditOf, Strip, Grant, FindMembers, OpenUser, ReloadUser, user, store
    <3>3. ~OutOfStep(r)'
      <4>1. CASE OpenUser(r)
        BY <3>2, <4>1 DEF OpenUser, Hold, Goto, ProcTypes, Blank, OutOfStep
      <4>2. CASE ReloadUser(r)
        <5>1. mem[r].copy.version = version /\ pc[r] = "reload"
          BY <3>1, <4>2 DEF ReloadUser, OutOfStep
        <5>2. mem'[r].copy = mem[r].copy /\ mem'[r].base.version = version /\ pc'[r] = "write"
          BY <4>2 DEF ReloadUser, Hold, Goto, ProcTypes, Mem
        <5> QED
          BY <3>2, <5>1, <5>2 DEF OutOfStep
      <4>3. CASE ~OpenUser(r) /\ ~ReloadUser(r)
        <5>1. pc'[r] \notin {"reload", "write"}
          BY <1>4, <4>3 DEF EditOf, Strip, Grant, FindMembers, SaveUser, Goto, End, ProcTypes
        <5> QED
          BY <5>1 DEF OutOfStep
      <4> QED
        BY <4>1, <4>2, <4>3
    <3>4. \A e \in Requests : ~OutOfStep(e)'
      BY <1>0, <3>1, <3>2, <3>3 DEF OutOfStep
    <3> QED
      BY <2>1, <3>1, <3>2, <3>4
  <2> QED
    BY <2>2, <2>3
<1> QED
  BY <1>1, <1>2, <1>3, <1>4

LEMMA ReadInvInit == Init => ReadInv
  BY TypesInit DEF Init, ReadInv, EditsAreSeen, ReadAsItIs, CacheIsGood, Unmet, ReaderSteps

LEMMA ReadInvStep == ReadInv /\ [Next]_vars => ReadInv'
<1> SUFFICES ASSUME ReadInv, [Next]_vars PROVE ReadInv'
  OBVIOUS
<1>0. Types'
  BY TypesStep DEF ReadInv
<1>1. ASSUME NEW r \in Requests, Step(r) PROVE ReadInv'
  BY <1>0, <1>1, EditsAreSeenStep, ReadAsItIsStep, CacheIsGoodStep DEF ReadInv
<1>2. CASE Age
  BY <1>0, <1>2 DEF Age, Still, user, ReadInv, Types, StoreTypes, Entry, EditsAreSeen, ReadAsItIs,
     CacheIsGood, Unmet, Editing, IsEdit, InFlight, Signing, Dropping, OutOfStep
<1>3. CASE Crash
  BY <1>0, <1>3 DEF Crash, ReadInv, Types, ProcTypes, EditsAreSeen, ReadAsItIs, CacheIsGood, Unmet,
     ReaderSteps, InFlight, Over, Places, EditSteps
<1>4. CASE UNCHANGED vars
  BY <1>0, <1>4 DEF vars, ReadInv, EditsAreSeen, ReadAsItIs,
     CacheIsGood, Unmet, Editing, IsEdit, InFlight, Signing, Dropping, OutOfStep
<1> QED
  BY <1>1, <1>2, <1>3, <1>4 DEF Next, Step

(***************************************************************************)
(* What the tokens say, while the edits come one at a time.                *)
(***************************************************************************)

OneEdit == ~torn => \A e, f \in Requests : InEdit(e) /\ InEdit(f) => e = f

\* The copy an edit saves is the person as it is.
CopyIsCurrent == ~torn => \A e \in Requests :
    /\ pc[e] \in {"reload", "write"} => mem[e].copy = [role |-> role, version |-> version]
    /\ pc[e] = "write" => mem[e].base = [role |-> role, version |-> version]

\* The edits that took hold and have not raised the version yet.
Outdates(e) ==
    \/ op[e].kind = "grant" /\ pc[e] \in {"grant", "members", "bump"} /\ role = op[e].role
    \/ op[e].kind = "update" /\ pc[e] = "bump"

\* A token says what holds, or the version refuses it, or is about to.
Holds(t) == ~t.met =>
    /\ t.tv <= version
    /\ \/ t.tv < version
       \/ \E e \in Requests : Outdates(e)
       \/ t.role = role /\ t.level = granted[role]
TokensHold == ~torn =>
    /\ \A d \in Devices : jar[d].access # None => Holds(jar[d].access)
    /\ \A r \in Requests : Bearing(r) => Holds(mem[r].token)

TokenInv == ReadInv /\ OneEdit /\ CopyIsCurrent /\ TokensHold

\* Once two edits met, or one was cut short, that stays.
LEMMA TornStays ==
    ASSUME Types, NEW r \in Requests, Step(r), ~torn'
    PROVE  ~torn /\ (EditOf(r) /\ ~InEdit(r) => pc[r] = "idle" /\ ~Editing)
  BY EditMoves, ReaderSteady DEF Types, StoreTypes

LEMMA OneEditStep ==
    ASSUME TokenInv, NEW r \in Requests, Step(r)
    PROVE  OneEdit'
<1> USE DEF TokenInv, ReadInv
<1> SUFFICES ASSUME ~torn', NEW e \in Requests, NEW f \in Requests, InEdit(e)', InEdit(f)'
             PROVE  e = f
  BY DEF OneEdit
<1>1. ~torn
  BY TornStays
<1>2. CASE ~EditOf(r)
  BY <1>1, <1>2, ReaderSteady DEF OneEdit
<1>3. CASE EditOf(r)
  <2>1. \A s \in Requests \ {r} : InEdit(s)' <=> InEdit(s)
    BY Frame DEF InEdit
  <2>2. CASE InEdit(r)
    BY <1>1, <2>1, <2>2 DEF OneEdit
  <2>3. CASE ~InEdit(r)
    BY <1>3, <2>1, <2>3, TornStays, EditingMeans DEF Types
  <2> QED
    BY <2>2, <2>3
<1> QED
  BY <1>2, <1>3

LEMMA CopyIsCurrentStep ==
    ASSUME TokenInv, NEW r \in Requests, Step(r)
    PROVE  CopyIsCurrent'
<1> USE DEF TokenInv, ReadInv
<1> SUFFICES ASSUME ~torn', NEW e \in Requests, pc'[e] \in {"reload", "write"}
             PROVE  /\ mem'[e].copy = [role |-> role', version |-> version']
                    /\ pc'[e] = "write" => mem'[e].base = [role |-> role', version |-> version']
  BY DEF CopyIsCurrent
<1>1. ~torn
  BY TornStays
<1>2. InEdit(e)'
  BY DEF InEdit, EditSteps
<1>3. CASE e # r
  <2>1. pc'[e] = pc[e] /\ mem'[e] = mem[e] /\ InEdit(e)
    BY <1>2, <1>3, Frame DEF InEdit
  <2>2. ~EditOf(r)
    <3>1. InEdit(e) => Editing
      BY EditingMeans DEF Types
    <3> QED
      BY <1>1, <1>3, <2>1, <3>1, TornStays DEF OneEdit
  <2>3. role' = role /\ version' = version
    BY <2>2, ReaderSteady
  <2> QED
    BY <1>1, <2>1, <2>3 DEF CopyIsCurrent
<1>4. CASE e = r
  <2>1. mem \in [Requests -> Mem] /\ mem[r] \in Mem /\ pc \in [Requests -> Places]
    BY DEF Types, ProcTypes
  <2>2. CASE OpenUser(r)
    BY <1>4, <2>1, <2>2 DEF OpenUser, Hold, Goto, Blank, store, user
  <2>3. CASE ReloadUser(r)
    <3>1. pc[r] = "reload" /\ role' = role /\ version' = version
      BY <2>3 DEF ReloadUser, store, user
    <3>2. mem'[r].copy = mem[r].copy /\ mem'[r].base = [role |-> role, version |-> version]
      BY <2>1, <2>3 DEF ReloadUser, Hold, Mem
    <3> QED
      BY <1>1, <1>4, <3>1, <3>2 DEF CopyIsCurrent
  <2>4. EditOf(r)
    BY <1>2, <1>4, ReaderSteady
  <2>5. CASE ~OpenUser(r) /\ ~ReloadUser(r)
    <3>1. pc'[r] \notin {"reload", "write"}
      BY <2>1, <2>4, <2>5 DEF EditOf, Strip, Grant, FindMembers, SaveUser, Bump, DropEntry, Goto, End
    <3> QED
      BY <1>4, <3>1
  <2> QED
    BY <2>2, <2>3, <2>5
<1> QED
  BY <1>3, <1>4

\* What holds of a token goes on holding, whoever moves.
LEMMA HoldsStays ==
    ASSUME TokenInv, NEW r \in Requests, Step(r), ~torn', NEW t \in Token, Holds(t)
    PROVE  Holds(t)'
<1> USE DEF TokenInv, ReadInv
<1>1. ~torn /\ op' = op
  BY TornStays, Frame
<1>2. CASE ~EditOf(r)
  <2>1. role' = role /\ version' = version /\ granted' = granted
    BY <1>2, ReaderSteady
  <2>2. \A e \in Requests : Outdates(e) => Outdates(e)'
    <3>1. \A e \in Requests : Outdates(e) => InEdit(e)
      BY DEF Outdates, InEdit, EditSteps
    <3>2. \A e \in Requests \ {r} : pc'[e] = pc[e]
      BY Frame
    <3>3. ~InEdit(r)
      BY <1>2, ReaderSteady
    <3> QED
      BY <1>1, <2>1, <3>1, <3>2, <3>3 DEF Outdates
  <2> QED
    BY <2>1, <2>2 DEF Holds
<1>3. CASE EditOf(r)
  <2> SUFFICES ASSUME ~t.met
               PROVE  /\ t.tv <= version'
                      /\ \/ t.tv < version'
                         \/ \E e \in Requests : Outdates(e)'
                         \/ t.role = role' /\ t.level = granted'[role']
    BY DEF Holds
  <2>0. t.tv \in Nat /\ version \in Nat /\ t.tv <= version
    BY DEF Holds, Token, Types, StoreTypes
  <2>1. \A e \in Requests : Outdates(e) => e = r
    <3>1. \A e \in Requests : Outdates(e) => InEdit(e)
      BY DEF Outdates, InEdit, EditSteps
    <3>2. CASE InEdit(r)
      BY <1>1, <3>1, <3>2 DEF OneEdit
    <3>3. CASE ~InEdit(r)
      BY <1>3, <3>1, <3>3, TornStays, EditingMeans DEF Types
    <3> QED
      BY <3>2, <3>3
  <2>2. t.tv < version \/ Outdates(r) \/ (t.role = role /\ t.level = granted[role])
    BY <2>1 DEF Holds
  <2>3. pc \in [Requests -> Places] /\ granted \in [Roles -> Levels] /\ role \in Roles /\ StepOfKind(r)
    BY DEF Types, StoreTypes, ProcTypes
  <2>4. CASE Strip(r)
    BY <1>1, <2>0, <2>2, <2>3, <2>4 DEF Strip, Begins, Goto, Outdates, user
  <2>5. CASE Grant(r)
    BY <1>1, <2>0, <2>2, <2>3, <2>5 DEF Grant, Goto, Outdates, user, StepOfKind
  <2>6. CASE FindMembers(r)
    BY <1>1, <2>0, <2>2, <2>3, <2>6 DEF FindMembers, Goto, End, Outdates, store, user, StepOfKind
  <2>7. CASE OpenUser(r) \/ ReloadUser(r)
    BY <1>1, <2>0, <2>2, <2>3, <2>7 DEF OpenUser, ReloadUser, Begins, Goto, Outdates, store, user, StepOfKind
  <2>8. CASE SaveUser(r)
    <3>1. /\ mem[r].copy = [role |-> role, version |-> version]
          /\ mem[r].base = [role |-> role, version |-> version]
      BY <1>1, <2>8 DEF SaveUser, CopyIsCurrent
    <3>2. version' = version /\ granted' = granted /\ op[r].kind = "update" /\ ~Outdates(r)
      BY <2>3, <2>8, <3>1 DEF SaveUser, Column, StepOfKind, Outdates
    <3>3. role' = role \/ pc'[r] = "bump"
      BY <2>3, <2>8, <3>1 DEF SaveUser, Column, Goto
    <3>4. pc'[r] = "bump" => Outdates(r)'
      BY <1>1, <3>2 DEF Outdates
    <3> QED
      BY <2>0, <2>2, <3>2, <3>3, <3>4
  <2>9. CASE Bump(r)
    <3>1. pc[r] = "bump" /\ role' = role /\ granted' = granted
      BY <2>9 DEF Bump
    <3>2. CASE op[r].kind = "update" \/ role = op[r].role
      BY <2>0, <2>9, <3>2 DEF Bump
    <3>3. CASE ~(op[r].kind = "update" \/ role = op[r].role)
      BY <2>0, <2>2, <2>9, <3>1, <3>3 DEF Bump, Outdates
    <3> QED
      BY <3>2, <3>3
  <2>10. CASE DropEntry(r)
    BY <2>0, <2>2, <2>10 DEF DropEntry, Outdates, user
  <2> QED
    BY <1>3, <2>4, <2>5, <2>6, <2>7, <2>8, <2>9, <2>10 DEF EditOf
<1> QED
  BY <1>2, <1>3

\* A token that is signed says what holds.
LEMMA SignedHolds ==
    ASSUME ReadInv, NEW r \in Requests, pc[r] = "insert"
    PROVE  Holds(Signed(r))
<1>1. Signing(r) /\ mem[r].tv \in Nat /\ version \in Nat
  BY DEF ReadInv, Types, StoreTypes, ProcTypes, MemOfStep, Mem, Signing
<1>2. Unmet(r) => mem[r].role = role /\ mem[r].level = granted[role] /\ mem[r].tv = version
  BY <1>1 DEF ReadInv, ReadAsItIs
<1>3. CASE "met" \in marks[r]
  BY <1>3 DEF Signed, Holds
<1>4. CASE "met" \notin marks[r]
  <2>1. Unmet(r)
    BY <1>4 DEF Unmet, ReaderSteps
  <2>2. /\ Signed(r).tv = version /\ Signed(r).role = role /\ Signed(r).level = granted[role]
        /\ version <= version
    BY <1>1, <1>2, <2>1 DEF Signed
  <2> QED
    BY <2>2 DEF Holds
<1> QED
  BY <1>3, <1>4

LEMMA TokensHoldStep ==
    ASSUME TokenInv, NEW r \in Requests, Step(r)
    PROVE  TokensHold'
<1> USE DEF TokenInv, ReadInv
<1> SUFFICES ASSUME ~torn'
             PROVE  /\ \A d \in Devices : jar'[d].access # None => Holds(jar[d].access)'
                    /\ \A s \in Requests : Bearing(s)' => Holds(mem[s].token)'
  BY DEF TokensHold
<1>1. ~torn
  BY TornStays
<1>2. /\ mem \in [Requests -> Mem] /\ mem[r] \in Mem /\ MemOfStep(r) /\ pc \in [Requests -> Places]
      /\ jar \in [Devices -> Cookies] /\ Dev(r) \in Devices
  BY OpType DEF Types, StoreTypes, ProcTypes
\* The tokens there are.
<1> DEFINE Good(t) == t \in Token /\ Holds(t)
<1>3. \A d \in Devices : jar[d].access # None => Good(jar[d].access)
  BY <1>1, <1>2 DEF TokensHold, Cookies
<1>4. \A s \in Requests : Bearing(s) => Good(mem[s].token)
  BY <1>1 DEF TokensHold, Types, ProcTypes, MemOfStep
<1>5. pc[r] = "insert" => Good(Signed(r))
  BY <1>2, SignedHolds, SignedType DEF Types, Signing, MemOfStep
<1>6. ASSUME NEW t, Good(t) PROVE Holds(t)'
  BY <1>1, <1>6, HoldsStays
<1> HIDE DEF Good
<1>7. ASSUME NEW d \in Devices, jar'[d].access # None PROVE Holds(jar[d].access)'
  <2>1. \/ jar' = jar
        \/ Answer(r) /\ jar' = [jar EXCEPT ![Dev(r)] = [access |-> mem[r].token, refresh |-> mem[r].stored]]
        \/ pc[r] = "insert" /\ jar' = [jar EXCEPT ![Dev(r)].access = Signed(r)]
        \/ jar' = [jar EXCEPT ![Dev(r)] = [access |-> None, refresh |-> NoCookie]]
        \/ jar' = [jar EXCEPT ![Dev(r)].access = None]
    BY DEF Step, Client, Guard, Issue, Logout, EditOf, Send, OpenPage, Refused, RefusedAgain, Answer, LoseAnswer,
       AskVersion, ReadVersion, KeepVersion, FailToRead, Login, FindToken, MarkUsed, ReadPermissions,
       FailToIssue, InsertToken, LookForStale, Prune, FailToPrune, Revoke, ClearCookies, Strip, Grant,
       FindMembers, OpenUser, ReloadUser, SaveUser, Bump, DropEntry
  <2>2. \/ jar'[d].access = jar[d].access
        \/ Bearing(r) /\ jar'[d].access = mem[r].token
        \/ pc[r] = "insert" /\ jar'[d].access = Signed(r)
    BY <1>2, <1>7, <2>1 DEF Answer, Bearing, Cookies
  <2>3. Good(jar'[d].access)
    BY <1>3, <1>4, <1>5, <1>7, <2>2
  <2> QED
    BY <1>6, <2>3 DEF Holds
<1>8. ASSUME NEW s \in Requests, Bearing(s)' PROVE Holds(mem[s].token)'
  <2>1. CASE s # r
    <3>1. Bearing(s) /\ mem'[s] = mem[s]
      BY <1>8, <2>1, Frame DEF Bearing
    <3> QED
      BY <1>4, <1>6, <3>1 DEF Holds
  <2>2. CASE s = r
    <3>1. \/ Bearing(r) /\ mem'[r].token = mem[r].token
          \/ jar[Dev(r)].access # None /\ mem'[r].token = jar[Dev(r)].access
          \/ pc[r] = "insert" /\ mem'[r].token = Signed(r)
      <4>0. ASSUME NEW x \in Over PROVE ~End(r, x)
        BY <1>2, <1>8, <2>2, <4>0 DEF End, Goto, Bearing, Over
      <4>1. CASE Client(r)
        <5>1. CASE Send(r)
          BY <1>2, <1>8, <2>2, <5>1 DEF Send, Goto, Hold, Blank, Bearing, MemOfStep
        <5>2. CASE Answer(r)
          BY <1>2, <4>0, <5>2 DEF Answer, Hold, Blank, Bearing, Over
        <5>3. CASE Refused(r)
          BY <1>2, <1>8, <2>2, <4>0, <5>3 DEF Refused, Goto, Bearing, Over
        <5>4. CASE OpenPage(r)
          BY <4>0, <5>4 DEF OpenPage, Over
        <5> QED
          BY <4>0, <4>1, <5>1, <5>2, <5>3, <5>4 DEF Client, RefusedAgain, LoseAnswer, Over
      <4>2. CASE Guard(r)
        BY <1>2, <1>8, <2>2, <4>2 DEF Guard, AskVersion, ReadVersion, KeepVersion, FailToRead, Learns, Goto, Hold,
           End, Bearing, Mem
      <4>3. CASE Issue(r)
        <5>1. CASE InsertToken(r)
          BY <1>2, <5>1 DEF InsertToken, Hold, Blank
        <5>2. CASE ReadPermissions(r)
          BY <1>2, <1>8, <2>2, <5>2 DEF ReadPermissions, Goto, Hold, Mem, Bearing, MemOfStep
        <5>3. CASE Login(r) \/ FindToken(r) \/ MarkUsed(r)
          BY <1>2, <1>8, <2>2, <4>0, <5>3 DEF Login, FindToken, MarkUsed, Goto, Bearing, Over
        <5>4. CASE LookForStale(r) \/ Prune(r) \/ FailToPrune(r)
          BY <1>2, <5>4 DEF LookForStale, Prune, FailToPrune, Hold, Bearing, Mem
        <5> QED
          BY <4>0, <4>3, <5>1, <5>2, <5>3, <5>4 DEF Issue, FailToIssue, Over
      <4>4. CASE Logout(r)
        BY <1>2, <1>8, <2>2, <4>4 DEF Logout, Revoke, ClearCookies, Goto, End, Bearing
      <4>5. CASE EditOf(r)
        BY <1>8, <2>2, <4>5, EditMoves DEF Bearing, EditSteps
      <4> QED
        BY <4>1, <4>2, <4>3, <4>4, <4>5 DEF Step
    <3>2. Good(mem'[r].token)
      BY <1>2, <1>3, <1>4, <1>5, <3>1
    <3> QED
      BY <1>6, <2>2, <3>2 DEF Holds
  <2> QED
    BY <2>1, <2>2
<1> QED
  BY <1>7, <1>8

LEMMA TokenInvInit == Init => TokenInv
<1> SUFFICES ASSUME Init PROVE TokenInv
  OBVIOUS
<1>1. ReadInv
  BY ReadInvInit
<1>2. OneEdit /\ CopyIsCurrent
  BY DEF Init, OneEdit, CopyIsCurrent, InEdit, EditSteps
<1>3. TokensHold
  <2>1. Holds(FirstToken)
    BY PlansAssumption DEF Holds, FirstToken, Init
  <2>2. \A d \in Devices : jar[d].access = FirstToken
    BY DEF Init
  <2>3. \A r \in Requests : ~Bearing(r)
    BY DEF Init, Bearing
  <2> QED
    BY <2>1, <2>2, <2>3 DEF TokensHold
<1> QED
  BY <1>1, <1>2, <1>3 DEF TokenInv

LEMMA TokenInvStep == TokenInv /\ [Next]_vars => TokenInv'
<1> SUFFICES ASSUME TokenInv, [Next]_vars PROVE TokenInv'
  OBVIOUS
<1>0. ReadInv'
  BY ReadInvStep DEF TokenInv
<1>1. ASSUME NEW r \in Requests, Step(r) PROVE TokenInv'
  BY <1>0, <1>1, OneEditStep, CopyIsCurrentStep, TokensHoldStep DEF TokenInv
<1>2. CASE Age
  BY <1>0, <1>2 DEF Age, Still, user, TokenInv, OneEdit, CopyIsCurrent, TokensHold, InEdit, Holds,
     Outdates, Bearing
<1>3. CASE Crash
  <2>1. /\ role' = role /\ version' = version /\ granted' = granted /\ jar' = jar
        /\ torn' = (torn \/ Editing)
    BY <1>3 DEF Crash, user
  <2>2. \A r \in Requests : pc'[r] \in Over \cup {"idle"}
    BY <1>3 DEF Crash, InFlight, TokenInv, ReadInv, Types, ProcTypes, Over
  <2>3. OneEdit' /\ CopyIsCurrent' /\ \A r \in Requests : ~Bearing(r)'
    BY <2>2 DEF OneEdit, CopyIsCurrent, InEdit, EditSteps, Bearing, Over
  <2>4. ASSUME ~torn', NEW d \in Devices, jar[d].access # None PROVE Holds(jar[d].access)'
    <3>1. ~torn /\ ~Editing
      BY <2>1, <2>4 DEF TokenInv, ReadInv, Types, StoreTypes
    <3>2. Holds(jar[d].access) /\ \A e \in Requests : ~Outdates(e)
      BY <2>4, <3>1, EditingMeans DEF TokenInv, TokensHold, ReadInv, Types, Outdates, InEdit, EditSteps
    <3> QED
      BY <2>1, <3>2 DEF Holds
  <2>5. TokensHold'
    BY <2>1, <2>3, <2>4 DEF TokensHold
  <2> QED
    BY <1>0, <2>3, <2>5 DEF TokenInv
<1>4. CASE UNCHANGED vars
  BY <1>0, <1>4 DEF vars, TokenInv, OneEdit, CopyIsCurrent, TokensHold, InEdit, Holds, Outdates, Bearing
<1> QED
  BY <1>1, <1>2, <1>3, <1>4 DEF Next, Step

\* Who is let pass was compared with the version as it is.
LEMMA ServedAgainst ==
    ASSUME ReadInv, [Next]_vars, NEW r \in Requests, Serves(r), ~Editing,
           "met" \notin marks[r], pc[r] = "version" => ~cache.met
    PROVE  mem[r].stage = "guard" /\ mem[r].token.tv = version
<1> USE DEF ReadInv, Types
<1>1. /\ mem[r] \in Mem /\ pc \in [Requests -> Places] /\ version \in Nat
      /\ pc[r] \in {"version", "keep"} /\ pc'[r] \in {"ok", "revoke"}
  BY DEF ProcTypes, StoreTypes, Serves
<1>2. Step(r)
  <2>1. CASE Age \/ UNCHANGED vars
    BY <1>1, <2>1 DEF Age, vars
  <2>2. CASE Crash
    BY <1>1, <2>2 DEF Crash
  <2>3. ASSUME NEW s \in Requests, Step(s), s # r PROVE FALSE
    BY <1>1, <2>3, Frame
  <2> QED
    BY <2>1, <2>2, <2>3 DEF Next, Step
<1>3. AskVersion(r) \/ KeepVersion(r)
  BY <1>1, <1>2 DEF Step, Client, Guard, Issue, Logout, EditOf, Send, OpenPage, Refused, RefusedAgain, Answer, LoseAnswer,
     AskVersion, ReadVersion, KeepVersion, FailToRead, Login, FindToken, MarkUsed, ReadPermissions,
     FailToIssue, InsertToken, LookForStale, Prune, FailToPrune, Revoke, ClearCookies, Strip, Grant,
     FindMembers, OpenUser, ReloadUser, SaveUser, Bump, DropEntry, Begins
<1>4. ASSUME NEW v \in Nat, NEW ms, Learns(r, v, ms) PROVE mem[r].stage = "guard" /\ mem[r].token.tv = v
  BY <1>1, <1>4, NoneAssumption DEF Learns, Goto, Mem
<1>5. CASE AskVersion(r)
  <2>1. cache # None /\ Learns(r, cache.version, Tainted(cache.met)) /\ cache.version \in Nat
    BY <1>1, <1>5 DEF AskVersion, Goto, StoreTypes, Entry
  <2>2. cache.version = version
    <3>1. ~cache.met
      BY <1>5 DEF AskVersion
    <3>2. ~Dropping
      BY EditingMeans DEF Dropping, InEdit, EditSteps
    <3> QED
      BY <2>1, <3>1, <3>2 DEF CacheIsGood
  <2> QED
    BY <1>4, <2>1, <2>2
<1>6. CASE KeepVersion(r)
  <2>1. pc[r] = "keep" /\ Learns(r, mem[r].tv, {}) /\ mem[r].tv \in Nat
    BY <1>1, <1>6 DEF KeepVersion, Mem
  <2>2. mem[r].tv = version
    BY <2>1 DEF ReadAsItIs, Unmet, ReaderSteps
  <2> QED
    BY <1>4, <2>1, <2>2
<1> QED
  BY <1>3, <1>5, <1>6

\* Whoever the guard lets pass has the role and the permissions of the moment, but for
\* what the exceptions of ServedIsCurrent name: auth.guard compares the token with the
\* version, token-version.cache keeps the version, and the edits raise it and drop it.
THEOREM ServedAsOfNow == Spec => ServedIsCurrent
<1>1. Init => TokenInv
  BY TokenInvInit
<1>2. TokenInv /\ [Next]_vars => TokenInv'
  BY TokenInvStep
<1>3. TokenInv /\ [Next]_vars =>
        [\A r \in Requests : Serves(r) =>
           LET t == mem[r].token IN
           \/ t.role = role /\ t.level = granted[role]
           \/ Editing \/ torn \/ t.met
           \/ "met" \in marks[r]
           \/ pc[r] = "version" /\ cache.met]_vars
  <2> SUFFICES ASSUME TokenInv, [Next]_vars, NEW r \in Requests, Serves(r),
                      ~Editing, ~torn, ~mem[r].token.met, "met" \notin marks[r],
                      pc[r] = "version" => ~cache.met
               PROVE  mem[r].token.role = role /\ mem[r].token.level = granted[role]
    OBVIOUS
  <2>1. mem[r].stage = "guard" /\ mem[r].token.tv = version
    BY ServedAgainst DEF TokenInv
  <2>2. Bearing(r) /\ version \in Nat
    BY <2>1 DEF Serves, Bearing, TokenInv, ReadInv, Types, StoreTypes
  <2>3. Holds(mem[r].token)
    BY <2>2 DEF TokenInv, TokensHold
  <2>4. \A e \in Requests : ~Outdates(e)
    BY EditingMeans DEF TokenInv, ReadInv, Types, Outdates, InEdit, EditSteps
  <2>5. mem[r].token.tv < version \/ (mem[r].token.role = role /\ mem[r].token.level = granted[role])
    BY <2>3, <2>4 DEF Holds
  <2> QED
    BY <2>1, <2>2, <2>5
<1> QED
  BY <1>1, <1>2, <1>3, PTL DEF Spec, ServedIsCurrent

(***************************************************************************)
(* Whose the renewable tokens are, and how one comes to an end.            *)
(***************************************************************************)

IssueSteps == {"permissions", "version", "reading", "keep", "insert", "look", "prune", "answer"}

\* What is pointed at is in the table.
Refs ==
    /\ \A d \in Devices : jar[d].refresh <= Len(rows)
    /\ \A q \in Requests : mem[q].refresh <= Len(rows) /\ mem[q].stored <= Len(rows)
    /\ wasted \subseteq 0..Len(rows)
RefSteps == \A q \in Requests :
    /\ mem[q].refresh # NoCookie =>
          pc[q] \in {"find", "mark"} \/ (mem[q].stage = "issue" /\ pc[q] \in IssueSteps)
    /\ pc[q] \in {"find", "mark"} => mem[q].refresh # NoCookie
    /\ mem[q].stored # NoCookie => pc[q] \in {"look", "prune", "answer"}

\* A token is in the hands of one device and of its requests.
Has(d, i) == jar[d].refresh = i \/ \E q \in Requests : Dev(q) = d /\ i \in {mem[q].refresh, mem[q].stored}
OneDevice == \A i \in Nat \ {NoCookie}, d, e \in Devices : Has(d, i) /\ Has(e, i) => d = e

\* Nobody else knows a token before the answer with it arrives.
StoredIsNew == \A q \in Requests : mem[q].stored # NoCookie =>
    /\ rows[mem[q].stored].is # "used"
    /\ \A d \in Devices : jar[d].refresh # mem[q].stored
    /\ \A s \in Requests : mem[s].refresh # mem[q].stored /\ (s # q => mem[s].stored # mem[q].stored)

\* Two renewals with one token overlap, and both have noted it.
TwoOverlap == \A q, r \in Requests :
    q # r /\ mem[q].refresh = mem[r].refresh /\ mem[r].refresh # NoCookie => "overlap" \in marks[r]

\* A token in the jar that was used is being renewed, or its answer never came.
UsedByOne == \A d \in Devices : LET i == jar[d].refresh IN
    i # NoCookie /\ rows[i].is = "used" =>
        i \in wasted \/ \E q \in Requests : mem[q].refresh = i /\ mem[q].stage = "issue"
UsedMeanwhile == \A r \in Requests : LET i == mem[r].refresh IN
    pc[r] \in {"find", "mark"} /\ rows[i].is = "used" => i \in wasted \/ "overlap" \in marks[r]

HandInv == Refs /\ RefSteps /\ OneDevice /\ StoredIsNew /\ TwoOverlap /\ UsedByOne /\ UsedMeanwhile

-----------------------------------------------------------------------------
\* What a step of r does with the tokens: nothing, or it takes the one of the jar, stores
\* a new one, brings it to the jar or lets go of it.

RefAs(r, i, j) == mem'[r].refresh = i /\ mem'[r].stored = j
JarsAs(r, j) == \A d \in Devices : jar'[d].refresh = IF d = Dev(r) THEN j ELSE jar[d].refresh

Keeps(r) ==
    /\ RefAs(r, mem[r].refresh, mem[r].stored) /\ jar' = jar /\ wasted' = wasted
    /\ mem[r].refresh # NoCookie =>
          /\ marks[r] \subseteq marks'[r]
          /\ mem[r].stage = "issue" => mem'[r].stage = "issue"
          /\ pc'[r] = "mark" \/ (mem'[r].stage = "issue" /\ pc'[r] \in IssueSteps)
    /\ pc'[r] \in {"find", "mark"} => pc[r] \in {"find", "mark"}
    /\ pc[r] \in {"look", "prune", "answer"} => pc'[r] \in {"look", "prune", "answer"}
    /\ \/ rows' = rows
       \/ MarkUsed(r) /\ mem'[r].stage = "issue" /\ pc'[r] = "permissions"
       \/ Prune(r) \/ Revoke(r)
Takes(r) ==
    /\ pc[r] = "refused" /\ pc'[r] = "find" /\ jar[Dev(r)].refresh # NoCookie
    /\ RefAs(r, jar[Dev(r)].refresh, mem[r].stored)
    /\ rows' = rows /\ jar' = jar /\ wasted' = wasted
    /\ \A q \in Requests \ {r} : Renewing(q) /\ Dev(q) = Dev(r) =>
          "overlap" \in marks'[q] /\ "overlap" \in marks'[r]
Stores(r) ==
    /\ pc[r] = "insert" /\ pc'[r] = "look"
    /\ RefAs(r, mem[r].refresh, Len(rows) + 1) /\ mem'[r].stage = "issue"
    /\ rows' = Append(rows, [is |-> "live", of |-> mem[r].refresh,
                             near |-> Cardinality({q \in Requests \ {r} : pc[q] = "look"})])
    /\ jar' = jar /\ wasted' = wasted /\ marks' = marks
Gives(r) ==
    /\ pc[r] = "answer" /\ pc'[r] \in {"version", "ok"}
    /\ RefAs(r, NoCookie, NoCookie) /\ JarsAs(r, mem[r].stored)
    /\ rows' = rows /\ wasted' = wasted
Leaves(r) ==
    /\ pc'[r] \notin {"find", "mark"}
    /\ RefAs(r, NoCookie, NoCookie)
    /\ \E j \in {NoCookie, jar[Dev(r)].refresh} : JarsAs(r, j)
    /\ rows' = rows /\ wasted' \in {wasted, wasted \cup {mem[r].refresh}}
    /\ mem[r].refresh # NoCookie /\ mem[r].stage = "issue" => mem[r].refresh \in wasted'

LEMMA LeavesAtEnd ==
    ASSUME Types, NEW r \in Requests, NEW x \in Over, End(r, x), rows' = rows,
           \E j \in {NoCookie, jar[Dev(r)].refresh} : JarsAs(r, j),
           wasted' \in {wasted, wasted \cup {mem[r].refresh}},
           mem[r].refresh # NoCookie /\ mem[r].stage = "issue" => mem[r].refresh \in wasted'
    PROVE  Leaves(r)
  BY DEF Types, ProcTypes, End, Goto, Over, Leaves, RefAs, Blank

LEMMA HandMoves ==
    ASSUME Types, RefSteps, NEW r \in Requests, Step(r)
    PROVE  Keeps(r) \/ Takes(r) \/ Stores(r) \/ Gives(r) \/ Leaves(r)
<1>0. /\ mem \in [Requests -> Mem] /\ mem[r] \in Mem /\ pc \in [Requests -> Places]
      /\ marks \in [Requests -> SUBSET Marks] /\ MemOfStep(r)
      /\ jar \in [Devices -> Cookies] /\ Dev(r) \in Devices
  BY OpType DEF Types, StoreTypes, ProcTypes
<1>1. /\ mem[r].refresh # NoCookie =>
          pc[r] \in {"find", "mark"} \/ (mem[r].stage = "issue" /\ pc[r] \in IssueSteps)
      /\ mem[r].stored # NoCookie => pc[r] \in {"look", "prune", "answer"}
  BY DEF RefSteps
<1>2. jar' = jar => \E j \in {NoCookie, jar[Dev(r)].refresh} : JarsAs(r, j)
  BY DEF JarsAs
<1>3. ASSUME NEW x \in Over, End(r, x), rows' = rows, jar' = jar, wasted' = wasted,
             mem[r].refresh # NoCookie => mem[r].stage # "issue"
      PROVE  Leaves(r)
  BY <1>2, <1>3, LeavesAtEnd
<1>4. CASE Client(r)
  <2>1. CASE Send(r)
    <3>1. mem[r].refresh = NoCookie /\ mem[r].stored = NoCookie /\ pc[r] = "idle"
      BY <1>1, <2>1 DEF Send, IssueSteps
    <3>2. rows' = rows /\ jar' = jar /\ wasted' = wasted
      BY <2>1 DEF Send, store, Still
    <3>3. CASE mem' = mem /\ Goto(r, "refused")
      BY <1>0, <2>1, <3>1, <3>2, <3>3 DEF Send, Keeps, RefAs, Goto
    <3>4. CASE Hold(r, [Blank EXCEPT !.token = jar[Dev(r)].access]) /\ Goto(r, "version")
      BY <1>0, <1>2, <3>1, <3>2, <3>4 DEF Leaves, RefAs, Hold, Goto, Blank
    <3> QED
      BY <2>1, <3>3, <3>4 DEF Send
  <2>2. CASE Refused(r)
    <3>1. pc[r] = "refused" /\ mem[r].refresh = NoCookie
      BY <1>1, <2>2 DEF Refused, IssueSteps
    <3>2. CASE jar[Dev(r)].refresh = NoCookie
      BY <1>3, <2>2, <3>1, <3>2 DEF Refused, store, Still, Over
    <3>3. CASE jar[Dev(r)].refresh # NoCookie
      <4>1. RefAs(r, jar[Dev(r)].refresh, mem[r].stored) /\ pc'[r] = "find"
        BY <1>0, <2>2, <3>3 DEF Refused, RefAs, Hold, Goto, Mem
      <4>2. \A q \in Requests \ {r} : Renewing(q) /\ Dev(q) = Dev(r) =>
               "overlap" \in marks'[q] /\ "overlap" \in marks'[r]
        BY <2>2, <3>3 DEF Refused
      <4> QED
        BY <2>2, <3>1, <3>3, <4>1, <4>2 DEF Takes, Refused, store, Still
    <3> QED
      BY <3>2, <3>3
  <2>3. CASE RefusedAgain(r)
    <3>1. mem[r].refresh = NoCookie
      BY <1>1, <2>3 DEF RefusedAgain, IssueSteps
    <3> QED
      BY <1>3, <2>3, <3>1 DEF RefusedAgain, store, Still, Over
  <2>4. CASE Answer(r)
    <3>1. JarsAs(r, mem[r].stored)
      BY <1>0, <2>4 DEF Answer, JarsAs
    <3>2. RefAs(r, NoCookie, NoCookie) /\ pc'[r] \in {"version", "ok"}
      <4>1. CASE op[r].kind = "login"
        BY <1>0, <2>4, <4>1 DEF Answer, RefAs, Goto, End, Blank
      <4>2. CASE op[r].kind # "login"
        <5>1. Hold(r, [Blank EXCEPT !.token = mem[r].token, !.retried = TRUE]) /\ Goto(r, "version")
          BY <2>4, <4>2 DEF Answer
        <5> QED
          BY <1>0, <5>1 DEF RefAs, Hold, Goto, Blank
      <4> QED
        BY <4>1, <4>2
    <3> QED
      BY <2>4, <3>1, <3>2 DEF Gives, Answer, store, Still
  <2>5. CASE LoseAnswer(r)
    BY <1>2, <2>5, LeavesAtEnd DEF LoseAnswer, store, Over
  <2>6. CASE OpenPage(r)
    <3>1. mem[r].refresh = NoCookie /\ rows' = rows /\ wasted' = wasted
      BY <1>1, <2>6 DEF OpenPage, IssueSteps, store, Still
    <3>2. JarsAs(r, jar[Dev(r)].refresh)
      BY <1>0, <2>6 DEF OpenPage, JarsAs, Cookies
    <3>3. End(r, "ok") \/ End(r, "redirected")
      BY <2>6 DEF OpenPage
    <3> QED
      BY <3>1, <3>2, <3>3, LeavesAtEnd DEF Over
  <2> QED
    BY <1>4, <2>1, <2>2, <2>3, <2>4, <2>5, <2>6 DEF Client
<1>5. ASSUME rows' = rows, jar' = jar, wasted' = wasted, marks[r] \subseteq marks'[r],
             pc'[r] \notin {"find", "mark"},
             mem[r].refresh # NoCookie => mem[r].stage = "issue" /\ pc'[r] \in IssueSteps,
             pc[r] \in {"look", "prune", "answer"} => pc'[r] \in {"look", "prune", "answer"},
             mem'[r].refresh = mem[r].refresh, mem'[r].stored = mem[r].stored,
             mem'[r].stage = mem[r].stage
      PROVE  Keeps(r)
  BY <1>5 DEF Keeps, RefAs
<1>6. CASE Guard(r)
  <2>1. ASSUME NEW v, NEW ms, Learns(r, v, ms), jar' = jar, rows' = rows, wasted' = wasted,
               pc[r] \in {"version", "reading", "keep"}
        PROVE  Keeps(r) \/ Leaves(r)
    <3>1. CASE mem[r].stage = "issue"
      <4>1. mem' = [mem EXCEPT ![r] = [mem[r] EXCEPT !.tv = IF v = None THEN 0 ELSE v, !.cached = None]]
        BY <2>1, <3>1 DEF Learns, Hold
      <4>2. /\ mem'[r].refresh = mem[r].refresh /\ mem'[r].stored = mem[r].stored
            /\ mem'[r].stage = mem[r].stage
        BY <1>0, <4>1 DEF Mem
      <4>3. pc'[r] = "insert" /\ marks[r] \subseteq marks'[r]
        BY <1>0, <2>1, <3>1 DEF Learns, Goto, Mark
      <4> QED
        BY <1>5, <2>1, <3>1, <4>2, <4>3 DEF IssueSteps
    <3>2. CASE mem[r].stage # "issue" /\ End(r, "ok")
      BY <1>3, <2>1, <3>2 DEF Over
    <3>3. CASE mem[r].stage # "issue" /\ ~End(r, "ok")
      <4>1. pc'[r] \in {"refused", "revoke"} /\ marks[r] \subseteq marks'[r] /\ mem' = mem
        BY <1>0, <2>1, <3>3 DEF Learns, Goto, Mark
      <4>2. mem[r].refresh = NoCookie
        BY <1>1, <2>1, <3>3
      <4> QED
        BY <1>5, <2>1, <4>1, <4>2
    <3> QED
      BY <3>1, <3>2, <3>3
  <2>2. CASE ReadVersion(r) \/ (AskVersion(r) /\ ~(cache # None /\ cache.fresh))
    <3>1. /\ mem'[r].refresh = mem[r].refresh /\ mem'[r].stored = mem[r].stored
          /\ mem'[r].stage = mem[r].stage
      BY <1>0, <2>2 DEF ReadVersion, AskVersion, Hold, Mem
    <3>2. marks' = marks /\ pc'[r] \in {"reading", "keep"} /\ rows' = rows /\ jar' = jar /\ wasted' = wasted
      BY <1>0, <2>2 DEF ReadVersion, AskVersion, Goto, store, Still
    <3>3. pc[r] \in {"version", "reading"} /\ (mem[r].refresh # NoCookie => mem[r].stage = "issue")
      BY <1>1, <2>2 DEF ReadVersion, AskVersion
    <3> QED
      BY <1>5, <3>1, <3>2, <3>3 DEF IssueSteps
  <2>3. CASE (AskVersion(r) /\ cache # None /\ cache.fresh) \/ KeepVersion(r) \/ FailToRead(r)
    <3>1. rows' = rows /\ jar' = jar /\ wasted' = wasted /\ pc[r] \in {"version", "reading", "keep"}
      BY <2>3 DEF AskVersion, KeepVersion, FailToRead, store, Still
    <3>2. \/ Learns(r, cache.version, Tainted(cache.met))
          \/ Learns(r, mem[r].tv, {})
          \/ Learns(r, mem[r].cached, {"met"})
      BY <2>3 DEF AskVersion, KeepVersion, FailToRead
    <3> QED
      BY <2>1, <3>1, <3>2
  <2> QED
    BY <1>6, <2>2, <2>3 DEF Guard
<1>7. CASE Issue(r)
  <2>1. CASE Login(r)
    <3>1. RefAs(r, NoCookie, NoCookie) /\ pc'[r] = "permissions" /\ mem[r].refresh = NoCookie
      BY <1>0, <1>1, <2>1 DEF Login, RefAs, Hold, Goto, Blank, IssueSteps
    <3> QED
      BY <1>2, <2>1, <3>1 DEF Login, Leaves, store, Still
  <2>2. CASE FindToken(r)
    <3>1. pc[r] = "find" /\ mem[r].stage = "guard" /\ rows' = rows /\ jar' = jar /\ wasted' = wasted
      BY <1>0, <2>2 DEF FindToken, MemOfStep, store, Still
    <3>2. CASE mem[r].refresh \in Live
      BY <1>0, <2>2, <3>1, <3>2 DEF FindToken, Hold, Goto, Mem, Keeps, RefAs
    <3>3. CASE mem[r].refresh \notin Live
      BY <1>3, <2>2, <3>1, <3>3 DEF FindToken, Over
    <3> QED
      BY <3>2, <3>3
  <2>3. CASE MarkUsed(r)
    <3>1. /\ mem'[r].refresh = mem[r].refresh /\ mem'[r].stored = mem[r].stored
          /\ mem'[r].stage = "issue" /\ pc'[r] = "permissions"
      BY <1>0, <2>3 DEF MarkUsed, Hold, Goto, Mem
    <3> QED
      BY <2>3, <3>1 DEF MarkUsed, Keeps, RefAs, Still, IssueSteps
  <2>4. CASE ReadPermissions(r) \/ LookForStale(r) \/ FailToPrune(r)
    <3>1. /\ mem'[r].refresh = mem[r].refresh /\ mem'[r].stored = mem[r].stored
          /\ mem'[r].stage = mem[r].stage
      BY <1>0, <2>4 DEF ReadPermissions, LookForStale, FailToPrune, Hold, Mem
    <3>2. pc'[r] \in {"version", "answer", "prune"} /\ rows' = rows /\ jar' = jar /\ wasted' = wasted
          /\ marks' = marks
      BY <1>0, <2>4 DEF ReadPermissions, LookForStale, FailToPrune, Goto, store, Still
    <3>3. /\ pc[r] \in {"permissions", "look", "prune"} /\ mem[r].stage = "issue"
          /\ pc[r] \in {"look", "prune"} => pc'[r] \in {"prune", "answer"}
      BY <1>0, <2>4 DEF ReadPermissions, LookForStale, FailToPrune, Goto, MemOfStep
    <3> QED
      BY <1>5, <3>1, <3>2, <3>3 DEF IssueSteps
  <2>5. CASE FailToIssue(r)
    <3>1. JarsAs(r, jar[Dev(r)].refresh)
      BY <1>0, <2>5 DEF FailToIssue, JarsAs, Cookies
    <3> QED
      BY <2>5, <3>1, LeavesAtEnd DEF FailToIssue, store, Over
  <2>6. CASE InsertToken(r)
    <3>1. RefAs(r, mem[r].refresh, Len(rows) + 1) /\ mem'[r].stage = "issue" /\ pc'[r] = "look"
      BY <1>0, <2>6 DEF InsertToken, Hold, Goto, Blank, RefAs
    <3> QED
      BY <2>6, <3>1 DEF InsertToken, Stores, Still
  <2>7. CASE Prune(r)
    BY <1>0, <2>7 DEF Prune, Keeps, RefAs, Goto, Still, MemOfStep, IssueSteps
  <2> QED
    BY <1>7, <2>1, <2>2, <2>3, <2>4, <2>5, <2>6, <2>7 DEF Issue
<1>8. CASE Logout(r)
  <2>1. CASE Revoke(r)
    BY <1>0, <1>1, <2>1 DEF Revoke, Keeps, RefAs, Goto, Still, IssueSteps
  <2>2. CASE ClearCookies(r)
    <3>1. JarsAs(r, NoCookie)
      BY <1>0, <2>2 DEF ClearCookies, JarsAs
    <3>2. mem[r].refresh = NoCookie
      BY <1>1, <2>2 DEF ClearCookies, IssueSteps
    <3> QED
      BY <2>2, <3>1, <3>2, LeavesAtEnd DEF ClearCookies, store, Still, Over
  <2> QED
    BY <1>8, <2>1, <2>2 DEF Logout
<1>9. CASE EditOf(r)
  <2>1. mem[r].refresh = NoCookie
    <3>1. pc[r] \in EditSteps \cup {"idle"}
      BY <1>9, EditMoves DEF InEdit
    <3> QED
      BY <1>1, <3>1 DEF EditSteps, IssueSteps
  <2>2. rows' = rows /\ jar' = jar /\ wasted' = wasted
    BY <1>9 DEF EditOf, Strip, Grant, FindMembers, OpenUser, ReloadUser, SaveUser, Bump, DropEntry,
       Begins, Still, store
  <2>3. pc'[r] \notin {"find", "mark"} /\ pc[r] \notin {"look", "prune", "answer"}
    BY <1>9, EditMoves DEF EditSteps, InEdit
  <2>4. CASE mem' = mem
    BY <2>1, <2>2, <2>3, <2>4 DEF Keeps, RefAs
  <2>5. CASE End(r, "ok")
    BY <1>3, <2>1, <2>2, <2>5 DEF Over
  <2>6. CASE OpenUser(r)
    BY <1>0, <1>2, <2>1, <2>2, <2>3, <2>6 DEF OpenUser, Hold, Blank, Leaves, RefAs
  <2>7. CASE ReloadUser(r)
    BY <1>0, <2>1, <2>2, <2>3, <2>7 DEF ReloadUser, Hold, Mem, Keeps, RefAs
  <2> QED
    BY <1>9, <2>4, <2>5, <2>6, <2>7 DEF EditOf, Strip, Grant, FindMembers, SaveUser, Bump, DropEntry
<1> QED
  BY <1>4, <1>6, <1>7, <1>8, <1>9 DEF Step

\* What a step of r does with the rows there are.
LEMMA RowMoves ==
    ASSUME Types, NEW r \in Requests, Step(r)
    PROVE  /\ Len(rows) \in Nat /\ Len(rows') \in Nat /\ DOMAIN rows = 1..Len(rows)
           /\ Len(rows') = IF Stores(r) THEN Len(rows) + 1 ELSE Len(rows)
           /\ \A i \in 1..Len(rows) :
                /\ rows'[i].near = rows[i].near /\ rows'[i].of = rows[i].of
                /\ \/ rows'[i].is = rows[i].is \/ rows'[i].is = "out"
                   \/ rows'[i].is = "used" /\ MarkUsed(r) /\ i = mem[r].refresh
                   \/ rows'[i].is = "pruned" /\ Prune(r) /\ i \in mem[r].doomed
<1> DEFINE n == Len(rows)
<1>1. n \in Nat /\ DOMAIN rows = 1..n /\ rows \in Seq(Renewal) /\ \A i \in 1..n : rows[i] \in Renewal
  BY RowsType, ElementOfSeq DEF Types, StoreTypes
<1>2. Types'
  BY TypesStep DEF Next, Step
<1>3. ASSUME DOMAIN rows' = 1..n PROVE Len(rows') = n
  BY <1>1, <1>2, <1>3 DEF Types, StoreTypes
<1>4. CASE MarkUsed(r)
  <2> DEFINE j == mem[r].refresh
  <2>1. rows' = [rows EXCEPT ![j].is = IF rows[j].is = "live" THEN "used" ELSE rows[j].is]
    BY <1>4 DEF MarkUsed
  <2>2. Len(rows') = n
    BY <1>1, <1>3, <2>1
  <2>3. \A i \in 1..n : /\ rows'[i].near = rows[i].near /\ rows'[i].of = rows[i].of
                        /\ rows'[i].is = rows[i].is \/ (rows'[i].is = "used" /\ i = j)
    BY <1>1, <2>1 DEF Renewal
  <2>4. ~Stores(r)
    BY <1>4 DEF MarkUsed, Stores
  <2> QED
    BY <1>1, <1>4, <2>2, <2>3, <2>4
<1>5. CASE Prune(r)
  <2>1. rows' = [i \in DOMAIN rows |-> IF i \in mem[r].doomed /\ rows[i].is = "live"
                                      THEN [rows[i] EXCEPT !.is = "pruned"] ELSE rows[i]]
    BY <1>5 DEF Prune
  <2>2. Len(rows') = n
    BY <1>1, <1>3, <2>1
  <2>3. \A i \in 1..n : /\ rows'[i].near = rows[i].near /\ rows'[i].of = rows[i].of
                        /\ rows'[i].is = rows[i].is \/ (rows'[i].is = "pruned" /\ i \in mem[r].doomed)
    BY <1>1, <2>1 DEF Renewal
  <2>4. ~Stores(r)
    BY <1>5 DEF Prune, Stores
  <2> QED
    BY <1>1, <1>5, <2>2, <2>3, <2>4
<1>6. CASE Revoke(r)
  <2>1. rows' = [i \in DOMAIN rows |-> IF i \in Live THEN [rows[i] EXCEPT !.is = "out"] ELSE rows[i]]
    BY <1>6 DEF Revoke
  <2>2. Len(rows') = n
    BY <1>1, <1>3, <2>1
  <2>3. \A i \in 1..n : /\ rows'[i].near = rows[i].near /\ rows'[i].of = rows[i].of
                        /\ rows'[i].is = rows[i].is \/ rows'[i].is = "out"
    BY <1>1, <2>1 DEF Renewal
  <2>4. ~Stores(r)
    BY <1>6 DEF Revoke, Stores
  <2> QED
    BY <1>1, <2>2, <2>3, <2>4
<1>7. CASE InsertToken(r)
  <2>1. Stores(r)
    <3>1. mem'[r].refresh = mem[r].refresh /\ mem'[r].stored = n + 1 /\ mem'[r].stage = "issue" /\ pc'[r] = "look"
      BY <1>7 DEF InsertToken, Hold, Goto, Blank, Types, ProcTypes
    <3> QED
      BY <1>7, <3>1 DEF InsertToken, Stores, RefAs, Still
  <2>2. Len(rows') = n + 1 /\ \A i \in 1..n : rows'[i] = rows[i]
    BY <1>1, <2>1 DEF Stores
  <2> QED
    BY <1>1, <2>1, <2>2
<1>8. CASE rows' = rows
  <2>1. ~Stores(r)
    <3>1. ASSUME Stores(r) PROVE Len(rows') = n + 1
      BY <1>1, <3>1 DEF Stores
    <3>2. Len(rows') = n
      BY <1>8
    <3> HIDE DEF n
    <3> QED
      BY <1>1, <3>1, <3>2
  <2> QED
    BY <1>1, <1>8, <2>1
<1>9. MarkUsed(r) \/ Prune(r) \/ Revoke(r) \/ InsertToken(r) \/ rows' = rows
  BY DEF Step, Client, Guard, Issue, Logout, EditOf, Send, OpenPage, Refused, RefusedAgain, Answer, LoseAnswer,
     AskVersion, ReadVersion, KeepVersion, FailToRead, Login, FindToken, ReadPermissions,
     FailToIssue, LookForStale, FailToPrune, ClearCookies, Strip, Grant,
     FindMembers, OpenUser, ReloadUser, SaveUser, Bump, DropEntry, store
<1> QED
  BY <1>4, <1>5, <1>6, <1>7, <1>8, <1>9

LEMMA HandInvStep ==
    ASSUME Types, HandInv, NEW r \in Requests, Step(r)
    PROVE  HandInv'
<1> USE DEF HandInv
<1> DEFINE n == Len(rows)
<1>1. /\ Dev(r) \in Devices
      /\ \A d \in Devices : jar[d].refresh \in Nat /\ jar[d].refresh <= n
      /\ \A q \in Requests : /\ mem[q].refresh \in Nat /\ mem[q].stored \in Nat
                             /\ mem[q].refresh <= n /\ mem[q].stored <= n
  BY OpType DEF Types, StoreTypes, ProcTypes, Cookies, Mem, Refs
<1>2. \A s \in Requests \ {r} : pc'[s] = pc[s] /\ mem'[s] = mem[s] /\ marks[s] \subseteq marks'[s]
  BY Frame
<1>3. \A s \in Requests : Dev(s)' = Dev(s)
  BY Frame DEF Dev
<1>4. /\ n \in Nat /\ Len(rows') \in Nat /\ n <= Len(rows') /\ (Stores(r) => Len(rows') = n + 1)
      /\ \A i \in 1..n : rows'[i].is = "used" => rows[i].is = "used" \/ (MarkUsed(r) /\ i = mem[r].refresh)
  BY RowMoves
<1>5. Keeps(r) \/ Takes(r) \/ Stores(r) \/ Gives(r) \/ Leaves(r)
  BY HandMoves
<1>6. MarkUsed(r) => Keeps(r) /\ mem'[r].stage = "issue" /\ pc'[r] = "permissions" /\ pc[r] = "mark"
  <2> SUFFICES ASSUME MarkUsed(r) PROVE Keeps(r) /\ mem'[r].stage = "issue" /\ pc'[r] = "permissions"
    BY DEF MarkUsed
  <2>1. pc[r] = "mark" /\ pc'[r] = "permissions" /\ mem[r] \in Mem /\ mem' = [mem EXCEPT ![r] = [mem[r] EXCEPT !.stage = "issue"]]
    BY DEF MarkUsed, Goto, Hold, Types, ProcTypes
  <2>2. mem'[r].stage = "issue" /\ mem'[r].refresh = mem[r].refresh /\ mem[r].refresh # NoCookie
    BY <2>1 DEF Types, ProcTypes, Mem, RefSteps
  <2> QED
    BY <1>5, <2>1, <2>2 DEF Takes, Stores, Gives, Leaves, RefAs
<1> HIDE DEF n
<1> USE DEF NoCookie
\* The token a request holds is the one it held, the one of the jar, or a new one.
<1>7. /\ mem'[r].refresh \in {mem[r].refresh, jar[Dev(r)].refresh, 0}
      /\ mem'[r].stored \in {mem[r].stored, 0} \/ (Stores(r) /\ mem'[r].stored = n + 1)
      /\ \A d \in Devices : jar'[d].refresh \in {jar[d].refresh, 0}
            \/ (Gives(r) /\ d = Dev(r) /\ jar'[d].refresh = mem[r].stored)
      /\ wasted \subseteq wasted' /\ wasted' \subseteq wasted \cup {mem[r].refresh}
  BY <1>1, <1>5 DEF Keeps, Takes, Stores, Gives, Leaves, RefAs, JarsAs, n
<1>8. Refs'
  <2>1. \A d \in Devices : jar'[d].refresh <= Len(rows')
    BY <1>1, <1>4, <1>7
  <2>2. mem'[r].refresh <= Len(rows') /\ mem'[r].stored <= Len(rows')
    BY <1>1, <1>4, <1>7
  <2>3. \A q \in Requests : mem'[q].refresh <= Len(rows') /\ mem'[q].stored <= Len(rows')
    BY <1>1, <1>2, <1>4, <2>2
  <2>4. wasted' \subseteq 0..Len(rows')
    BY <1>1, <1>4, <1>7 DEF Refs, n
  <2> QED
    BY <2>1, <2>3, <2>4 DEF Refs
<1>9. RefSteps'
  <2> SUFFICES ASSUME NEW q \in Requests
               PROVE  /\ mem'[q].refresh # 0 =>
                           pc'[q] \in {"find", "mark"} \/ (mem'[q].stage = "issue" /\ pc'[q] \in IssueSteps)
                      /\ pc'[q] \in {"find", "mark"} => mem'[q].refresh # 0
                      /\ mem'[q].stored # 0 => pc'[q] \in {"look", "prune", "answer"}
    BY DEF RefSteps
  <2>1. CASE q # r
    BY <1>2, <2>1 DEF RefSteps
  <2>2. CASE q = r
    BY <1>5, <2>2 DEF RefSteps, Keeps, Takes, Stores, Gives, Leaves, RefAs, IssueSteps
  <2> QED
    BY <2>1, <2>2
\* Who has a token had it before, or it is new.
<1>10. ASSUME NEW d \in Devices, NEW i \in Nat \ {0}, Has(d, i)'
       PROVE  Has(d, i) \/ (Stores(r) /\ i = n + 1 /\ d = Dev(r))
  <2>1. CASE jar'[d].refresh = i
    BY <1>1, <1>7, <2>1 DEF Has
  <2>2. ASSUME NEW q \in Requests, Dev(q) = d, i \in {mem'[q].refresh, mem'[q].stored}
        PROVE  Has(d, i) \/ (Stores(r) /\ i = n + 1 /\ d = Dev(r))
    <3>1. CASE q # r
      BY <1>2, <2>2, <3>1 DEF Has
    <3>2. CASE q = r
      BY <1>1, <1>7, <2>2, <3>2 DEF Has
    <3> QED
      BY <3>1, <3>2
  <2> QED
    BY <1>3, <1>10, <2>1, <2>2 DEF Has
<1>11. \A d \in Devices : ~Has(d, n + 1)
  BY <1>1, <1>4 DEF Has
<1>12. OneDevice'
  BY <1>10, <1>11 DEF OneDevice
<1>13. StoredIsNew'
  <2> SUFFICES ASSUME NEW q \in Requests, mem'[q].stored # 0
               PROVE  /\ rows'[mem'[q].stored].is # "used"
                      /\ \A d \in Devices : jar'[d].refresh # mem'[q].stored
                      /\ \A s \in Requests : /\ mem'[s].refresh # mem'[q].stored
                                             /\ s # q => mem'[s].stored # mem'[q].stored
    BY DEF StoredIsNew
  <2> DEFINE j == mem'[q].stored
  <2>1. CASE Stores(r) /\ q = r
    <3>1. j = n + 1
      BY <2>1 DEF Stores, RefAs, n
    <3>2. rows'[j].is = "live"
      BY <1>4, <2>1, <3>1 DEF Stores, Types, StoreTypes, n
    <3>3. mem'[r].refresh # j /\ \A d \in Devices : jar'[d].refresh # j
      BY <1>1, <1>4, <2>1, <3>1 DEF Stores, RefAs
    <3>4. \A s \in Requests \ {r} : mem'[s].refresh # j /\ mem'[s].stored # j
      BY <1>1, <1>2, <1>4, <3>1
    <3> QED
      BY <2>1, <3>2, <3>3, <3>4
  <2>2. CASE ~(Stores(r) /\ q = r)
    <3>1. j = mem[q].stored /\ j \in Nat \ {0} /\ j \in 1..n
      BY <1>1, <1>2, <1>4, <1>7, <2>2
    <3>2. /\ rows[j].is # "used"
          /\ \A d \in Devices : jar[d].refresh # j
          /\ \A s \in Requests : mem[s].refresh # j /\ (s # q => mem[s].stored # j)
      BY <3>1 DEF StoredIsNew
    <3>3. rows'[j].is # "used"
      BY <1>4, <3>1, <3>2
    <3>4. \A d \in Devices : jar'[d].refresh # j
      <4>1. ASSUME Gives(r), mem[r].stored = j PROVE FALSE
        <5>1. mem'[r].stored = 0
          BY <4>1 DEF Gives, RefAs
        <5>2. q # r
          BY <5>1
        <5> QED
          BY <3>2, <4>1, <5>2
      <4> QED
        BY <1>7, <3>1, <3>2, <4>1
    <3>5. mem'[r].refresh # j /\ (r # q => mem'[r].stored # j)
      BY <1>1, <1>4, <1>7, <3>1, <3>2
    <3>6. \A s \in Requests : mem'[s].refresh # j /\ (s # q => mem'[s].stored # j)
      BY <1>2, <3>2, <3>5
    <3> QED
      BY <3>3, <3>4, <3>6
  <2> QED
    BY <2>1, <2>2
\* Two devices never hold one token.
<1>14. ASSUME NEW q \in Requests, NEW d \in Devices, mem[q].refresh # 0, mem[q].refresh = jar[d].refresh
       PROVE  Dev(q) = d /\ (pc[q] \notin {"find", "mark"} => mem[q].stage = "issue") /\ Renewing(q)
  <2>1. Has(Dev(q), mem[q].refresh) /\ Has(d, mem[q].refresh) /\ Dev(q) \in Devices
    BY <1>14, OpType DEF Has, Types
  <2>2. mem[q].refresh \in Nat \ {0}
    BY <1>1, <1>14
  <2>3. Dev(q) = d
    BY <2>1, <2>2 DEF OneDevice
  <2>4. pc[q] \in {"find", "mark"} \/ (mem[q].stage = "issue" /\ pc[q] \in IssueSteps)
    BY <1>14 DEF RefSteps
  <2> QED
    BY <2>3, <2>4 DEF Renewing, IssueSteps, InFlight, Over
<1>15. TwoOverlap'
  <2> SUFFICES ASSUME NEW q \in Requests, NEW s \in Requests, q # s,
                      mem'[q].refresh = mem'[s].refresh, mem'[s].refresh # 0
               PROVE  "overlap" \in marks'[s]
    BY DEF TwoOverlap
  <2>1. ASSUME NEW u \in Requests \ {r}, Takes(r), mem'[u].refresh = mem'[r].refresh
        PROVE  "overlap" \in marks'[u] /\ "overlap" \in marks'[r]
    <3>1. mem[u].refresh = jar[Dev(r)].refresh /\ mem[u].refresh # 0
      BY <1>2, <2>1 DEF Takes, RefAs
    <3>2. Renewing(u) /\ Dev(u) = Dev(r)
      BY <1>1, <1>14, <3>1
    <3> QED
      BY <2>1, <3>2 DEF Takes
  <2>2. CASE Takes(r) /\ r \in {q, s}
    BY <2>1, <2>2
  <2>3. CASE ~(Takes(r) /\ r \in {q, s})
    <3>1. \A u \in {q, s} : mem'[u].refresh = mem[u].refresh /\ marks[u] \subseteq marks'[u]
      <4>1. CASE r \in {q, s}
        <5>1. mem'[r].refresh # 0
          BY <4>1
        <5>2. Keeps(r) \/ Stores(r)
          BY <1>5, <2>3, <4>1, <5>1 DEF Gives, Leaves, RefAs
        <5>3. mem'[r].refresh = mem[r].refresh /\ marks[r] \subseteq marks'[r]
          BY <5>1, <5>2 DEF Keeps, Stores, RefAs
        <5> QED
          BY <1>2, <5>3
      <4>2. CASE r \notin {q, s}
        BY <1>2, <4>2
      <4> QED
        BY <4>1, <4>2
    <3> QED
      BY <3>1 DEF TwoOverlap
  <2> QED
    BY <2>2, <2>3
<1>16. UsedByOne'
  <2> SUFFICES ASSUME NEW d \in Devices, jar'[d].refresh # 0, rows'[jar'[d].refresh].is = "used",
                      jar'[d].refresh \notin wasted'
               PROVE  \E q \in Requests : mem'[q].refresh = jar'[d].refresh /\ mem'[q].stage = "issue"
    BY DEF UsedByOne
  <2> DEFINE i == jar'[d].refresh
  <2>1. i \in 1..n
    BY <1>1, <1>4, <1>7
  <2>2. i = jar[d].refresh /\ ~(Gives(r) /\ d = Dev(r))
    <3>1. ASSUME Gives(r), d = Dev(r) PROVE FALSE
      <4>1. i = mem[r].stored
        BY <3>1 DEF Gives, JarsAs
      <4>2. rows[i].is # "used" /\ rows' = rows
        BY <3>1, <4>1 DEF StoredIsNew, Gives
      <4> QED
        BY <4>2
    <3> QED
      BY <1>7, <3>1
  <2>3. CASE MarkUsed(r) /\ i = mem[r].refresh
    <3>1. mem'[r].refresh = i /\ mem'[r].stage = "issue"
      BY <1>6, <2>3 DEF Keeps, RefAs
    <3> QED
      BY <3>1
  <2>4. CASE ~(MarkUsed(r) /\ i = mem[r].refresh)
    <3>1. rows[i].is = "used" /\ i \notin wasted
      BY <1>4, <1>7, <2>1, <2>4
    <3>2. PICK q \in Requests : mem[q].refresh = i /\ mem[q].stage = "issue"
      BY <2>2, <3>1 DEF UsedByOne
    <3>3. CASE q # r
      BY <1>2, <3>2, <3>3
    <3>4. CASE q = r
      <4>1. Dev(r) = d
        BY <1>14, <2>2, <3>2, <3>4
      <4>2. ~Gives(r) /\ ~Leaves(r)
        BY <2>2, <3>2, <3>4, <4>1 DEF Leaves
      <4>3. pc[r] # "refused"
        BY <3>2, <3>4 DEF RefSteps, IssueSteps
      <4>4. Keeps(r) \/ Stores(r)
        BY <1>5, <4>2, <4>3 DEF Takes
      <4> QED
        BY <3>2, <3>4, <4>4 DEF Keeps, Stores, RefAs
    <3> QED
      BY <3>3, <3>4
  <2> QED
    BY <2>3, <2>4
<1>17. UsedMeanwhile'
  <2> SUFFICES ASSUME NEW s \in Requests, pc'[s] \in {"find", "mark"},
                      rows'[mem'[s].refresh].is = "used", mem'[s].refresh \notin wasted'
               PROVE  "overlap" \in marks'[s]
    BY DEF UsedMeanwhile
  <2> DEFINE i == mem'[s].refresh
  <2>0. i # 0
    BY <1>9 DEF RefSteps
  <2>1. CASE s = r /\ Takes(r)
    <3>1. i = jar[Dev(r)].refresh /\ rows[i].is = "used" /\ i \notin wasted
      BY <2>1 DEF Takes, RefAs
    <3>2. PICK q \in Requests : mem[q].refresh = i /\ mem[q].stage = "issue"
      BY <1>1, <2>0, <3>1 DEF UsedByOne
    <3>3. Renewing(q) /\ Dev(q) = Dev(r)
      BY <1>1, <1>14, <2>0, <3>1, <3>2
    <3>4. q # r
      BY <2>0, <2>1, <3>2 DEF Takes, RefSteps, IssueSteps
    <3> QED
      BY <2>1, <3>3, <3>4 DEF Takes
  <2>2. CASE ~(s = r /\ Takes(r))
    <3>1. /\ i = mem[s].refresh /\ pc[s] \in {"find", "mark"} /\ marks[s] \subseteq marks'[s]
          /\ s = r => Keeps(r)
      <4>1. CASE s # r
        BY <1>2, <4>1
      <4>2. CASE s = r
        <5>1. Keeps(r)
          BY <1>5, <2>2, <4>2 DEF Stores, Gives, Leaves
        <5> QED
          BY <2>0, <4>2, <5>1 DEF Keeps, RefAs
      <4> QED
        BY <4>1, <4>2
    <3>2. i \in 1..n
      BY <1>1, <1>4, <2>0, <3>1
    <3>3. CASE rows[i].is = "used"
      BY <1>7, <3>1, <3>3 DEF UsedMeanwhile
    <3>4. CASE rows[i].is # "used"
      <4>1. MarkUsed(r) /\ i = mem[r].refresh
        BY <1>4, <3>2, <3>4
      <4>2. s # r
        BY <1>6, <4>1
      <4> QED
        BY <2>0, <3>1, <4>1, <4>2 DEF TwoOverlap
    <3> QED
      BY <3>3, <3>4
  <2> QED
    BY <2>1, <2>2
<1> QED
  BY <1>8, <1>9, <1>12, <1>13, <1>15, <1>16, <1>17

LEMMA HandInvInit == Init => HandInv
<1> SUFFICES ASSUME Init PROVE HandInv
  OBVIOUS
<1>1. Types
  BY TypesInit
<1>2. /\ Len(rows) \in Nat /\ DOMAIN rows = 1..Len(rows)
      /\ \A d \in Devices : jar[d].refresh \in 1..Len(rows)
      /\ \A d, e \in Devices : jar[d].refresh = jar[e].refresh => d = e
  <2>1. Len(rows) \in Nat /\ DOMAIN rows = 1..Len(rows)
    BY <1>1, RowsType DEF Types, StoreTypes
  <2>2. jar \in [Devices -> {[access |-> FirstToken, refresh |-> i] : i \in DOMAIN rows}]
    BY DEF Init
  <2>3. ASSUME NEW d \in Devices
        PROVE  jar[d].refresh \in DOMAIN rows /\ jar[d] = [access |-> FirstToken, refresh |-> jar[d].refresh]
    <3>1. PICK i \in DOMAIN rows : jar[d] = [access |-> FirstToken, refresh |-> i]
      BY <2>2, <2>3
    <3> QED
      BY <3>1
  <2>4. ASSUME NEW d \in Devices, NEW e \in Devices, jar[d].refresh = jar[e].refresh PROVE d = e
    BY <2>3, <2>4 DEF Init
  <2>5. \A d \in Devices : jar[d].refresh \in 1..Len(rows)
    BY <2>1, <2>3
  <2> QED
    BY <2>1, <2>4, <2>5
<1>3. \A i \in DOMAIN rows : rows[i].is = "live"
  BY DEF Init
<1>4. wasted = {} /\ \A q \in Requests : mem[q].refresh = 0 /\ mem[q].stored = 0 /\ pc[q] = "idle"
  BY DEF Init, Blank, NoCookie
<1>5. Refs
  <2>1. \A d \in Devices : jar[d].refresh <= Len(rows)
    BY <1>2
  <2>2. 0 <= Len(rows)
    BY <1>2
  <2> QED
    BY <1>4, <2>1, <2>2 DEF Refs
<1>6. OneDevice
  <2>1. ASSUME NEW d \in Devices, NEW i \in Nat \ {0}, Has(d, i) PROVE jar[d].refresh = i
    BY <1>4, <2>1 DEF Has
  <2> QED
    BY <1>2, <2>1 DEF OneDevice, NoCookie
<1>7. UsedByOne
  BY <1>2, <1>3 DEF UsedByOne
<1> QED
  BY <1>4, <1>5, <1>6, <1>7 DEF HandInv, RefSteps, StoredIsNew, TwoOverlap, UsedMeanwhile, NoCookie

LEMMA HandInvCrash ==
    ASSUME Types, HandInv, Crash
    PROVE  HandInv'
<1> USE DEF HandInv
<1>1. /\ rows' = rows /\ jar' = jar /\ op' = op
      /\ wasted' = wasted \cup {mem[r].refresh : r \in {q \in Requests : Renewing(q)}}
      /\ \A q \in Requests : mem'[q].refresh = 0 /\ mem'[q].stored = 0 /\ pc'[q] \in Over \cup {"idle"}
  BY DEF Crash, Blank, NoCookie, Types, ProcTypes, InFlight, Over
<1>2. /\ Len(rows) \in Nat
      /\ \A d \in Devices : jar[d].refresh \in Nat /\ jar[d].refresh <= Len(rows)
      /\ \A q \in Requests : mem[q].refresh \in Nat /\ mem[q].refresh <= Len(rows)
      /\ wasted \subseteq 0..Len(rows)
  BY RowsType DEF Types, StoreTypes, ProcTypes, Cookies, Mem, Refs
<1>3. Refs'
  <2>1. \A q \in Requests : mem[q].refresh \in 0..Len(rows)
    BY <1>2
  <2>2. wasted' \subseteq 0..Len(rows')
    BY <1>1, <1>2, <2>1
  <2> QED
    BY <1>1, <1>2, <2>2 DEF Refs
<1>4. RefSteps' /\ StoredIsNew' /\ TwoOverlap' /\ UsedMeanwhile'
  BY <1>1 DEF RefSteps, StoredIsNew, TwoOverlap, UsedMeanwhile, NoCookie, Over
<1>5. OneDevice'
  <2>1. ASSUME NEW d \in Devices, NEW i \in Nat \ {0}, Has(d, i)' PROVE Has(d, i)
    BY <1>1, <2>1 DEF Has
  <2> QED
    BY <2>1 DEF OneDevice, NoCookie
<1>6. UsedByOne'
  <2> SUFFICES ASSUME NEW d \in Devices, jar[d].refresh # 0, rows[jar[d].refresh].is = "used",
                      jar[d].refresh \notin wasted
               PROVE  jar[d].refresh \in wasted'
    BY <1>1 DEF UsedByOne, NoCookie
  <2>1. PICK q \in Requests : mem[q].refresh = jar[d].refresh /\ mem[q].stage = "issue"
    BY DEF UsedByOne, NoCookie
  <2>2. Renewing(q)
    BY <2>1 DEF RefSteps, Renewing, InFlight, IssueSteps, Over, NoCookie
  <2> QED
    BY <1>1, <2>1, <2>2
<1> QED
  BY <1>3, <1>4, <1>5, <1>6

(***************************************************************************)
(* Which tokens are too many.                                              *)
(***************************************************************************)

\* A token for which another was given is in the table, and renews no more; nor does the
\* one for which another is about to be given.  The one that is on its way is nobody's yet.
GivenUp ==
    /\ \A k \in DOMAIN rows : /\ rows[k].of \in 0..Len(rows)
                              /\ rows[k].of # NoCookie => rows[rows[k].of].is # "live"
    /\ \A q \in Requests : mem[q].stage = "issue" /\ mem[q].refresh # NoCookie =>
          rows[mem[q].refresh].is # "live"
    /\ \A q \in Requests, k \in DOMAIN rows : mem[q].stored # NoCookie => rows[k].of # mem[q].stored

\* What is stored while another looks for those that are too many has it near.
NearOnes == \A q \in Requests, i \in DOMAIN rows : pc[q] = "look" /\ i > mem[q].stored => rows[i].near >= 1
DoomedCrowded == \A q \in Requests : pc[q] = "prune" =>
    \A i \in mem[q].doomed : i \in DOMAIN rows /\ Crowded(i)
PrunedCrowded == \A i \in DOMAIN rows : rows[i].is = "pruned" => Crowded(i)

PruneInv == GivenUp /\ NearOnes /\ DoomedCrowded /\ PrunedCrowded

LEMMA PartCount ==
    ASSUME NEW n \in Nat, NEW S, S \subseteq 1..n
    PROVE  IsFiniteSet(S) /\ Cardinality(S) \in Nat
<1>1. IsFiniteSet(1..n)
  BY FS_Interval
<1> QED
  BY <1>1, FS_Subset, FS_CardinalityType

\* What renews is the last of its session.
LEMMA LiveAreTips ==
    ASSUME Types, GivenUp
    PROVE  Live \subseteq Tips
<1> SUFFICES ASSUME NEW j \in Live, NEW k \in DOMAIN rows, rows[k].of = j PROVE FALSE
  BY DEF Tips, Live
<1>1. DOMAIN rows = 1..Len(rows) /\ j \in 1..Len(rows) /\ rows[j].is = "live"
  BY RowsType DEF Types, StoreTypes, Live
<1> QED
  BY <1>1 DEF GivenUp, NoCookie

\* Stale takes nobody of whom there are not as many as there may be.
LEMMA StaleIsCrowded ==
    ASSUME Types, HandInv, GivenUp, NearOnes, NEW r \in Requests, pc[r] = "look", NEW i \in Stale(r)
    PROVE  i \in DOMAIN rows /\ Crowded(i)
<1> DEFINE n == Len(rows)  s == mem[r].stored  S == {j \in Live \ {s} : j > i}
<1>1. n \in Nat /\ DOMAIN rows = 1..n /\ s \in Nat /\ s <= n
  BY RowsType DEF Types, StoreTypes, ProcTypes, Mem, HandInv, Refs
<1>2. i \in 1..n /\ i # s /\ Cardinality(S) >= MaxLive - 1
  BY <1>1 DEF Stale, Live
<1>3. S \subseteq Newer(i) /\ s \notin S
  BY LiveAreTips DEF Newer
<1>4. Newer(i) \subseteq 1..n /\ S \subseteq 1..n
  BY <1>1, <1>3 DEF Newer, Tips
<1>5. rows[i].near \in Nat
  <2>1. rows \in Seq(Renewal) /\ i \in 1..Len(rows)
    BY <1>1, <1>2 DEF Types, StoreTypes
  <2>2. rows[i] \in Renewal
    BY <2>1, ElementOfSeq
  <2> QED
    BY <2>2 DEF Renewal
<1>6. MaxLive \in Nat
  BY MaxLiveAssumption
<1>7. /\ IsFiniteSet(S) /\ Cardinality(S) \in Nat
      /\ IsFiniteSet(Newer(i)) /\ Cardinality(Newer(i)) \in Nat
  BY <1>1, <1>4, PartCount
<1> HIDE DEF S
<1>8. CASE s > i
  <2>1. s \in Newer(i)
    <3>1. s # NoCookie /\ s \in 1..n
      BY <1>1, <1>2, <1>8 DEF NoCookie
    <3>2. \A k \in DOMAIN rows : rows[k].of # s
      BY <3>1 DEF GivenUp
    <3> QED
      BY <1>1, <1>8, <3>1, <3>2 DEF Newer, Tips
  <2>2. S \cup {s} \subseteq Newer(i)
    BY <1>3, <2>1
  <2>3. Cardinality(S \cup {s}) = Cardinality(S) + 1
    BY <1>3, <1>7, FS_AddElement
  <2>4. Cardinality(S \cup {s}) <= Cardinality(Newer(i))
    BY <1>7, <2>2, FS_Subset
  <2> QED
    BY <1>1, <1>2, <1>5, <1>6, <1>7, <2>3, <2>4 DEF Crowded
<1>9. CASE s < i
  <2>1. rows[i].near >= 1
    BY <1>1, <1>2, <1>9 DEF NearOnes
  <2>2. Cardinality(S) <= Cardinality(Newer(i))
    BY <1>3, <1>7, FS_Subset
  <2> QED
    BY <1>1, <1>2, <1>5, <1>6, <1>7, <2>1, <2>2 DEF Crowded
<1> QED
  BY <1>1, <1>2, <1>8, <1>9

\* What a step does with the rows there were, and the one it may add.
LEMMA RowsNext ==
    ASSUME Types, NEW r \in Requests, Step(r)
    PROVE  /\ Len(rows) \in Nat /\ Len(rows') \in Nat
           /\ DOMAIN rows = 1..Len(rows) /\ DOMAIN rows' = 1..Len(rows')
           /\ Len(rows') = IF Stores(r) THEN Len(rows) + 1 ELSE Len(rows)
           /\ \A i \in 1..Len(rows) :
                 /\ rows[i].near \in Nat
                 /\ rows'[i].near = rows[i].near /\ rows'[i].of = rows[i].of
                 /\ rows'[i].is = "live" => rows[i].is = "live"
                 /\ rows'[i].is = "pruned" => rows[i].is = "pruned" \/ (Prune(r) /\ i \in mem[r].doomed)
           /\ Stores(r) =>
                 /\ rows'[Len(rows) + 1].is = "live"
                 /\ rows'[Len(rows) + 1].of = mem[r].refresh
                 /\ rows'[Len(rows) + 1].near = Cardinality({q \in Requests \ {r} : pc[q] = "look"})
<1> DEFINE n == Len(rows)
<1>1. rows \in Seq(Renewal) /\ rows' \in Seq(Renewal)
  BY StoreTypesStep DEF Types, StoreTypes
<1>2. DOMAIN rows' = 1..Len(rows')
  BY <1>1, RowsType
<1>3. \A i \in 1..n : rows[i].near \in Nat
  <2>1. \A i \in 1..n : rows[i] \in Renewal
    BY <1>1, ElementOfSeq
  <2> QED
    BY <2>1 DEF Renewal
<1>4. /\ n \in Nat /\ Len(rows') \in Nat /\ DOMAIN rows = 1..n
      /\ Len(rows') = IF Stores(r) THEN n + 1 ELSE n
      /\ \A i \in 1..n :
            /\ rows'[i].near = rows[i].near /\ rows'[i].of = rows[i].of
            /\ \/ rows'[i].is = rows[i].is \/ rows'[i].is = "out" \/ rows'[i].is = "used"
               \/ rows'[i].is = "pruned" /\ Prune(r) /\ i \in mem[r].doomed
  BY RowMoves
<1>5. Stores(r) =>
         /\ rows'[n + 1].is = "live" /\ rows'[n + 1].of = mem[r].refresh
         /\ rows'[n + 1].near = Cardinality({q \in Requests \ {r} : pc[q] = "look"})
  <2> DEFINE c == Cardinality({q \in Requests \ {r} : pc[q] = "look"})
             x == [is |-> "live", of |-> mem[r].refresh, near |-> c]
  <2>1. Stores(r) => rows' = Append(rows, x)
    BY DEF Stores
  <2> HIDE DEF c
  <2>2. x.is = "live" /\ x.of = mem[r].refresh /\ x.near = c
    OBVIOUS
  <2> HIDE DEF x
  <2>3. Stores(r) => rows'[n + 1] = x
    BY <1>1, <2>1
  <2>4. Stores(r) => rows'[n + 1].is = "live" /\ rows'[n + 1].of = mem[r].refresh /\ rows'[n + 1].near = c
    BY <2>2, <2>3
  <2> QED
    BY <2>4 DEF c
<1>6. \A i \in 1..n : rows'[i].is = "live" => rows[i].is = "live"
  BY <1>4
<1>7. \A i \in 1..n : rows'[i].is = "pruned" => rows[i].is = "pruned" \/ (Prune(r) /\ i \in mem[r].doomed)
  BY <1>4
<1> QED
  BY <1>2, <1>3, <1>4, <1>5, <1>6, <1>7

LEMMA GivenUpStep ==
    ASSUME Types, HandInv, GivenUp, NEW r \in Requests, Step(r)
    PROVE  GivenUp'
<1> DEFINE n == Len(rows)
<1>1. /\ n \in Nat /\ DOMAIN rows = 1..n /\ DOMAIN rows' = 1..Len(rows')
      /\ Len(rows') = IF Stores(r) THEN n + 1 ELSE n
      /\ \A i \in 1..n : rows'[i].of = rows[i].of /\ (rows'[i].is = "live" => rows[i].is = "live")
      /\ Stores(r) => rows'[n + 1].of = mem[r].refresh
  BY RowsNext
<1>2. \A q \in Requests \ {r} : mem'[q] = mem[q]
  BY Frame
<1>3. \A q \in Requests : /\ mem[q].refresh \in 0..n /\ mem[q].stored \in 0..n
                          /\ mem[q] \in Mem /\ MemOfStep(q) /\ MemOfStep(q)'
  BY <1>1, ProcTypesStep DEF Types, ProcTypes, Mem, HandInv, Refs
<1>4. Keeps(r) \/ Takes(r) \/ Stores(r) \/ Gives(r) \/ Leaves(r)
  BY HandMoves DEF HandInv
<1> HIDE DEF n
<1> USE DEF NoCookie
\* What a token is being given for.
<1>5. ASSUME NEW q \in Requests, mem'[q].stage = "issue", mem'[q].refresh # 0
      PROVE  rows'[mem'[q].refresh].is # "live"
  <2> DEFINE i == mem'[q].refresh
  <2>1. ASSUME i = mem[q].refresh, mem[q].stage = "issue" PROVE rows'[i].is # "live"
    <3>1. i \in 1..n /\ rows[i].is # "live"
      BY <1>1, <1>3, <1>5, <2>1 DEF GivenUp
    <3> QED
      BY <1>1, <3>1
  <2>2. CASE q # r
    BY <1>2, <1>5, <2>1, <2>2
  <2>3. CASE q = r /\ Stores(r)
    <3>1. mem[r].stage = "issue" /\ i = mem[r].refresh
      BY <1>3, <2>3 DEF Stores, RefAs, MemOfStep
    <3> QED
      BY <2>1, <2>3, <3>1
  <2>4. CASE q = r /\ Keeps(r)
    <3>1. i = mem[r].refresh /\ i \in 1..n
      BY <1>1, <1>3, <1>5, <2>4 DEF Keeps, RefAs
    <3>2. CASE mem[r].stage = "issue"
      BY <2>1, <2>4, <3>1, <3>2
    <3>3. CASE mem[r].stage # "issue"
      <4>1. pc[r] \in {"find", "mark"} /\ pc'[r] \notin {"find", "mark"}
        BY <1>3, <1>5, <2>4, <3>1, <3>3 DEF HandInv, RefSteps, MemOfStep
      <4>2. pc'[r] \in IssueSteps
        BY <1>5, <2>4, <3>1, <4>1 DEF Keeps
      <4>3. MarkUsed(r)
        BY <4>1, <4>2 DEF Step, Client, Guard, Issue, Logout, EditOf, Send, OpenPage, Refused, RefusedAgain,
           Answer, LoseAnswer, AskVersion, ReadVersion, KeepVersion, FailToRead, Login, FindToken,
           ReadPermissions, FailToIssue, InsertToken, LookForStale, Prune, FailToPrune, Revoke,
           ClearCookies, Strip, Grant, FindMembers, OpenUser, ReloadUser, SaveUser, Bump, DropEntry,
           Begins, Goto, End, Types, ProcTypes, IssueSteps
      <4>4. rows' = [rows EXCEPT ![i].is = IF rows[i].is = "live" THEN "used" ELSE rows[i].is]
        BY <3>1, <4>3 DEF MarkUsed
      <4>5. rows[i] \in Renewal
        BY <1>1, <3>1, ElementOfSeq DEF Types, StoreTypes, n
      <4> QED
        BY <1>1, <3>1, <4>4, <4>5 DEF Renewal
    <3> QED
      BY <3>2, <3>3
  <2>5. CASE q = r /\ (Takes(r) \/ Gives(r) \/ Leaves(r))
    BY <1>3, <1>5, <2>5 DEF Takes, Gives, Leaves, RefAs, MemOfStep
  <2> QED
    BY <1>4, <2>2, <2>3, <2>4, <2>5
<1>6. ASSUME Stores(r), mem[r].refresh # 0 PROVE rows'[mem[r].refresh].is # "live"
  <2>1. mem'[r].stage = "issue" /\ mem'[r].refresh = mem[r].refresh
    BY <1>6 DEF Stores, RefAs
  <2> QED
    BY <1>5, <1>6, <2>1
<1>7. ASSUME NEW k \in DOMAIN rows'
      PROVE  /\ rows'[k].of \in 0..Len(rows')
             /\ rows'[k].of # 0 => rows'[rows'[k].of].is # "live"
  <2>1. CASE k \in 1..n
    <3>1. rows'[k].of = rows[k].of /\ rows[k].of \in 0..n
      BY <1>1, <2>1 DEF GivenUp, n
    <3>2. rows[k].of # 0 => rows[k].of \in 1..n /\ rows[rows[k].of].is # "live"
      BY <1>1, <2>1, <3>1 DEF GivenUp
    <3> QED
      BY <1>1, <3>1, <3>2
  <2>2. CASE k \notin 1..n
    <3>1. Stores(r) /\ k = n + 1 /\ rows'[k].of = mem[r].refresh
      BY <1>1, <1>7, <2>2
    <3> QED
      BY <1>1, <1>3, <1>6, <3>1
  <2> QED
    BY <2>1, <2>2
<1>8. ASSUME NEW q \in Requests, NEW k \in DOMAIN rows', mem'[q].stored # 0
      PROVE  rows'[k].of # mem'[q].stored
  <2>0. k \in 1..n \/ (Stores(r) /\ k = n + 1)
    BY <1>1, <1>8
  <2>1. CASE q = r /\ Stores(r)
    <3>1. mem'[q].stored = n + 1
      BY <2>1 DEF Stores, RefAs, n
    <3>2. rows'[k].of \in 0..n
      BY <1>1, <1>3, <2>0 DEF GivenUp, n
    <3> QED
      BY <1>1, <3>1, <3>2
  <2>2. CASE ~(q = r /\ Stores(r))
    <3>1. mem'[q].stored = mem[q].stored
      BY <1>2, <1>4, <1>8, <2>2 DEF Keeps, Takes, Gives, Leaves, RefAs
    <3>2. CASE k \in 1..n
      BY <1>1, <1>8, <3>1, <3>2 DEF GivenUp
    <3>3. CASE Stores(r) /\ k = n + 1
      BY <1>1, <1>8, <3>1, <3>3 DEF HandInv, StoredIsNew
    <3> QED
      BY <2>0, <3>2, <3>3
  <2> QED
    BY <2>1, <2>2
<1> QED
  BY <1>5, <1>7, <1>8 DEF GivenUp

\* A new token takes the place of the one it is given for: nobody has fewer newer than him.
LEMMA CrowdedStays ==
    ASSUME Types, HandInv, GivenUp, NEW r \in Requests, Step(r), NEW i \in 1..Len(rows), Crowded(i)
    PROVE  Crowded(i)'
<1> DEFINE n == Len(rows)  T == Newer(i)  k == mem[r].refresh
<1>1. /\ n \in Nat /\ Len(rows') \in Nat /\ DOMAIN rows = 1..n /\ DOMAIN rows' = 1..Len(rows')
      /\ Len(rows') = IF Stores(r) THEN n + 1 ELSE n
      /\ \A j \in 1..n : rows'[j].near = rows[j].near /\ rows'[j].of = rows[j].of
      /\ Stores(r) => rows'[n + 1].of = k
      /\ rows[i].near \in Nat /\ MaxLive \in Nat
  BY RowsNext, MaxLiveAssumption
<1>2. T \subseteq 1..n /\ Newer(i)' \subseteq 1..Len(rows')
  BY <1>1 DEF Newer, Tips
<1>3. /\ IsFiniteSet(T) /\ Cardinality(T) \in Nat
      /\ IsFiniteSet(Newer(i)') /\ Cardinality(Newer(i)') \in Nat
  BY <1>1, <1>2, PartCount
<1>4. Cardinality(T) <= Cardinality(Newer(i)')
  <2>1. CASE ~Stores(r)
    <3>1. Newer(i)' = T
      BY <1>1, <2>1 DEF Newer, Tips
    <3> QED
      BY <1>3, <3>1
  <2>2. CASE Stores(r)
    <3>1. n + 1 \in Newer(i)'
      <4>1. n + 1 \in DOMAIN rows' /\ n + 1 > i
        BY <1>1, <2>2
      <4>2. \A j \in DOMAIN rows' : rows'[j].of # n + 1
        <5>1. k \in 0..n
          BY <1>1 DEF Types, ProcTypes, Mem, HandInv, Refs
        <5>2. \A j \in 1..n : rows[j].of \in 0..n
          BY <1>1 DEF GivenUp
        <5>3. \A j \in DOMAIN rows' : j \in 1..n \/ j = n + 1
          BY <1>1, <2>2
        <5> QED
          BY <1>1, <2>2, <5>1, <5>2, <5>3
      <4> QED
        BY <4>1, <4>2 DEF Newer, Tips
    <3>2. T \ {k} \subseteq Newer(i)'
      <4> SUFFICES ASSUME NEW j \in T, j # k PROVE j \in Newer(i)'
        OBVIOUS
      <4>1. j \in 1..n /\ j > i /\ \A m \in 1..n : rows[m].of # j
        BY <1>1, <1>2 DEF Newer, Tips
      <4>2. j \in DOMAIN rows' /\ \A m \in DOMAIN rows' : rows'[m].of # j
        BY <1>1, <2>2, <4>1
      <4> QED
        BY <4>1, <4>2 DEF Newer, Tips
    <3>3. n + 1 \notin T \ {k}
      BY <1>1, <1>2
    <3> HIDE DEF T, k, n
    <3>4. IsFiniteSet(T \ {k}) /\ Cardinality(T \ {k}) \in Nat /\ Cardinality(T \ {k}) >= Cardinality(T) - 1
      <4>1. CASE k \in T
        <5>1. IsFiniteSet(T \ {k}) /\ Cardinality(T \ {k}) = Cardinality(T) - 1
          BY <1>3, <4>1, FS_RemoveElement
        <5>2. Cardinality(T \ {k}) \in Nat
          BY <5>1, FS_CardinalityType
        <5> QED
          BY <1>3, <5>1, <5>2
      <4>2. CASE k \notin T
        <5>1. T \ {k} = T
          BY <4>2
        <5>2. IsFiniteSet(T \ {k}) /\ Cardinality(T \ {k}) = Cardinality(T)
          BY <1>3, <5>1, Zenon
        <5> QED
          BY <1>3, <5>2
      <4> QED
        BY <4>1, <4>2
    <3>5. Cardinality((T \ {k}) \cup {n + 1}) = Cardinality(T \ {k}) + 1
      BY <3>3, <3>4, FS_AddElement
    <3>6. Cardinality((T \ {k}) \cup {n + 1}) <= Cardinality(Newer(i)')
      BY <1>3, <3>1, <3>2, FS_Subset
    <3> QED
      BY <1>3, <3>4, <3>5, <3>6
  <2> QED
    BY <2>1, <2>2
<1>5. rows'[i].near = rows[i].near
  BY <1>1
<1>6. Cardinality(T) + rows[i].near >= MaxLive
  BY DEF Crowded
<1>7. Cardinality(Newer(i)') + rows'[i].near >= MaxLive
  BY <1>1, <1>3, <1>4, <1>5, <1>6
<1> QED
  BY <1>7 DEF Crowded

LEMMA PruneInvStep ==
    ASSUME Types, HandInv, PruneInv, NEW r \in Requests, Step(r)
    PROVE  PruneInv'
<1> USE DEF PruneInv
<1> DEFINE n == Len(rows)
<1>1. /\ n \in Nat /\ Len(rows') \in Nat /\ DOMAIN rows = 1..n
      /\ Len(rows') = IF Stores(r) THEN n + 1 ELSE n
      /\ \A i \in 1..n : /\ rows'[i].near = rows[i].near
                         /\ rows'[i].is = "pruned" => rows[i].is = "pruned" \/ (Prune(r) /\ i \in mem[r].doomed)
      /\ DOMAIN rows' = 1..Len(rows')
  BY RowsNext
<1>2. \A s \in Requests \ {r} : pc'[s] = pc[s] /\ mem'[s] = mem[s]
  BY Frame
<1>3. GivenUp'
  BY GivenUpStep
<1>4. 1..n \subseteq DOMAIN rows'
  BY <1>1
<1>5. \A i \in 1..n : Crowded(i) => Crowded(i)'
  BY CrowdedStays
<1>6. /\ pc'[r] = "look" => InsertToken(r)
      /\ pc'[r] = "prune" => LookForStale(r)
  BY DEF Step, Client, Guard, Issue, Logout, EditOf, Send, OpenPage, Refused, RefusedAgain, Answer, LoseAnswer,
     AskVersion, ReadVersion, KeepVersion, FailToRead, Login, FindToken, MarkUsed, ReadPermissions,
     FailToIssue, InsertToken, LookForStale, Prune, FailToPrune, Revoke, ClearCookies, Strip, Grant,
     FindMembers, OpenUser, ReloadUser, SaveUser, Bump, DropEntry, Goto, End, Learns, Types, ProcTypes
<1>7. InsertToken(r) => mem'[r].stored = n + 1
  BY DEF InsertToken, Hold, Blank, Types, ProcTypes
<1>8. \A i \in DOMAIN rows' : i \in 1..n \/ (i = n + 1 /\ Stores(r))
  BY <1>1
<1>9. NearOnes'
  <2> SUFFICES ASSUME NEW q \in Requests, NEW i \in DOMAIN rows', pc'[q] = "look", i > mem'[q].stored
               PROVE  rows'[i].near >= 1
    BY DEF NearOnes
  <2>1. CASE q = r
    BY <1>1, <1>6, <1>7, <1>8, <2>1
  <2>2. CASE q # r /\ i \in 1..n
    BY <1>1, <1>2, <2>2 DEF NearOnes
  <2>3. CASE q # r /\ i = n + 1 /\ Stores(r)
    <3> DEFINE Q == {u \in Requests \ {r} : pc[u] = "look"}
    <3>1. rows'[i].near = Cardinality(Q)
      BY <2>3, RowsNext
    <3>2. q \in Q
      BY <1>2, <2>3
    <3>3. IsFiniteSet(Q)
      BY FiniteAssumption, FS_Subset
    <3>4. Cardinality(Q) \in Nat /\ Cardinality(Q) # 0
      BY <3>2, <3>3, FS_CardinalityType, FS_EmptySet
    <3> QED
      BY <3>1, <3>4
  <2> QED
    BY <1>8, <2>1, <2>2, <2>3
<1>10. DoomedCrowded'
  <2> SUFFICES ASSUME NEW q \in Requests, pc'[q] = "prune", NEW i \in mem'[q].doomed
               PROVE  i \in DOMAIN rows' /\ Crowded(i)'
    BY DEF DoomedCrowded
  <2>1. i \in 1..n /\ Crowded(i)
    <3>1. CASE q # r
      BY <1>1, <1>2, <3>1 DEF DoomedCrowded
    <3>2. CASE q = r
      <4>1. LookForStale(r)
        BY <1>6, <3>2
      <4>2. pc[r] = "look" /\ mem'[r].doomed = Stale(r)
        BY <4>1 DEF LookForStale, Hold, Types, ProcTypes, Mem
      <4> QED
        BY <1>1, <3>2, <4>2, StaleIsCrowded
    <3> QED
      BY <3>1, <3>2
  <2> QED
    BY <1>1, <1>5, <2>1
<1>11. PrunedCrowded'
  <2> SUFFICES ASSUME NEW i \in DOMAIN rows', rows'[i].is = "pruned" PROVE Crowded(i)'
    BY DEF PrunedCrowded
  <2>1. i \in 1..n
    <3>1. ASSUME Stores(r), i = n + 1 PROVE rows'[i].is = "live"
      BY <3>1, RowsNext
    <3> QED
      BY <1>8, <3>1
  <2>2. CASE rows[i].is = "pruned"
    BY <1>1, <1>5, <2>1, <2>2 DEF PrunedCrowded
  <2>3. CASE Prune(r) /\ i \in mem[r].doomed
    BY <1>5, <2>1, <2>3 DEF Prune, DoomedCrowded
  <2> QED
    BY <1>1, <2>1, <2>2, <2>3
<1> QED
  BY <1>3, <1>9, <1>10, <1>11

(***************************************************************************)
(* Who is refused again.                                                   *)
(***************************************************************************)

Clean(r) == {"met", "edited"} \cap marks[r] = {}

\* What was renewed while nobody edited anything bears the version as it is.
RenewedIsCurrent == \A r \in Requests :
    /\ pc[r] \in {"look", "prune", "answer"} /\ "met" \notin marks[r] => mem[r].token.tv = version
    /\ mem[r].retried =>
          /\ mem[r].stage = "guard"
          /\ pc[r] \in {"version", "reading", "keep", "refused", "revoke", "clear"}
          /\ Clean(r) => /\ pc[r] # "refused"
                         /\ pc[r] \in {"version", "reading", "keep"} => mem[r].token.tv = version

LEMMA RenewedIsCurrentStep ==
    ASSUME ReadInv, RenewedIsCurrent, NEW r \in Requests, Step(r)
    PROVE  RenewedIsCurrent'
<1> USE DEF ReadInv, Types
<1> SUFFICES ASSUME NEW s \in Requests
             PROVE  /\ pc'[s] \in {"look", "prune", "answer"} /\ "met" \notin marks'[s] =>
                          mem'[s].token.tv = version'
                    /\ mem'[s].retried =>
                          /\ mem'[s].stage = "guard"
                          /\ pc'[s] \in {"version", "reading", "keep", "refused", "revoke", "clear"}
                          /\ Clean(s)' => /\ pc'[s] # "refused"
                                          /\ pc'[s] \in {"version", "reading", "keep"} =>
                                                mem'[s].token.tv = version'
  BY DEF RenewedIsCurrent
<1>1. CASE s # r
  <2>1. pc'[s] = pc[s] /\ mem'[s] = mem[s] /\ marks[s] \subseteq marks'[s]
    BY <1>1, Frame
  <2>2. Unmet(s)' => version' = version
    BY <1>1, UnmetByEdits, ReaderSteady
  <2> QED
    BY <2>1, <2>2 DEF RenewedIsCurrent, Clean, Unmet, ReaderSteps
<1>2. CASE s = r
  <2>0. /\ mem \in [Requests -> Mem] /\ mem[r] \in Mem /\ MemOfStep(r) /\ pc \in [Requests -> Places]
        /\ marks \in [Requests -> SUBSET Marks]
    BY DEF ProcTypes
  <2> DEFINE Fine ==
        /\ pc'[r] \in {"look", "prune", "answer"} /\ "met" \notin marks'[r] => mem'[r].token.tv = version'
        /\ mem'[r].retried =>
              /\ mem'[r].stage = "guard"
              /\ pc'[r] \in {"version", "reading", "keep", "refused", "revoke", "clear"}
              /\ {"met", "edited"} \cap marks'[r] = {} =>
                    /\ pc'[r] # "refused"
                    /\ pc'[r] \in {"version", "reading", "keep"} => mem'[r].token.tv = version'
  <2> SUFFICES Fine
    BY <1>2 DEF Clean
  <2>1. /\ mem[r].retried =>
              /\ mem[r].stage = "guard"
              /\ pc[r] \in {"version", "reading", "keep", "refused", "revoke", "clear"}
              /\ {"met", "edited"} \cap marks[r] = {} =>
                    /\ pc[r] # "refused"
                    /\ pc[r] \in {"version", "reading", "keep"} => mem[r].token.tv = version
        /\ pc[r] \in {"look", "prune", "answer"} /\ "met" \notin marks[r] => mem[r].token.tv = version
    BY DEF RenewedIsCurrent, Clean
  <2>2. ASSUME ~mem'[r].retried, pc'[r] \notin {"look", "prune", "answer"} PROVE Fine
    BY <2>2
  <2>3. ASSUME NEW x \in Over, End(r, x) PROVE Fine
    BY <2>0, <2>2, <2>3 DEF End, Goto, Blank, Over
  <2>4. ~EditOf(r) => version' = version
    BY ReaderSteady
  <2>5. CASE Client(r)
    <3>1. CASE Send(r)
      <4>1. pc[r] = "idle" /\ ~mem[r].retried /\ pc'[r] \in {"version", "refused"}
        BY <2>0, <2>1, <3>1 DEF Send, Goto, Mem
      <4>2. ~mem'[r].retried
        BY <2>0, <3>1, <4>1 DEF Send, Hold, Blank
      <4> QED
        BY <2>2, <4>1, <4>2
    <3>2. CASE Refused(r) /\ ~End(r, "bounced")
      <4>1. ~mem'[r].retried /\ pc'[r] = "find"
        BY <2>0, <3>2 DEF Refused, Hold, Goto, Mem
      <4> QED
        BY <2>2, <4>1
    <3>3. CASE Answer(r) /\ ~End(r, "ok")
      <4>1. /\ pc[r] = "answer" /\ Hold(r, [Blank EXCEPT !.token = mem[r].token, !.retried = TRUE])
            /\ Goto(r, "version")
            /\ marks' = [marks EXCEPT ![r] = (IF Editing THEN {"met"} ELSE {})
                                           \cup (IF "met" \in marks[r] THEN {"edited"} ELSE {})]
        BY <3>3 DEF Answer
      <4>2. mem'[r].token = mem[r].token /\ mem'[r].stage = "guard" /\ pc'[r] = "version"
        BY <2>0, <4>1 DEF Hold, Goto, Blank
      <4>3. {"met", "edited"} \cap marks'[r] = {} => "met" \notin marks[r]
        BY <2>0, <4>1
      <4>4. ~EditOf(r)
        BY <4>1, EditMoves DEF InEdit, EditSteps
      <4> QED
        BY <2>1, <2>4, <4>1, <4>2, <4>3, <4>4
    <3>4. CASE OpenPage(r)
      BY <2>3, <3>4 DEF OpenPage, Over
    <3> QED
      BY <2>3, <2>5, <3>1, <3>2, <3>3, <3>4 DEF Client, Refused, RefusedAgain, Answer, LoseAnswer, Over
  <2>6. CASE Guard(r)
    <3>0. /\ pc[r] \in {"version", "reading", "keep"}
          /\ "met" \notin marks[r] => Unmet(r)
      BY <2>6 DEF Guard, AskVersion, ReadVersion, KeepVersion, FailToRead, Unmet, ReaderSteps
    <3>1. ~EditOf(r)
      BY <3>0, EditMoves DEF InEdit, EditSteps
    <3>2. ASSUME NEW v \in Nat \cup {None}, NEW ms, Learns(r, v, ms),
                 "met" \notin marks'[r] /\ ~End(r, "ok") => v = version
          PROVE  Fine
      <4>1. CASE mem[r].stage = "issue"
        <5>1. ~mem[r].retried
          BY <2>1, <4>1
        <5>2. /\ mem' = [mem EXCEPT ![r] = [mem[r] EXCEPT !.tv = IF v = None THEN 0 ELSE v, !.cached = None]]
              /\ pc' = [pc EXCEPT ![r] = "insert"]
          BY <3>2, <4>1 DEF Learns, Hold, Goto
        <5>3. ~mem'[r].retried /\ pc'[r] = "insert"
          BY <2>0, <5>1, <5>2 DEF Mem
        <5> QED
          BY <2>2, <5>3
      <4>2. CASE mem[r].stage # "issue" /\ v # None /\ mem[r].token.tv # v
        <5>1. mem' = mem /\ pc'[r] = "refused" /\ marks[r] \subseteq marks'[r]
          BY <2>0, <3>2, <4>2 DEF Learns, Goto, Mark
        <5>2. ASSUME mem[r].retried, {"met", "edited"} \cap marks'[r] = {} PROVE FALSE
          <6>1. mem[r].token.tv = version
            BY <2>1, <3>0, <5>1, <5>2
          <6>2. ~End(r, "ok")
            BY <2>0, <5>1 DEF End, Goto
          <6>3. "met" \notin marks'[r]
            BY <5>2
          <6> QED
            BY <3>2, <4>2, <6>1, <6>2, <6>3
        <5>3. pc'[r] \notin {"look", "prune", "answer"} /\ mem'[r] = mem[r]
          BY <5>1
        <5> HIDE DEF Fine
        <5>4. CASE mem[r].retried
          BY <2>1, <5>1, <5>2, <5>3, <5>4 DEF Fine
        <5>5. CASE ~mem[r].retried
          BY <2>2, <5>3, <5>5
        <5> QED
          BY <5>4, <5>5
      <4>3. CASE mem[r].stage # "issue" /\ ~(v # None /\ mem[r].token.tv # v) /\ ~End(r, "ok")
        <5>1. mem' = mem /\ pc'[r] = "revoke"
          BY <2>0, <3>2, <4>3 DEF Learns, Goto
        <5> QED
          BY <2>1, <5>1
      <4> QED
        BY <2>3, <4>1, <4>2, <4>3 DEF Over
    <3>3. CASE ReadVersion(r) \/ (AskVersion(r) /\ ~(cache # None /\ cache.fresh))
      <4>1. /\ mem'[r].retried = mem[r].retried /\ mem'[r].stage = mem[r].stage
            /\ mem'[r].token = mem[r].token
        BY <2>0, <3>3 DEF ReadVersion, AskVersion, Hold, Mem
      <4>2. marks' = marks /\ pc'[r] \in {"reading", "keep"}
        BY <2>0, <3>3 DEF ReadVersion, AskVersion, Goto
      <4> QED
        BY <2>1, <2>4, <3>0, <3>1, <4>1, <4>2
    <3>4. CASE AskVersion(r) /\ cache # None /\ cache.fresh
      <4>1. Learns(r, cache.version, Tainted(cache.met)) /\ cache.version \in Nat
        BY <3>4 DEF AskVersion, StoreTypes, Entry
      <4>2. ASSUME "met" \notin marks'[r], ~End(r, "ok") PROVE cache.version = version
        <5>1. marks'[r] = marks[r] \cup Tainted(cache.met)
          BY <2>0, <4>1, <4>2 DEF Learns, Mark
        <5>2. ~cache.met /\ ~Editing
          BY <3>0, <4>2, <5>1 DEF Tainted, EditsAreSeen
        <5>3. ~Dropping
          BY <5>2, EditingMeans DEF Dropping, InEdit, EditSteps
        <5> QED
          BY <3>4, <5>2, <5>3 DEF CacheIsGood
      <4> QED
        BY <2>3, <3>2, <4>1, <4>2 DEF Over
    <3>5. CASE KeepVersion(r)
      <4>1. pc[r] = "keep" /\ Learns(r, mem[r].tv, {}) /\ mem[r].tv \in Nat
        BY <2>0, <3>5 DEF KeepVersion, Mem
      <4>2. ASSUME "met" \notin marks'[r], ~End(r, "ok") PROVE mem[r].tv = version
        <5>1. marks'[r] = marks[r]
          BY <2>0, <4>1, <4>2 DEF Learns, Mark
        <5> QED
          BY <3>0, <4>1, <4>2, <5>1 DEF ReadAsItIs
      <4> QED
        BY <2>3, <3>2, <4>1, <4>2 DEF Over
    <3>6. CASE FailToRead(r)
      <4>1. Learns(r, mem[r].cached, {"met"}) /\ mem[r].cached \in Nat \cup {None}
        BY <2>0, <3>6 DEF FailToRead, Mem
      <4>2. ASSUME "met" \notin marks'[r], ~End(r, "ok") PROVE FALSE
        BY <2>0, <4>1, <4>2 DEF Learns, Mark, Marks
      <4> QED
        BY <2>3, <3>2, <4>1, <4>2 DEF Over
    <3> QED
      BY <2>6, <3>3, <3>4, <3>5, <3>6 DEF Guard
  <2>7. CASE Issue(r)
    <3>1. CASE InsertToken(r)
      <4>1. mem'[r].token = Signed(r) /\ ~mem'[r].retried /\ marks' = marks /\ pc[r] = "insert"
        BY <2>0, <3>1 DEF InsertToken, Hold, Blank
      <4>2. "met" \notin marks[r] => Signed(r).tv = version
        BY <4>1 DEF Signed, ReadAsItIs, Unmet, ReaderSteps
      <4>3. ~EditOf(r)
        BY <4>1, EditMoves DEF InEdit, EditSteps
      <4> QED
        BY <2>4, <4>1, <4>2, <4>3
    <3>2. CASE LookForStale(r) \/ Prune(r) \/ FailToPrune(r)
      <4>1. mem'[r].token = mem[r].token /\ mem'[r].retried = mem[r].retried /\ marks' = marks
        BY <2>0, <3>2 DEF LookForStale, Prune, FailToPrune, Hold, Mem
      <4>2. pc[r] \in {"look", "prune"}
        BY <3>2 DEF LookForStale, Prune, FailToPrune
      <4>3. ~EditOf(r)
        BY <4>2, EditMoves DEF InEdit, EditSteps
      <4> QED
        BY <2>1, <2>4, <4>1, <4>2, <4>3
    <3>3. CASE Login(r)
      BY <2>0, <2>2, <3>3 DEF Login, Hold, Goto, Blank
    <3>4. CASE (FindToken(r) /\ ~End(r, "bounced")) \/ MarkUsed(r) \/ ReadPermissions(r)
      <4>1. ~mem[r].retried
        BY <2>0, <2>1, <3>4 DEF FindToken, MarkUsed, ReadPermissions, MemOfStep
      <4>2. ~mem'[r].retried /\ pc'[r] \in {"mark", "permissions", "version"}
        BY <2>0, <3>4, <4>1 DEF FindToken, MarkUsed, ReadPermissions, Hold, Goto, Mem
      <4> QED
        BY <2>2, <4>2
    <3> QED
      BY <2>3, <2>7, <3>1, <3>2, <3>3, <3>4 DEF Issue, FindToken, FailToIssue, Over
  <2>8. CASE Logout(r)
    <3>1. CASE Revoke(r)
      <4>1. mem' = mem /\ pc'[r] = "clear"
        BY <2>0, <3>1 DEF Revoke, Goto
      <4> QED
        BY <2>1, <4>1
    <3> QED
      BY <2>3, <2>8, <3>1 DEF Logout, ClearCookies, Over
  <2>9. CASE EditOf(r)
    <3>1. ~mem[r].retried /\ pc'[r] \notin {"look", "prune", "answer"}
      BY <2>1, <2>9, EditMoves DEF InEdit, EditSteps
    <3>2. ~mem'[r].retried
      BY <2>0, <2>9, <3>1 DEF EditOf, Strip, Grant, FindMembers, OpenUser, ReloadUser, SaveUser, Bump,
         DropEntry, Hold, End, Blank, Mem
    <3> QED
      BY <2>2, <3>1, <3>2
  <2> QED
    BY <2>5, <2>6, <2>7, <2>8, <2>9 DEF Step
<1> QED
  BY <1>1, <1>2

(***************************************************************************)
(* What people are kept in by.                                             *)
(***************************************************************************)

KeepInv == /\ ReadInv /\ HandInv /\ PruneInv /\ RenewedIsCurrent
           /\ troubles \in 0..MaxTroubles

LEMMA KeepInvInit == Init => KeepInv
<1> SUFFICES ASSUME Init PROVE KeepInv
  OBVIOUS
<1>1. ReadInv /\ HandInv
  BY ReadInvInit, HandInvInit
<1>2. PruneInv
  <2>1. \A k \in DOMAIN rows : rows[k].of = 0 /\ rows[k].is = "live"
    BY DEF Init, NoCookie
  <2>2. Len(rows) \in Nat
    BY <1>1, RowsType DEF ReadInv, Types, StoreTypes
  <2>3. \A q \in Requests : mem[q].stage = "guard" /\ mem[q].stored = 0
    BY DEF Init, Blank, NoCookie
  <2>4. GivenUp
    BY <2>1, <2>2, <2>3 DEF GivenUp, NoCookie
  <2> QED
    BY <2>1, <2>4 DEF Init, PruneInv, NearOnes, DoomedCrowded, PrunedCrowded
<1>3. RenewedIsCurrent
  BY DEF Init, RenewedIsCurrent, Blank
<1> QED
  BY <1>1, <1>2, <1>3, MaxTroublesAssumption DEF KeepInv, Init

LEMMA KeepInvStep == KeepInv /\ [Next]_vars => KeepInv'
<1> SUFFICES ASSUME KeepInv, [Next]_vars PROVE KeepInv'
  OBVIOUS
<1> USE DEF KeepInv
<1>0. ReadInv' /\ Types
  BY ReadInvStep DEF ReadInv
<1>1. troubles' \in 0..MaxTroubles
  <2>1. troubles' = troubles \/ Trouble
    BY DEF Next, vars, Age, Crash, Client, Guard, Issue, Logout, EditOf, Send, OpenPage, Refused,
       RefusedAgain, Answer, LoseAnswer, AskVersion, ReadVersion, KeepVersion, FailToRead, Login, FindToken,
       MarkUsed, ReadPermissions, FailToIssue, InsertToken, LookForStale, Prune, FailToPrune, Revoke,
       ClearCookies, Strip, Grant, FindMembers, OpenUser, ReloadUser, SaveUser, Bump, DropEntry, Begins, Still
  <2>2. troubles \in Nat /\ troubles <= MaxTroubles /\ MaxTroubles \in Nat
    BY MaxTroublesAssumption
  <2>3. CASE Trouble
    <3>1. troubles < MaxTroubles /\ troubles' = troubles + 1
      BY <2>3 DEF Trouble
    <3> QED
      BY <2>2, <3>1
  <2> QED
    BY <2>1, <2>3
<1>2. ASSUME NEW r \in Requests, Step(r) PROVE KeepInv'
  BY <1>0, <1>1, <1>2, HandInvStep, PruneInvStep, RenewedIsCurrentStep
<1>3. CASE Age
  <2>1. /\ rows' = rows /\ jar' = jar /\ pc' = pc /\ mem' = mem /\ marks' = marks /\ op' = op
        /\ wasted' = wasted /\ version' = version
    BY <1>3 DEF Age, Still, user
  <2>2. HandInv'
    BY <2>1 DEF HandInv, Refs, RefSteps, OneDevice, StoredIsNew, TwoOverlap, UsedByOne, UsedMeanwhile, Has, Dev
  <2>3. PruneInv' /\ RenewedIsCurrent'
    BY <2>1 DEF PruneInv, GivenUp, NearOnes, DoomedCrowded, PrunedCrowded, Crowded, Newer, Tips,
       RenewedIsCurrent, Clean
  <2> QED
    BY <1>0, <1>1, <2>2, <2>3
<1>4. CASE Crash
  <2>1. HandInv'
    BY <1>0, <1>4, HandInvCrash
  <2>2. /\ rows' = rows /\ \A q \in Requests : /\ pc'[q] \in Over \cup {"idle"}
                                               /\ ~mem'[q].retried /\ mem'[q].stored = 0
                                               /\ mem'[q].refresh = 0
    BY <1>0, <1>4 DEF Crash, Blank, Types, ProcTypes, InFlight, Over, NoCookie
  <2>3. PruneInv'
    BY <2>2 DEF PruneInv, GivenUp, NearOnes, DoomedCrowded, PrunedCrowded, Crowded, Newer, Tips, Over, NoCookie
  <2>4. RenewedIsCurrent'
    BY <2>2 DEF RenewedIsCurrent, Over
  <2> QED
    BY <1>0, <1>1, <2>1, <2>3, <2>4
<1>5. CASE UNCHANGED vars
  <2>1. /\ rows' = rows /\ jar' = jar /\ pc' = pc /\ mem' = mem /\ marks' = marks /\ op' = op
        /\ wasted' = wasted /\ version' = version
    BY <1>5 DEF vars
  <2>2. HandInv'
    BY <2>1 DEF HandInv, Refs, RefSteps, OneDevice, StoredIsNew, TwoOverlap, UsedByOne, UsedMeanwhile, Has, Dev
  <2>3. PruneInv' /\ RenewedIsCurrent'
    BY <2>1 DEF PruneInv, GivenUp, NearOnes, DoomedCrowded, PrunedCrowded, Crowded, Newer, Tips,
       RenewedIsCurrent, Clean
  <2> QED
    BY <1>0, <1>1, <2>2, <2>3
<1> QED
  BY <1>2, <1>3, <1>4, <1>5 DEF Next, Step

\* The tables, the cookies and the memory of the API keep their shape, and no token that
\* was used up is one that never was in refresh_tokens.
THEOREM TypesHold == Spec => []TypeOK
<1>1. Init => KeepInv
  BY KeepInvInit
<1>2. KeepInv /\ [Next]_vars => KeepInv'
  BY KeepInvStep
<1>3. KeepInv => TypeOK
  <2> SUFFICES ASSUME KeepInv PROVE TypeOK
    OBVIOUS
  <2>1. StoreTypes /\ rows \in Seq(Renewal)
    BY DEF KeepInv, ReadInv, Types, StoreTypes
  <2>2. Len(rows) \in Nat /\ DOMAIN rows = 1..Len(rows)
    BY <2>1, RowsType
  <2>3. wasted \subseteq {NoCookie} \cup DOMAIN rows
    BY <2>2 DEF KeepInv, HandInv, Refs, NoCookie
  <2> QED
    BY <2>1, <2>3 DEF KeepInv, StoreTypes, TypeOK
<1> QED
  BY <1>1, <1>2, <1>3, PTL DEF Spec

\* A refused token was given up, was too many, or is being renewed by somebody else.
LEMMA WhyBounced ==
    ASSUME KeepInv, [Next]_vars, NEW r \in Requests, pc[r] = "find", pc'[r] = "bounced"
    PROVE  LET i == mem[r].refresh  was == rows[mem[r].refresh].is IN
           \/ was = "out"
           \/ was = "pruned" /\ Crowded(i)
           \/ was = "used" /\ (i \in wasted \/ "overlap" \in marks[r])
<1> DEFINE i == mem[r].refresh
<1> USE DEF KeepInv, ReadInv, Types
<1>1. Step(r)
  <2>1. CASE Age \/ UNCHANGED vars
    BY <2>1 DEF Age, vars
  <2>2. CASE Crash
    BY <2>2 DEF Crash, ProcTypes
  <2>3. ASSUME NEW s \in Requests, Step(s), s # r PROVE FALSE
    BY <2>3, Frame
  <2> QED
    BY <2>1, <2>2, <2>3 DEF Next, Step
<1>2. i \notin Live
  BY <1>1 DEF Step, Client, Guard, Issue, Logout, EditOf, Send, OpenPage, Refused, RefusedAgain, Answer, LoseAnswer,
     AskVersion, ReadVersion, KeepVersion, FailToRead, Login, FindToken, MarkUsed, ReadPermissions,
     FailToIssue, InsertToken, LookForStale, Prune, FailToPrune, Revoke, ClearCookies, Strip, Grant,
     FindMembers, OpenUser, ReloadUser, SaveUser, Bump, DropEntry, Begins, Goto, End, ProcTypes
<1>3. i \in 1..Len(rows) /\ DOMAIN rows = 1..Len(rows)
  BY RowsType DEF HandInv, Refs, RefSteps, NoCookie, StoreTypes, ProcTypes, Mem
<1>4. rows[i].is \in {"used", "out", "pruned"}
  <2>1. rows[i] \in Renewal
    BY <1>3, ElementOfSeq DEF StoreTypes
  <2> QED
    BY <1>2, <1>3, <2>1 DEF Live, Renewal
<1>5. CASE rows[i].is = "used"
  BY <1>5 DEF HandInv, UsedMeanwhile
<1>6. CASE rows[i].is = "pruned"
  BY <1>3, <1>6 DEF PruneInv, PrunedCrowded
<1> QED
  BY <1>4, <1>5, <1>6

\* Who is refused a second time met an edit.
LEMMA WhyDenied ==
    ASSUME KeepInv, [Next]_vars, NEW r \in Requests, pc[r] # "denied", pc'[r] = "denied"
    PROVE  {"met", "edited"} \cap marks[r] # {}
<1> USE DEF KeepInv, ReadInv, Types
<1>1. Step(r)
  <2>1. CASE Age \/ UNCHANGED vars
    BY <2>1 DEF Age, vars
  <2>2. CASE Crash
    BY <2>2 DEF Crash, ProcTypes
  <2>3. ASSUME NEW s \in Requests, Step(s), s # r PROVE FALSE
    BY <2>3, Frame
  <2> QED
    BY <2>1, <2>2, <2>3 DEF Next, Step
<1>2. RefusedAgain(r)
  BY <1>1 DEF Step, Client, Guard, Issue, Logout, EditOf, Send, OpenPage, Refused, Answer, LoseAnswer,
     AskVersion, ReadVersion, KeepVersion, FailToRead, Login, FindToken, MarkUsed, ReadPermissions,
     FailToIssue, InsertToken, LookForStale, Prune, FailToPrune, Revoke, ClearCookies, Strip, Grant,
     FindMembers, OpenUser, ReloadUser, SaveUser, Bump, DropEntry, Begins, Goto, End, Learns, ProcTypes
<1> QED
  BY <1>2 DEF RefusedAgain, RenewedIsCurrent, Clean

\* A request is sent to the login only for a logout, an overlap of two renewals of one
\* device, an answer that never came or as many newer sessions as may live, however often
\* those were renewed; and what was renewed is refused again only for an edit (auth.service
\* refresh and issueTokens, lib/api/client apiFetch).  It is about these
\* requests only: a page that is opened may be sent to the login at any time (OpenPage).
THEOREM KeptIn == Spec => StaysIn
<1>1. Init => KeepInv
  BY KeepInvInit
<1>2. KeepInv /\ [Next]_vars => KeepInv'
  BY KeepInvStep
<1>3. KeepInv /\ [Next]_vars =>
        [\A r \in Requests :
           /\ pc[r] = "find" /\ pc'[r] = "bounced" =>
                LET i == mem[r].refresh  was == rows[mem[r].refresh].is IN
                \/ was = "out"
                \/ was = "pruned" /\ Crowded(i)
                \/ was = "used" /\ (i \in wasted \/ "overlap" \in marks[r])
           /\ pc[r] # "denied" /\ pc'[r] = "denied" =>
                {"met", "edited"} \cap marks[r] # {}]_vars
  BY WhyBounced, WhyDenied
<1> QED
  BY <1>1, <1>2, <1>3, PTL DEF Spec, StaysIn
=============================================================================
