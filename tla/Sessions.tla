------------------------------ MODULE Sessions ------------------------------
(***************************************************************************)
(* The sessions of one member of staff on several devices: the tokens that *)
(* auth.service.ts issues, renews and prunes, the version that revokes     *)
(* them (token-version.cache.ts), the edits that raise it (roles.service,  *)
(* users.service) and the client that renews a refused token once          *)
(* (lib/api/client.ts).  A request is a process that yields at every call  *)
(* of the database and whenever an answer travels; a page that is opened   *)
(* meets the proxy of the web (proxy.ts), which renews nothing.            *)
(***************************************************************************)
EXTENDS Integers, Sequences, FiniteSetsExt

CONSTANTS
    Requests, Devices, Roles,
    FirstRole,     \* the role of the person at the beginning
    Levels,        \* what the permissions of a role may be; 0: none
    Plans,         \* what people ask for: one operation for each request
    MaxLive,       \* MAX_LIVE_REFRESH_TOKENS
    MaxTroubles,   \* bound on failed queries, lost answers and restarts of the API
    MaxSent,       \* bound: they come while no more requests than these have been sent
    None

\* The renewable tokens by the order of their rows; 0: no cookie.
NoCookie == 0
FirstLevel == 1

Op == [kind : {"call", "open", "logout", "login", "grant", "update"}, dev : Devices,
       role : Roles \cup {None}, level : Levels]

ASSUME MaxLiveAssumption == MaxLive \in Nat \ {0}
ASSUME MaxTroublesAssumption == MaxTroubles \in Nat /\ MaxSent \in Nat
\* NULL is no number, and nobody has infinitely many devices or requests.
ASSUME NoneAssumption == None \notin Nat
ASSUME FiniteAssumption == IsFiniteSet(Requests) /\ IsFiniteSet(Devices)
ASSUME LevelsAssumption == {0, FirstLevel} \subseteq Levels
ASSUME PlansAssumption ==
    /\ FirstRole \in Roles
    /\ Plans \subseteq [Requests -> Op]
    /\ \A plan \in Plans, r \in Requests : plan[r].kind = "grant" => plan[r].role \in Roles

VARIABLES
    role,      \* users.role_id
    version,   \* users.token_version
    granted,   \* granted[x]: the permissions of role x
    rows,      \* refresh_tokens, in the order of created_at
    cache,     \* the entry of TokenVersionCache, in the memory of the API
    jar,       \* jar[d]: the cookies of device d
    pc, op,
    mem,       \* mem[r]: what request r, or the fetch it belongs to, holds in memory
    marks,     \* marks[r]: what else went on meanwhile (history for the properties)
    wasted,    \* tokens used for a renewal whose answer never came (history)
    torn,      \* edits of what a token says met, or one was cut short (history)
    troubles

vars == <<role, version, granted, rows, cache, jar, pc, op, mem, marks, wasted, torn, troubles>>
user == <<role, version>>
store == <<user, granted, rows, cache>>
history == <<marks, wasted, torn, troubles>>

\* met: an edit was under way while the token, or the entry, was made, or the version
\* of the token could not be read.
Token == [tv : Nat, role : Roles, level : Levels, met : BOOLEAN]
\* of: the token it was given for, none after a login (history).  near: how many other
\* requests were between their token and the look for those that are too many when this
\* one was stored (history).
Renewal == [is : {"live", "used", "out", "pruned"}, of : Nat, near : Nat]
Entry == [version : Nat, fresh : BOOLEAN, met : BOOLEAN]
Cookies == [access : Token \cup {None}, refresh : Nat]

FirstToken == [tv |-> 1, role |-> FirstRole, level |-> FirstLevel, met |-> FALSE]
Blank == [token |-> None, refresh |-> NoCookie, retried |-> FALSE, stage |-> "guard",
          role |-> None, level |-> 0, tv |-> 0, cached |-> None, stored |-> NoCookie,
          doomed |-> {}, copy |-> None, base |-> None]

\* Everybody logged in once on every device, one after the other.
Init ==
    /\ role = FirstRole /\ version = 1
    /\ granted = [x \in Roles |-> FirstLevel]
    /\ rows = [i \in 1..Min({Cardinality(Devices), MaxLive}) |->
                 [is |-> "live", of |-> NoCookie, near |-> 0]]
    /\ cache = None
    /\ jar \in [Devices -> {[access |-> FirstToken, refresh |-> i] : i \in DOMAIN rows}]
    /\ \A d, e \in Devices : jar[d] = jar[e] => d = e
    /\ pc = [r \in Requests |-> "idle"]
    /\ op \in Plans
    /\ mem = [r \in Requests |-> Blank]
    /\ marks = [r \in Requests |-> {}]
    /\ wasted = {} /\ torn = FALSE /\ troubles = 0

Over == {"ok", "denied", "bounced", "redirected", "error", "offline", "dead"}
InFlight(r) == pc[r] \notin Over \cup {"idle"}
IsEdit(r) == op[r].kind \in {"grant", "update"}
Editing == \E r \in Requests : IsEdit(r) /\ InFlight(r)
Renewing(r) == pc[r] \in {"find", "mark"} \/ (InFlight(r) /\ mem[r].stage = "issue")

Dev(r) == op[r].dev
Goto(r, step) == pc' = [pc EXCEPT ![r] = step]
Hold(r, m) == mem' = [mem EXCEPT ![r] = m]
Mark(r, ms) == marks' = [marks EXCEPT ![r] = @ \cup ms]
End(r, answer) ==
    /\ Goto(r, answer)
    /\ mem' = [mem EXCEPT ![r] = Blank]
    /\ marks' = [marks EXCEPT ![r] = {}]
Still == UNCHANGED <<op, wasted, torn, troubles>>

\* Only an edit still under way counts for what begins now.
Since(r) == marks' = [marks EXCEPT ![r] = IF Editing THEN {"met"} ELSE {}]
Trouble ==
    /\ troubles < MaxTroubles
    /\ Cardinality({r \in Requests : pc[r] # "idle"}) <= MaxSent
    /\ troubles' = troubles + 1

-----------------------------------------------------------------------------
(* versionOf: on the way in, against the token of the request; on the way   *)
(* out, for the token that is being issued.                                 *)

\* What becomes of a request that learns version v; None: it could not be read.
Learns(r, v, ms) ==
    IF mem[r].stage = "issue"
    THEN /\ Hold(r, [mem[r] EXCEPT !.tv = IF v = None THEN 0 ELSE v, !.cached = None])
         /\ Mark(r, ms)
         /\ Goto(r, "insert")
    ELSE IF v # None /\ mem[r].token.tv # v
    THEN Goto(r, "refused") /\ Mark(r, ms) /\ UNCHANGED mem
    ELSE IF op[r].kind = "logout" THEN Goto(r, "revoke") /\ Mark(r, ms) /\ UNCHANGED mem
    ELSE End(r, "ok")

Tainted(met) == IF met THEN {"met"} ELSE {}

AskVersion(r) ==
    /\ pc[r] = "version"
    /\ IF cache # None /\ cache.fresh THEN Learns(r, cache.version, Tainted(cache.met))
       ELSE /\ Hold(r, [mem[r] EXCEPT !.cached = IF cache = None THEN None ELSE cache.version])
            /\ Goto(r, "reading")
            /\ UNCHANGED marks
    /\ UNCHANGED <<store, jar>> /\ Still

ReadVersion(r) ==
    /\ pc[r] = "reading"
    /\ Hold(r, [mem[r] EXCEPT !.tv = version])
    /\ Goto(r, "keep")
    /\ UNCHANGED <<store, jar, marks>> /\ Still

\* The query comes back: only now is the entry written, whatever went on meanwhile.
KeepVersion(r) ==
    /\ pc[r] = "keep"
    /\ cache' = [version |-> mem[r].tv, fresh |-> TRUE, met |-> "met" \in marks[r]]
    /\ Learns(r, mem[r].tv, {})
    /\ UNCHANGED <<user, granted, rows, jar>> /\ Still

\* Without an answer of the database the last known version serves, or none.
FailToRead(r) ==
    /\ pc[r] = "reading" /\ Trouble
    /\ Learns(r, mem[r].cached, {"met"})
    /\ UNCHANGED <<store, jar, op, wasted, torn>>

\* Thirty seconds pass.
Age ==
    /\ cache # None /\ cache.fresh
    /\ cache' = [cache EXCEPT !.fresh = FALSE]
    /\ UNCHANGED <<user, granted, rows, jar, pc, mem, marks>> /\ Still

-----------------------------------------------------------------------------
(* The client: apiFetch and the cookies.                                   *)

\* A request leaves with the cookie of its device, unless that one has lapsed.
Send(r) ==
    /\ pc[r] = "idle" /\ op[r].kind \in {"call", "logout"}
    /\ Since(r)
    /\ \/ /\ jar[Dev(r)].access # None
          /\ Hold(r, [Blank EXCEPT !.token = jar[Dev(r)].access])
          /\ Goto(r, "version")
       \/ Goto(r, "refused") /\ UNCHANGED mem
    /\ UNCHANGED <<store, jar>> /\ Still

\* A page is served to a cookie that has not lapsed.  Any other goes to the login, and the
\* access cookie with it: what the device could renew is not looked at.
OpenPage(r) ==
    /\ pc[r] = "idle" /\ op[r].kind = "open"
    /\ \/ jar[Dev(r)].access # None /\ End(r, "ok") /\ UNCHANGED jar
       \/ End(r, "redirected") /\ jar' = [jar EXCEPT ![Dev(r)].access = None]
    /\ UNCHANGED store /\ Still

\* A first 401 is answered with one renewal, with what the jar holds by now.
Refused(r) ==
    LET others == {q \in Requests \ {r} : Renewing(q) /\ Dev(q) = Dev(r)}
        Noted(q) == IF q \in others THEN marks[q] \cup {"overlap"} ELSE marks[q]
    IN
    /\ pc[r] = "refused" /\ ~mem[r].retried
    /\ IF jar[Dev(r)].refresh = NoCookie
       THEN End(r, "bounced")
       ELSE /\ Hold(r, [mem[r] EXCEPT !.refresh = jar[Dev(r)].refresh])
            /\ Goto(r, "find")
            /\ marks' = [q \in Requests |->
                 IF q # r THEN Noted(q)
                 ELSE (IF Editing THEN {"met"} ELSE {}) \cup (IF others = {} THEN {} ELSE {"overlap"})]
    /\ UNCHANGED <<store, jar>> /\ Still

RefusedAgain(r) ==
    /\ pc[r] = "refused" /\ mem[r].retried
    /\ End(r, "denied")
    /\ UNCHANGED <<store, jar>> /\ Still

\* The answer brings both cookies; what was refused is sent again with the new one.
Answer(r) ==
    /\ pc[r] = "answer"
    /\ jar' = [jar EXCEPT ![Dev(r)] = [access |-> mem[r].token, refresh |-> mem[r].stored]]
    /\ IF op[r].kind = "login" THEN End(r, "ok")
       ELSE /\ Hold(r, [Blank EXCEPT !.token = mem[r].token, !.retried = TRUE])
            /\ Goto(r, "version")
            /\ marks' = [marks EXCEPT ![r] = (IF Editing THEN {"met"} ELSE {})
                                           \cup (IF "met" \in @ THEN {"edited"} ELSE {})]
    /\ UNCHANGED store /\ Still

LoseAnswer(r) ==
    /\ pc[r] = "answer" /\ Trouble
    /\ End(r, "offline")
    /\ wasted' = wasted \cup {mem[r].refresh}
    /\ UNCHANGED <<store, jar, op, torn>>

-----------------------------------------------------------------------------
(* login, refresh and issueTokens.                                         *)

Live == {i \in DOMAIN rows : rows[i].is = "live"}

\* The right password or PIN of somebody active.
Login(r) ==
    /\ pc[r] = "idle" /\ op[r].kind = "login"
    /\ Hold(r, [Blank EXCEPT !.stage = "issue", !.role = role])
    /\ Goto(r, "permissions")
    /\ Since(r)
    /\ UNCHANGED <<store, jar>> /\ Still

FindToken(r) ==
    /\ pc[r] = "find"
    /\ IF mem[r].refresh \in Live
       THEN Hold(r, [mem[r] EXCEPT !.role = role]) /\ Goto(r, "mark")
            /\ UNCHANGED marks
       ELSE End(r, "bounced")
    /\ UNCHANGED <<store, jar>> /\ Still

\* The token is used up before the next one exists.
MarkUsed(r) ==
    /\ pc[r] = "mark"
    /\ rows' = [rows EXCEPT ![mem[r].refresh].is = IF @ = "live" THEN "used" ELSE @]
    /\ Hold(r, [mem[r] EXCEPT !.stage = "issue"])
    /\ Goto(r, "permissions")
    /\ UNCHANGED <<user, granted, cache, jar, marks>> /\ Still

ReadPermissions(r) ==
    /\ pc[r] = "permissions"
    /\ Hold(r, [mem[r] EXCEPT !.level = granted[mem[r].role]])
    /\ Goto(r, "version")
    /\ UNCHANGED <<store, jar, marks>> /\ Still

\* What is signed from what was read.
Signed(r) == [tv |-> mem[r].tv, role |-> mem[r].role, level |-> mem[r].level,
              met |-> "met" \in marks[r]]

\* A query fails half way.  The client takes the 500 of a renewal for a refusal and goes
\* to the login, as after "bounced"; the cookie that was set before it travels all the same.
FailToIssue(r) ==
    /\ pc[r] \in {"find", "mark", "permissions", "insert"} /\ Trouble
    /\ jar' = IF pc[r] = "insert" THEN [jar EXCEPT ![Dev(r)].access = Signed(r)] ELSE jar
    /\ End(r, "error")
    /\ wasted' = wasted \cup {mem[r].refresh}
    /\ UNCHANGED <<store, op, torn>>

InsertToken(r) ==
    /\ pc[r] = "insert"
    /\ rows' = Append(rows, [is |-> "live", of |-> mem[r].refresh,
                             near |-> Cardinality({q \in Requests \ {r} : pc[q] = "look"})])
    /\ Hold(r, [Blank EXCEPT !.stage = "issue", !.refresh = mem[r].refresh,
                             !.token = Signed(r), !.stored = Len(rows) + 1])
    /\ Goto(r, "look")
    /\ UNCHANGED <<user, granted, cache, jar, marks>> /\ Still

\* Mutant: the list of live tokens comes with the oldest first.
StaleOldestFirst(r) ==
    {i \in Live \ {mem[r].stored} :
        Cardinality({j \in Live \ {mem[r].stored} : j < i}) >= MaxLive - 1}

\* All but the newest, besides its own.
Stale(r) ==
    {i \in Live \ {mem[r].stored} :
        Cardinality({j \in Live \ {mem[r].stored} : j > i}) >= MaxLive - 1}

LookForStale(r) ==
    /\ pc[r] = "look"
    /\ Hold(r, [mem[r] EXCEPT !.doomed = Stale(r)])
    /\ Goto(r, IF Stale(r) = {} THEN "answer" ELSE "prune")
    /\ UNCHANGED <<store, jar, marks>> /\ Still

Prune(r) ==
    /\ pc[r] = "prune"
    /\ rows' = [i \in DOMAIN rows |-> IF i \in mem[r].doomed /\ rows[i].is = "live"
                                      THEN [rows[i] EXCEPT !.is = "pruned"] ELSE rows[i]]
    /\ Goto(r, "answer")
    /\ UNCHANGED <<user, granted, cache, jar, mem, marks>> /\ Still

\* A prune that fails is left for the next one.
FailToPrune(r) ==
    /\ pc[r] \in {"look", "prune"} /\ Trouble
    /\ Goto(r, "answer")
    /\ UNCHANGED <<store, jar, op, mem, marks, wasted, torn>>

-----------------------------------------------------------------------------
(* logout: every token of the person, on whatever device.                  *)

Revoke(r) ==
    /\ pc[r] = "revoke"
    /\ rows' = [i \in DOMAIN rows |-> IF i \in Live THEN [rows[i] EXCEPT !.is = "out"] ELSE rows[i]]
    /\ Goto(r, "clear")
    /\ UNCHANGED <<user, granted, cache, jar, mem, marks>> /\ Still

ClearCookies(r) ==
    /\ pc[r] = "clear"
    /\ jar' = [jar EXCEPT ![Dev(r)] = [access |-> None, refresh |-> NoCookie]]
    /\ End(r, "ok")
    /\ UNCHANGED store /\ Still

-----------------------------------------------------------------------------
(* What makes a token out of date: assignPermissions and users.update.     *)

\* An edit that begins is met by whatever is under way.
Begins(r) ==
    /\ pc[r] = "idle"
    /\ marks' = [q \in Requests |-> IF InFlight(q) THEN marks[q] \cup {"met"} ELSE marks[q]]
    /\ torn' = (torn \/ Editing)
    /\ UNCHANGED <<op, wasted, troubles>>

\* The permissions of a role are deleted and stored again, in two statements.
Strip(r) ==
    /\ op[r].kind = "grant" /\ Begins(r)
    /\ granted' = [granted EXCEPT ![op[r].role] = 0]
    /\ Goto(r, "grant")
    /\ UNCHANGED <<user, rows, cache, jar, mem>>

Grant(r) ==
    /\ pc[r] = "grant"
    /\ granted' = [granted EXCEPT ![op[r].role] = op[r].level]
    /\ Goto(r, "members")
    /\ UNCHANGED <<user, rows, cache, jar, mem, marks>> /\ Still

\* bumpByRole reads who has the role, raises the version of those who have it, and
\* drops the entries of those it read.
FindMembers(r) ==
    /\ pc[r] = "members"
    /\ IF role = op[r].role THEN Goto(r, "bump") /\ UNCHANGED <<mem, marks>> ELSE End(r, "ok")
    /\ UNCHANGED <<store, jar>> /\ Still

OpenUser(r) ==
    /\ op[r].kind = "update" /\ Begins(r)
    /\ Hold(r, [Blank EXCEPT !.copy = [role |-> role, version |-> version]])
    /\ Goto(r, "reload")
    /\ UNCHANGED <<store, jar>>

\* save reads the row again and writes the columns in which the copy differs from it,
\* token_version among them.
ReloadUser(r) ==
    /\ pc[r] = "reload"
    /\ Hold(r, [mem[r] EXCEPT !.base = [role |-> role, version |-> version]])
    /\ Goto(r, "write")
    /\ UNCHANGED <<store, jar, marks>> /\ Still

Column(current, copied, reloaded) == IF copied = reloaded THEN current ELSE copied

SaveUser(r) ==
    LET copy == mem[r].copy  base == mem[r].base
        wanted == IF op[r].role = None THEN copy.role ELSE op[r].role
    IN
    /\ pc[r] = "write"
    /\ role' = Column(role, wanted, base.role)
    /\ version' = Column(version, copy.version, base.version)
    /\ IF wanted # copy.role THEN Goto(r, "bump") /\ UNCHANGED <<mem, marks>> ELSE End(r, "ok")
    /\ UNCHANGED <<granted, rows, cache, jar>> /\ Still

Bump(r) ==
    /\ pc[r] = "bump"
    /\ version' = IF op[r].kind = "update" \/ role = op[r].role THEN version + 1 ELSE version
    /\ Goto(r, "drop")
    /\ UNCHANGED <<role, granted, rows, cache, jar, mem, marks>> /\ Still

\* Mutant: the entry is left to expire.
WithoutEntryLater(entry) == entry
WithoutEntry(entry) == None

DropEntry(r) ==
    /\ pc[r] = "drop"
    /\ cache' = WithoutEntry(cache)
    /\ End(r, "ok")
    /\ UNCHANGED <<user, granted, rows, jar>> /\ Still

-----------------------------------------------------------------------------
\* The API restarts: its memory is gone, and so is every request it was handling.
Crash ==
    /\ Trouble
    /\ \E r \in Requests : InFlight(r)
    /\ pc' = [r \in Requests |-> IF InFlight(r) THEN "dead" ELSE pc[r]]
    /\ mem' = [r \in Requests |-> Blank]
    /\ marks' = [r \in Requests |-> {}]
    /\ cache' = None
    /\ wasted' = wasted \cup {mem[r].refresh : r \in {q \in Requests : Renewing(q)}}
    /\ torn' = (torn \/ Editing)
    /\ UNCHANGED <<user, granted, rows, jar, op>>

Client(r) == Send(r) \/ OpenPage(r) \/ Refused(r) \/ RefusedAgain(r) \/ Answer(r) \/ LoseAnswer(r)
Guard(r) == AskVersion(r) \/ ReadVersion(r) \/ KeepVersion(r) \/ FailToRead(r)
Issue(r) == \/ Login(r) \/ FindToken(r) \/ MarkUsed(r) \/ ReadPermissions(r) \/ FailToIssue(r)
            \/ InsertToken(r) \/ LookForStale(r) \/ Prune(r) \/ FailToPrune(r)
Logout(r) == Revoke(r) \/ ClearCookies(r)
EditOf(r) == \/ Strip(r) \/ Grant(r) \/ FindMembers(r) \/ OpenUser(r) \/ ReloadUser(r)
             \/ SaveUser(r) \/ Bump(r) \/ DropEntry(r)

Next == Age \/ Crash \/ \E r \in Requests : Client(r) \/ Guard(r) \/ Issue(r) \/ Logout(r) \/ EditOf(r)

Spec == Init /\ [][Next]_vars

-----------------------------------------------------------------------------
(* Properties                                                              *)

\* The shape of the tables, the cookies and the memory of the API.
TypeOK ==
    /\ role \in Roles /\ version \in Nat /\ granted \in [Roles -> Levels]
    /\ rows \in Seq(Renewal) /\ jar \in [Devices -> Cookies]
    /\ cache # None => cache \in Entry
    /\ op \in Plans /\ troubles \in 0..MaxTroubles
    /\ wasted \subseteq {NoCookie} \cup DOMAIN rows

\* The guard lets a request pass with a version it could read.
Serves(r) == pc[r] \in {"version", "keep"} /\ pc'[r] \in {"ok", "revoke"}

\* docs/SECURITY.md, A01: an edit of a role or of a person takes hold at once.  A request is
\* served with the role and the permissions of the moment, except while an edit is under
\* way, after one was cut short or met another, with a token made, or against a version
\* read, in the middle of one, and where the guard fails open for want of a version.
ServedIsCurrent ==
    [][\A r \in Requests : Serves(r) =>
         LET t == mem[r].token IN
         \/ t.role = role /\ t.level = granted[role]
         \/ Editing \/ torn \/ t.met
         \/ "met" \in marks[r]
         \/ pc[r] = "version" /\ cache.met]_vars

\* The tokens for which no other was given: one for each session ever opened, and one more
\* for each renewal that was made twice.
Tips == {j \in DOMAIN rows : \A k \in DOMAIN rows : rows[k].of # j}

Newer(i) == {j \in Tips : j > i}

\* As many sessions as may live are newer, or were not yet counted when this one was stored.
Crowded(i) == Cardinality(Newer(i)) + rows[i].near >= MaxLive

\* The renewal keeps people in.  A request is sent to the login only if the person logged
\* out, two renewals of one device overlapped, the answer to one never came, or the person
\* has so many newer sessions that this one had to go: the renewals of the others, however
\* many, push nobody out.  And what was renewed once is not refused again unless an edit
\* came in between.
StaysIn ==
    [][\A r \in Requests :
         /\ pc[r] = "find" /\ pc'[r] = "bounced" =>
              LET i == mem[r].refresh  was == rows[mem[r].refresh].is IN
              \/ was = "out"
              \/ was = "pruned" /\ Crowded(i)
              \/ was = "used" /\ (i \in wasted \/ "overlap" \in marks[r])
         /\ pc[r] # "denied" /\ pc'[r] = "denied" =>
              {"met", "edited"} \cap marks[r] # {}]_vars
=============================================================================
