------------------------------ MODULE Credentials ------------------------------
(***************************************************************************)
(* The tokens of a character: how internal/sso gets one from the browser,  *)
(* how internal/app/characterservice stores it and has it refreshed by the *)
(* many goroutines that call ESI, and what the storage keeps of it.        *)
(*                                                                         *)
(* A login runs a web server for the callback of the browser, which may    *)
(* come late, twice or from the tab of an earlier login.  A stored token   *)
(* is a row, written first, and its scopes, written after that.            *)
(***************************************************************************)
EXTENDS Integers, FiniteSets

CONSTANTS
    Refreshers,  \* goroutines that need a token: sections, mails, search
    Logins,      \* calls of Authenticate
    Handlers,    \* requests of browsers to the callback
    Earlier,     \* the login of the token that is stored at first
    NoToken,
    MaxExpiries, \* bound: how often all tokens have expired
    MaxFaults    \* bound: failing calls, ends of the process, deletions of the character

ASSUME CredentialsAssumption ==
    /\ Earlier \notin Logins
    /\ Refreshers \cap Logins = {}
    /\ MaxExpiries \in Nat /\ MaxFaults \in Nat

Workers == Refreshers \cup Logins
\* The token of the earlier login lacks scopes that this version asks for.
ScopesOf(l) == IF l = Earlier THEN "some" ELSE "all"
\* An access token is valid until the epoch in which it was issued has ended; a
\* refresh token is one of the chain that a login has begun.
Tokens == [login : Logins \cup {Earlier}, refresh : Nat, access : 0..MaxExpiries]
Token(l, n, e) == [login |-> l, refresh |-> n, access |-> e]
\* That there is no row is not mistaken for one.
ASSUME TokenAssumption == NoToken \notin Tokens

VARIABLES
    rotates,   \* whether the SSO server replaces a refresh token that is used
    accepted,  \* refresh tokens that it accepts
    codes,     \* logins whose code was exchanged for a token
    epoch,
    character, \* whether the character is in the database
    row,       \* the row of its token
    rowId,     \* the number of that row
    scopes,    \* the stored scopes: "none", "some" or "all"
    worker,    \* per goroutine: where it is, its copy of the token, its scopes, the row
    handler,   \* per request: where it is, its server, the values it has read, its result
    values,    \* per login: what the handlers have put into its context
    faults,
    latest,    \* history: the last login that was stored
    returned,  \* history: logins that got their token from Authenticate
    cutoff,    \* history: logins that did not wait for a handler any longer
    mixed,     \* history: a login overlapped with a refresh of another token, or the
               \* storing of a token was cut short
    lost       \* history: a refresh token was replaced and the new one not stored

vars == <<rotates, accepted, codes, epoch, character, row, rowId, scopes, worker, handler,
          values, faults, latest, returned, cutoff, mixed, lost>>
sso == <<rotates, accepted, codes>>
stored == <<character, row, rowId, scopes>>
browser == <<handler, values>>
history == <<latest, returned, cutoff, mixed, lost>>

Resting == [at |-> "idle", token |-> NoToken, scopes |-> "none", id |-> 0]
Ended == {"done", "failed", "aborted"}
Working(h) == handler[h].at \in {"exchange", "read", "assign"}
\* The login w did not store its token on its own.
Overlap(w) == \/ row.login # w
              \/ \E v \in Workers \ {w} : worker[v].at \in {"scopes", "refresh", "row", "store"}
Storing == \E w \in Workers : worker[w].at \in {"row", "store"}

TypeOK ==
    /\ row # NoToken => row \in Tokens /\ character
    /\ row = NoToken => scopes = "none"
    /\ \A w \in Workers : worker[w].at \in {"row", "store"} => worker[w].token \in Tokens
    /\ \A r \in Refreshers : worker[r].at \in {"idle", "scopes", "refresh", "row", "store"}
    /\ \A l \in Logins : worker[l].at \in {"idle", "wait", "stop", "character", "row", "store"} \cup Ended
    /\ \A l \in Logins : values[l] \subseteq {"token", "error"}
    /\ faults \in 0..MaxFaults /\ epoch \in 0..MaxExpiries

Init ==
    /\ rotates \in BOOLEAN /\ accepted = {<<Earlier, 0>>} /\ codes = {} /\ epoch = 0
    /\ character = TRUE /\ row = Token(Earlier, 0, 0) /\ rowId = 1 /\ scopes = "some"
    /\ worker = [w \in Workers |-> Resting]
    /\ handler = [h \in Handlers |-> [at |-> "idle", login |-> Earlier, base |-> {}, result |-> "none"]]
    /\ values = [l \in Logins |-> {}]
    /\ faults = 0
    /\ latest = Earlier /\ returned = {} /\ cutoff = {} /\ mixed = FALSE /\ lost = FALSE

Fault == faults < MaxFaults /\ faults' = faults + 1
Goto(w, a) == worker' = [worker EXCEPT ![w].at = a]
Leave(w) == worker' = [worker EXCEPT ![w] =
                          [Resting EXCEPT !.at = IF w \in Logins THEN "failed" ELSE "idle"]]

----------------------------------------------------------------------------
\* A goroutine that needs a token: the row, then its scopes.
GetCharacterToken(r) ==
    /\ worker[r].at = "idle" /\ row # NoToken
    /\ worker' = [worker EXCEPT ![r] = [Resting EXCEPT !.at = "scopes", !.token = row]]
    /\ UNCHANGED <<sso, epoch, stored, browser, faults, history>>

\* Mutant: a token is always taken for valid.
TrustToken(r) ==
    /\ worker[r].at = "scopes"
    /\ worker' = [worker EXCEPT ![r].at = "idle"]
    /\ UNCHANGED <<sso, epoch, stored, browser, faults, history>>
\* A token that remains valid is used as it is.
RemainsValid(r) ==
    /\ worker[r].at = "scopes"
    /\ worker' = [worker EXCEPT ![r] =
                     IF @.token.access = epoch THEN Resting
                     ELSE [@ EXCEPT !.at = "refresh", !.scopes = scopes]]
    /\ UNCHANGED <<sso, epoch, stored, browser, faults, history>>

\* The SSO server's part: it answers with a new access token, and replaces the
\* refresh token or not.
Refreshed(t) == [t EXCEPT !.access = epoch, !.refresh = IF rotates THEN @ + 1 ELSE @]
Accept(t) ==
    /\ <<t.login, t.refresh>> \in accepted
    /\ accepted' = (accepted \ {<<t.login, t.refresh>>})
                       \cup {<<t.login, Refreshed(t).refresh>>}
\* Mutant: the new refresh token is not taken over.
RefreshAccessOnly(r) ==
    /\ worker[r].at = "refresh"
    /\ Accept(worker[r].token)
    /\ worker' = [worker EXCEPT ![r].at = "row", ![r].token.access = epoch]
    /\ UNCHANGED <<rotates, codes, epoch, stored, browser, faults, history>>
RefreshToken(r) ==
    /\ worker[r].at = "refresh"
    /\ Accept(worker[r].token)
    /\ worker' = [worker EXCEPT ![r].at = "row", ![r].token = Refreshed(@)]
    /\ UNCHANGED <<rotates, codes, epoch, stored, browser, faults, history>>
RefreshRefused(r) ==
    /\ worker[r].at = "refresh"
    /\ <<worker[r].token.login, worker[r].token.refresh>> \notin accepted
    /\ Leave(r)
    /\ UNCHANGED <<sso, epoch, stored, browser, faults, history>>
\* The answer does not arrive, or its signature cannot be checked.
RefreshLost(r) ==
    /\ worker[r].at = "refresh"
    /\ Fault
    /\ Accept(worker[r].token)
    /\ Leave(r)
    /\ lost' = (lost \/ rotates)
    /\ UNCHANGED <<rotates, codes, epoch, stored, browser, latest, returned, cutoff, mixed>>

----------------------------------------------------------------------------
\* UpdateOrCreateCharacterToken: the row, which must belong to a character, ...
StoreRow(w) ==
    /\ worker[w].at = "row"
    /\ IF character
       THEN /\ row' = worker[w].token
            /\ rowId' = IF row = NoToken THEN rowId + 1 ELSE rowId
            /\ worker' = [worker EXCEPT ![w].at = "store", ![w].id = rowId']
            /\ mixed' = (mixed \/ (w \in Refreshers /\ (row = NoToken \/ row.login # worker[w].token.login))
                               \/ \E v \in Workers \ {w} : worker[v].at = "store"
                                                           /\ worker[v].token.login # worker[w].token.login)
       ELSE Leave(w) /\ UNCHANGED <<row, rowId, mixed>>
    /\ UNCHANGED <<sso, epoch, character, scopes, browser, faults, latest, returned, cutoff, lost>>

\* ... then the scopes in a transaction, which must belong to that row.
ReplaceScopes(w) ==
    /\ worker[w].at = "store"
    /\ IF row # NoToken /\ rowId = worker[w].id
       THEN /\ scopes' = worker[w].scopes
            /\ worker' = [worker EXCEPT ![w] = [Resting EXCEPT !.at = IF w \in Logins THEN "done" ELSE "idle"]]
            /\ latest' = IF w \in Logins THEN w ELSE latest
            /\ mixed' = IF w \in Logins THEN Overlap(w) ELSE mixed
       ELSE Leave(w) /\ UNCHANGED <<scopes, latest, mixed>>
    /\ UNCHANGED <<sso, epoch, character, row, rowId, browser, faults, returned, cutoff, lost>>

\* Storing fails.
FailStore(w) ==
    /\ worker[w].at \in {"character", "row", "store"}
    /\ Fault
    /\ Leave(w)
    /\ lost' = (lost \/ (w \in Refreshers /\ worker[w].at = "row" /\ rotates))
    /\ mixed' = (mixed \/ worker[w].at = "store")
    /\ UNCHANGED <<sso, epoch, stored, browser, latest, returned, cutoff>>

----------------------------------------------------------------------------
\* Authenticate: the server listens, the browser is opened.
Authenticate(l) ==
    /\ worker[l].at = "idle"
    /\ Goto(l, IF \E k \in Logins : worker[k].at = "wait" THEN "failed" ELSE "wait")
    /\ UNCHANGED <<sso, epoch, stored, browser, faults, history>>
\* The user closes the dialog: the context of the server is done.
Abort(l) ==
    /\ worker[l].at = "wait"
    /\ Goto(l, "stop")
    /\ UNCHANGED <<sso, epoch, stored, browser, faults, history>>

\* A browser calls back the server of l with the state of login s.
Callback(h, l, s) ==
    /\ handler[h].at = "idle" /\ worker[l].at = "wait"
    /\ s \in Logins => worker[s].at # "idle"
    /\ handler' = [handler EXCEPT ![h] =
                      IF s = l THEN [@ EXCEPT !.at = "exchange", !.login = l]
                      ELSE [@ EXCEPT !.at = "read", !.login = l, !.result = "error"]]
    /\ UNCHANGED <<sso, epoch, stored, worker, values, faults, history>>
\* A code is good for one token.  When the user has aborted, the context of the
\* check of the new token is done, and that can fail.
FetchNewToken(h) ==
    /\ handler[h].at = "exchange"
    /\ LET l == handler[h].login
           fails == \/ l \in codes /\ UNCHANGED faults
                    \/ worker[l].at # "wait" /\ values[l] = {} /\ UNCHANGED faults
                    \/ Fault
       IN \/ /\ l \notin codes
             /\ codes' = codes \cup {l} /\ accepted' = accepted \cup {<<l, 0>>}
             /\ handler' = [handler EXCEPT ![h].at = "read", ![h].result = "token"]
             /\ UNCHANGED faults
          \/ /\ fails
             /\ handler' = [handler EXCEPT ![h].at = "read", ![h].result = "error"]
             /\ UNCHANGED <<codes, accepted>>
    /\ UNCHANGED <<rotates, epoch, stored, worker, values, history>>
\* The result is added to the context of the server in two steps, without a
\* lock, and the context is cancelled.
ReadContext(h) ==
    /\ handler[h].at = "read"
    /\ handler' = [handler EXCEPT ![h].at = "assign", ![h].base = values[handler[h].login]]
    /\ UNCHANGED <<sso, epoch, stored, worker, values, faults, history>>
AssignContext(h) ==
    /\ handler[h].at = "assign"
    /\ handler' = [handler EXCEPT ![h].at = "done"]
    /\ LET l == handler[h].login
       IN /\ values' = [values EXCEPT ![l] = handler[h].base \cup {handler[h].result}]
          /\ IF worker[l].at = "wait" THEN Goto(l, "stop") ELSE UNCHANGED worker
    /\ UNCHANGED <<sso, epoch, stored, faults, history>>

\* What Authenticate returns: an error comes before a token.
Outcome(l) == IF "error" \in values[l] THEN "failed"
              ELSE IF "token" \in values[l] THEN "character" ELSE "aborted"
Return(l) ==
    /\ worker' = [worker EXCEPT ![l] =
                     IF Outcome(l) # "character" THEN [@ EXCEPT !.at = Outcome(l)]
                     ELSE [Resting EXCEPT !.at = "character", !.token = Token(l, 0, epoch), !.scopes = ScopesOf(l)]]
    /\ returned' = IF Outcome(l) = "character" THEN returned \cup {l} ELSE returned
    /\ UNCHANGED <<sso, epoch, stored, browser, faults, latest, mixed, lost>>
Busy(l) == \E h \in Handlers : handler[h].login = l /\ Working(h)
\* Mutants: the handlers are not waited for; they are for as long as it takes.
ShutdownAtOnce(l) ==
    /\ worker[l].at = "stop"
    /\ Return(l) /\ UNCHANGED cutoff
ShutdownPatiently(l) ==
    /\ worker[l].at = "stop" /\ ~Busy(l)
    /\ Return(l) /\ UNCHANGED cutoff
\* The shutdown waits five seconds for the handlers at work.
Shutdown(l) ==
    /\ worker[l].at = "stop"
    /\ cutoff' = IF Busy(l) THEN cutoff \cup {l} ELSE cutoff
    /\ Return(l)

\* UpdateOrCreateCharacterFromSSO goes on without the context of the dialog.
StoreCharacter(l) ==
    /\ worker[l].at = "character"
    /\ character' = TRUE
    /\ Goto(l, "row")
    /\ UNCHANGED <<sso, epoch, row, rowId, scopes, browser, faults, history>>

----------------------------------------------------------------------------
DeleteCharacter ==
    /\ character /\ Fault
    /\ character' = FALSE /\ row' = NoToken /\ scopes' = "none"
    /\ UNCHANGED <<sso, epoch, rowId, worker, browser, history>>

\* All tokens that were issued so far are about to expire.
Expire ==
    /\ epoch < MaxExpiries
    /\ epoch' = epoch + 1
    /\ UNCHANGED <<sso, stored, worker, browser, faults, history>>

\* The process ends and is started again.
Restart ==
    /\ Fault
    /\ worker' = [w \in Workers |->
                     IF worker[w].at \in {"idle"} \cup Ended THEN worker[w]
                     ELSE [Resting EXCEPT !.at = IF w \in Logins THEN "failed" ELSE "idle"]]
    /\ handler' = [h \in Handlers |-> IF Working(h) THEN [handler[h] EXCEPT !.at = "done", !.result = "error"]
                                      ELSE handler[h]]
    /\ cutoff' = cutoff \cup {l \in Logins : worker[l].at = "stop"}
    /\ lost' = (lost \/ (rotates /\ \E r \in Refreshers : worker[r].at = "row"))
    /\ mixed' = (mixed \/ \E w \in Workers : worker[w].at = "store")
    /\ UNCHANGED <<sso, epoch, stored, values, latest, returned>>

----------------------------------------------------------------------------
Refresh(r) == GetCharacterToken(r) \/ RemainsValid(r) \/ RefreshToken(r) \/ RefreshRefused(r)
Store(w) == StoreRow(w) \/ ReplaceScopes(w)
Finish(l) == Shutdown(l) \/ StoreCharacter(l)
Browser(h) == \/ \E l \in Logins, s \in Logins \cup {Earlier} : Callback(h, l, s)
              \/ FetchNewToken(h) \/ ReadContext(h) \/ AssignContext(h)
User == (\E l \in Logins : Authenticate(l) \/ Abort(l)) \/ DeleteCharacter
Failure == \/ \E r \in Refreshers : RefreshLost(r)
           \/ \E w \in Workers : FailStore(w)
           \/ Restart
Next == \/ \E r \in Refreshers : Refresh(r)
        \/ \E w \in Workers : Store(w)
        \/ \E l \in Logins : Finish(l)
        \/ \E h \in Handlers : Browser(h)
        \/ User \/ Expire \/ Failure

\* Sections are updated again and again, and goroutines are scheduled; nothing
\* is assumed of the browser and of what the handlers wait for.
Spec == /\ Init /\ [][Next]_vars
        /\ \A r \in Refreshers : WF_vars(Refresh(r) \/ Store(r))
        /\ \A l \in Logins : WF_vars(Finish(l) \/ Store(l))

----------------------------------------------------------------------------
\* The refresh token in the database is one that the SSO server accepts, also
\* when goroutines refresh it side by side: unless its successor is about to be
\* stored or was lost in a failure.
StoredTokenIsAccepted ==
    (row # NoToken /\ ~lost /\ \A r \in Refreshers : worker[r].at # "row")
        => <<row.login, row.refresh>> \in accepted

\* The stored token is that of the last login, with its scopes, when nobody is
\* storing one and neither an overlap nor a failure came between.
LoginIsKept ==
    (row # NoToken /\ ~Storing /\ ~mixed)
        => row.login = latest /\ scopes = ScopesOf(latest)

\* The stored token is the right one in both ways; every variable keeps its type.
StoredTokenIsRight == TypeOK /\ StoredTokenIsAccepted /\ LoginIsKept

\* When the page in the browser says that the login was successful, the login
\* has the token: unless another request failed or the login was cut off.
SuccessIsHeard ==
    \A h \in Handlers :
        LET l == handler[h].login
        IN (handler[h].at = "done" /\ handler[h].result = "token" /\ worker[l].at \notin {"wait", "stop"})
               => \/ l \in returned \cup cutoff
                  \/ \E k \in Handlers : handler[k].login = l /\ handler[k].result = "error"

\* A token that can be refreshed is valid in the end: goroutines that ask with a
\* token that was replaced meanwhile fail, and do better the next time.
TokenHeals ==
    <>[]((row # NoToken /\ <<row.login, row.refresh>> \in accepted) => row.access = epoch)

\* A login that the user or a callback has ended comes to an end, also when a
\* handler is never answered.
LoginsEnd == \A l \in Logins : (worker[l].at = "stop") ~> (worker[l].at \in Ended)
=============================================================================
