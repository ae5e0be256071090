-------------------------- MODULE CredentialsProofs --------------------------
(* Proofs about Credentials, for any goroutines, logins, requests and bounds. *)
EXTENDS Credentials, TLAPS

----------------------------------------------------------------------------
(* Type correctness *)

AllLogins == Logins \cup {Earlier}
ScopeSets == {"none", "some", "all"}
RefresherPlaces == {"idle", "scopes", "refresh", "row", "store"}
LoginPlaces == {"idle", "wait", "stop", "character", "row", "store", "done", "failed", "aborted"}
WorkerRecords == [at : RefresherPlaces \cup LoginPlaces, token : Tokens \cup {NoToken},
                  scopes : ScopeSets, id : Nat]
HandlerRecords == [at : {"idle", "exchange", "read", "assign", "done"}, login : AllLogins,
                   base : SUBSET {"token", "error"}, result : {"none", "token", "error"}]

SsoOK ==
    /\ rotates \in BOOLEAN /\ accepted \subseteq AllLogins \X Nat /\ codes \subseteq Logins
    /\ epoch \in 0..MaxExpiries /\ faults \in 0..MaxFaults
RowOK ==
    /\ character \in BOOLEAN /\ row \in Tokens \cup {NoToken} /\ rowId \in Nat
    /\ scopes \in ScopeSets
    /\ row # NoToken => character
    /\ row = NoToken => scopes = "none"
WorkersOK ==
    /\ worker \in [Workers -> WorkerRecords]
    /\ \A r \in Refreshers : /\ worker[r].at \in RefresherPlaces
                             /\ worker[r].at # "idle" => worker[r].token \in Tokens
    /\ \A l \in Logins : /\ worker[l].at \in LoginPlaces
                         /\ worker[l].at \in {"character", "row", "store"} =>
                               worker[l].token \in Tokens
BrowserOK ==
    /\ handler \in [Handlers -> HandlerRecords]
    /\ values \in [Logins -> SUBSET {"token", "error"}]
HistoryOK ==
    /\ latest \in AllLogins /\ returned \subseteq Logins /\ cutoff \subseteq Logins
    /\ mixed \in BOOLEAN /\ lost \in BOOLEAN
TypeInv == SsoOK /\ RowOK /\ WorkersOK /\ BrowserOK /\ HistoryOK

\* The bounds on time and faults are natural numbers.
LEMMA Bounds == MaxExpiries \in Nat /\ MaxFaults \in Nat
  BY CredentialsAssumption DEF CredentialsAssumption

\* Goroutines that refresh and logins are apart, and an earlier login is neither.
LEMMA Groups ==
    /\ Earlier \notin Logins
    /\ \A r \in Refreshers : r \in Workers /\ r \notin Logins
    /\ \A l \in Logins : l \in Workers /\ l \notin Refreshers /\ l # Earlier
    /\ \A w \in Workers : w \in Refreshers \/ w \in Logins
  BY CredentialsAssumption DEF CredentialsAssumption, Workers

\* What the proofs say of types is at least what the runs check.
LEMMA TypeInvIsType == TypeInv => TypeOK
<1>. SUFFICES ASSUME TypeInv PROVE TypeOK
  OBVIOUS
<1>. USE DEF TypeInv
<1>1. row # NoToken => row \in Tokens /\ character
  BY DEF RowOK
<1>2. row = NoToken => scopes = "none"
  BY DEF RowOK
<1>3. \A w \in Workers : worker[w].at \in {"row", "store"} => worker[w].token \in Tokens
  BY Groups DEF WorkersOK
<1>4. \A r \in Refreshers : worker[r].at \in {"idle", "scopes", "refresh", "row", "store"}
  BY DEF WorkersOK, RefresherPlaces
<1>5. \A l \in Logins :
         worker[l].at \in {"idle", "wait", "stop", "character", "row", "store"} \cup Ended
  BY DEF WorkersOK, LoginPlaces, Ended
<1>6. \A l \in Logins : values[l] \subseteq {"token", "error"}
  BY DEF BrowserOK
<1>. QED
  BY <1>1, <1>2, <1>3, <1>4, <1>5, <1>6 DEF TypeOK, SsoOK

\* The parts of a token, and the tokens that the server may issue.
LEMMA TokenFields ==
    /\ \A t \in Tokens : t.login \in AllLogins /\ t.refresh \in Nat /\ t.access \in 0..MaxExpiries
    /\ \A l \in AllLogins, n \in Nat, e \in 0..MaxExpiries :
          /\ Token(l, n, e) \in Tokens
          /\ Token(l, n, e).login = l /\ Token(l, n, e).refresh = n
  BY DEF Tokens, Token, AllLogins

\* A goroutine at rest may stand at any place next.
LEMMA RestingFields ==
    /\ Resting \in WorkerRecords /\ Resting.at = "idle"
    /\ \A a \in RefresherPlaces \cup LoginPlaces :
          /\ [Resting EXCEPT !.at = a] \in WorkerRecords
          /\ [Resting EXCEPT !.at = a].at = a
  BY DEF Resting, WorkerRecords, RefresherPlaces, LoginPlaces, ScopeSets

\* The types hold when the program has started.
LEMMA TypeInit == Init => TypeInv
<1>. SUFFICES ASSUME Init PROVE TypeInv
  OBVIOUS
<1>1. Earlier \in AllLogins /\ 0 \in 0..MaxExpiries /\ 0 \in 0..MaxFaults
  BY Bounds DEF AllLogins
<1>2. SsoOK
  BY <1>1 DEF Init, SsoOK
<1>3. RowOK
  BY <1>1, TokenFields, TokenAssumption DEF Init, RowOK, ScopeSets
<1>4. WorkersOK
  BY RestingFields, Groups DEF Init, WorkersOK, RefresherPlaces, LoginPlaces
<1>5. BrowserOK
  BY <1>1 DEF Init, BrowserOK, HandlerRecords
<1>6. HistoryOK
  BY <1>1 DEF Init, HistoryOK
<1>. QED
  BY <1>2, <1>3, <1>4, <1>5, <1>6 DEF TypeInv

----------------------------------------------------------------------------
(* What a step does to the goroutines *)

WorkersStay == worker' \in [Workers -> WorkerRecords]
Others(w) == \A v \in Workers \ {w} : worker'[v] = worker[v]
\* The goroutine w goes to a with its token and scopes.
Moves(w, a) ==
    /\ worker'[w].at = a /\ worker'[w].token = worker[w].token
    /\ worker'[w].scopes = worker[w].scopes

\* What a goroutine has in hand is of the right type.
LEMMA WorkerFields ==
    ASSUME WorkersOK, NEW w \in Workers
    PROVE  /\ worker[w] \in WorkerRecords
           /\ worker[w].at \in RefresherPlaces \cup LoginPlaces
           /\ worker[w].token \in Tokens \cup {NoToken}
           /\ worker[w].scopes \in ScopeSets /\ worker[w].id \in Nat
  BY DEF WorkersOK, WorkerRecords

\* A change of one goroutine leaves the others alone,
LEMMA Changed ==
    ASSUME WorkersOK, NEW w \in Workers, NEW x \in WorkerRecords,
           worker' = [worker EXCEPT ![w] = x]
    PROVE  WorkersStay /\ Others(w) /\ worker'[w] = x
  BY DEF WorkersOK, WorkersStay, Others

\* ... as going to another place does,
LEMMA Gone ==
    ASSUME WorkersOK, NEW w \in Workers, NEW a \in RefresherPlaces \cup LoginPlaces, Goto(w, a)
    PROVE  WorkersStay /\ Others(w) /\ Moves(w, a)
<1>. DEFINE x == [worker[w] EXCEPT !.at = a]
<1>1. worker[w] \in WorkerRecords
  BY WorkerFields
<1>2. /\ x \in WorkerRecords /\ x.at = a /\ x.token = worker[w].token
      /\ x.scopes = worker[w].scopes
  BY <1>1 DEF WorkerRecords
<1>3. worker' = [worker EXCEPT ![w] = x]
  BY DEF Goto
<1>. HIDE DEF x
<1>. QED
  BY <1>2, <1>3, Changed DEF Moves

\* ... and giving up.
LEMMA Left ==
    ASSUME WorkersOK, NEW w \in Workers, Leave(w)
    PROVE  /\ WorkersStay /\ Others(w)
           /\ worker'[w].at = IF w \in Logins THEN "failed" ELSE "idle"
<1>. DEFINE a == IF w \in Logins THEN "failed" ELSE "idle"
            x == [Resting EXCEPT !.at = a]
<1>1. a \in RefresherPlaces \cup LoginPlaces
  BY DEF RefresherPlaces, LoginPlaces
<1>2. worker' = [worker EXCEPT ![w] = x]
  BY DEF Leave
<1>. HIDE DEF a
<1>3. x \in WorkerRecords /\ x.at = a
  BY <1>1, RestingFields
<1>. HIDE DEF x
<1>. QED
  BY <1>2, <1>3, Changed DEF a

\* A goroutine that reads the token has what the row holds.
LEMMA Copied ==
    ASSUME WorkersOK, RowOK, NEW r \in Refreshers, GetCharacterToken(r)
    PROVE  /\ WorkersStay /\ Others(r) /\ row # NoToken /\ worker[r].at = "idle"
           /\ worker'[r].at = "scopes" /\ worker'[r].token = row
<1>. DEFINE x == [Resting EXCEPT !.at = "scopes", !.token = row]
<1>1. row \in Tokens /\ row # NoToken /\ worker[r].at = "idle"
      /\ worker' = [worker EXCEPT ![r] = x]
  BY DEF GetCharacterToken, RowOK
<1>2. x \in WorkerRecords /\ x.at = "scopes" /\ x.token = row
  BY <1>1 DEF Resting, WorkerRecords, RefresherPlaces, ScopeSets
<1>. HIDE DEF x
<1>. QED
  BY <1>1, <1>2, Changed, Groups

\* A token is good, or is going to be refreshed.
LEMMA Judged ==
    ASSUME WorkersOK, RowOK, NEW r \in Refreshers, RemainsValid(r)
    PROVE  /\ WorkersStay /\ Others(r) /\ worker[r].at = "scopes"
           /\ \/ worker'[r].at = "idle"
              \/ worker'[r].at = "refresh" /\ worker'[r].token = worker[r].token
                 /\ worker'[r].scopes = scopes
<1>. DEFINE x == [worker[r] EXCEPT !.at = "refresh", !.scopes = scopes]
<1>1. worker[r] \in WorkerRecords /\ scopes \in ScopeSets
  BY WorkerFields, Groups DEF RowOK
<1>2. /\ x \in WorkerRecords /\ x.at = "refresh" /\ x.token = worker[r].token /\ x.scopes = scopes
  BY <1>1 DEF WorkerRecords, RefresherPlaces
<1>3. worker[r].at = "scopes" /\ \E y \in {Resting, x} : worker' = [worker EXCEPT ![r] = y]
  BY <1>1 DEF RemainsValid
<1>. HIDE DEF x
<1>4. PICK y \in {Resting, x} : worker' = [worker EXCEPT ![r] = y]
  BY <1>3
<1>5. y \in WorkerRecords
  BY <1>2, RestingFields
<1>6. WorkersStay /\ Others(r) /\ worker'[r] = y
  BY <1>4, <1>5, Changed, Groups
<1>7. CASE y = Resting
  BY <1>3, <1>6, <1>7, RestingFields
<1>8. CASE y = x
  BY <1>2, <1>3, <1>6, <1>8
<1>. QED
  BY <1>4, <1>7, <1>8

Pair(t) == <<t.login, t.refresh>>

\* A refresh returns the next token of the same login.
LEMMA Renewed ==
    ASSUME WorkersOK, SsoOK, NEW r \in Refreshers, RefreshToken(r)
    PROVE  /\ WorkersStay /\ Others(r) /\ worker[r].at = "refresh" /\ worker'[r].at = "row"
           /\ worker'[r].token \in Tokens
           /\ worker'[r].token.login = worker[r].token.login
           /\ worker'[r].token.refresh = IF rotates THEN worker[r].token.refresh + 1
                                         ELSE worker[r].token.refresh
           /\ worker'[r].scopes = worker[r].scopes
           /\ Pair(worker[r].token) \in accepted
           /\ accepted' = (accepted \ {Pair(worker[r].token)}) \cup {Pair(worker'[r].token)}
<1>. DEFINE t == worker[r].token
            u == Refreshed(t)
            x == [worker[r] EXCEPT !.at = "row", !.token = u]
<1>1. worker[r] \in WorkerRecords /\ worker[r].at = "refresh" /\ t \in Tokens
  BY WorkerFields, Groups DEF RefreshToken, WorkersOK
<1>2. /\ u \in Tokens /\ u.login = t.login
      /\ u.refresh = IF rotates THEN t.refresh + 1 ELSE t.refresh
  <2>. HIDE DEF t
  <2>1. PICK n \in Nat : n = IF rotates THEN t.refresh + 1 ELSE t.refresh
    BY <1>1, TokenFields DEF SsoOK
  <2>2. u = [t EXCEPT !.access = epoch, !.refresh = n]
    BY <1>1, <2>1 DEF Refreshed, Tokens
  <2>. HIDE DEF u
  <2>3. u \in Tokens /\ u.login = t.login /\ u.refresh = n
    BY <1>1, <2>1, <2>2 DEF Tokens, SsoOK
  <2>. QED
    BY <2>1, <2>3
<1>3. worker' = [worker EXCEPT ![r] = x] /\ Accept(t)
  BY <1>1, Groups DEF RefreshToken, WorkersOK
<1>4. Pair(t) \in accepted /\ accepted' = (accepted \ {Pair(t)}) \cup {Pair(u)}
  BY <1>2, <1>3 DEF Accept, Pair
<1>. HIDE DEF u, t
<1>5. x \in WorkerRecords /\ x.at = "row" /\ x.token = u /\ x.scopes = worker[r].scopes
  BY <1>1, <1>2 DEF WorkerRecords, RefresherPlaces
<1>. HIDE DEF x
<1>6. WorkersStay /\ Others(r) /\ worker'[r] = x
  BY <1>3, <1>5, Changed, Groups
<1>. QED
  BY <1>1, <1>2, <1>4, <1>5, <1>6 DEF t

\* A lost answer: the server has replaced the token all the same.
LEMMA LostAnswer ==
    ASSUME WorkersOK, SsoOK, NEW r \in Refreshers, RefreshLost(r)
    PROVE  \E n \in Nat :
              /\ n = IF rotates THEN worker[r].token.refresh + 1 ELSE worker[r].token.refresh
              /\ worker[r].token \in Tokens /\ worker[r].at = "refresh"
              /\ Pair(worker[r].token) \in accepted
              /\ accepted' = (accepted \ {Pair(worker[r].token)})
                                \cup {<<worker[r].token.login, n>>}
              /\ accepted' \subseteq AllLogins \X Nat
<1>. DEFINE t == worker[r].token
<1>1. t \in Tokens /\ worker[r].at = "refresh" /\ Accept(t)
  BY DEF RefreshLost, WorkersOK
<1>. HIDE DEF t
<1>2. PICK n \in Nat : n = IF rotates THEN t.refresh + 1 ELSE t.refresh
  BY <1>1, TokenFields DEF SsoOK
<1>3. Refreshed(t) = [t EXCEPT !.access = epoch, !.refresh = n]
  BY <1>1, <1>2 DEF Refreshed, Tokens
<1>4. Refreshed(t).refresh = n
  BY <1>1, <1>3 DEF Tokens
<1>5. /\ Pair(t) \in accepted
      /\ accepted' = (accepted \ {Pair(t)}) \cup {<<t.login, n>>}
  BY <1>1, <1>4 DEF Accept, Pair
<1>6. accepted' \subseteq AllLogins \X Nat
  BY <1>1, <1>5, TokenFields DEF SsoOK
<1>. QED
  BY <1>1, <1>2, <1>5, <1>6 DEF t

\* Who stores a token has it in the row, of which it remembers the identity.
LEMMA RowStored ==
    ASSUME WorkersOK, RowOK, NEW w \in Workers, StoreRow(w), character
    PROVE  /\ WorkersStay /\ Others(w) /\ worker[w].at = "row"
           /\ worker[w].token \in Tokens
           /\ Moves(w, "store") /\ worker'[w].id = rowId'
           /\ row' = worker[w].token
           /\ rowId' \in Nat /\ rowId' = IF row = NoToken THEN rowId + 1 ELSE rowId
<1>. DEFINE x == [worker[w] EXCEPT !.at = "store", !.id = rowId']
<1>1. /\ worker[w] \in WorkerRecords /\ worker[w].at = "row"
      /\ worker[w].token \in Tokens
  BY WorkerFields, Groups DEF StoreRow, WorkersOK
<1>2. /\ row' = worker[w].token /\ rowId' = IF row = NoToken THEN rowId + 1 ELSE rowId
      /\ worker' = [worker EXCEPT ![w].at = "store", ![w].id = rowId']
  BY DEF StoreRow
<1>3. rowId' \in Nat
  BY <1>2 DEF RowOK
<1>4. worker' = [worker EXCEPT ![w] = x]
  BY <1>2
<1>5. PICK n \in Nat : n = rowId'
  BY <1>3
<1>6. /\ x \in WorkerRecords /\ x.at = "store" /\ x.token = worker[w].token
      /\ x.scopes = worker[w].scopes /\ x.id = rowId'
  BY <1>1, <1>5 DEF WorkerRecords, RefresherPlaces
<1>. HIDE DEF x
<1>7. WorkersStay /\ Others(w) /\ worker'[w] = x
  BY <1>4, <1>6, Changed
<1>. QED
  BY <1>1, <1>2, <1>3, <1>6, <1>7 DEF Moves

\* The scopes follow only into the row that was stored before.
LEMMA ScopesStored ==
    ASSUME WorkersOK, RowOK, NEW w \in Workers, ReplaceScopes(w)
    PROVE  /\ WorkersStay /\ Others(w) /\ worker[w].at = "store"
           /\ \/ /\ row # NoToken /\ rowId = worker[w].id
                 /\ scopes' = worker[w].scopes
                 /\ worker'[w].at = IF w \in Logins THEN "done" ELSE "idle"
                 /\ latest' = IF w \in Logins THEN w ELSE latest
                 /\ mixed' = IF w \in Logins THEN Overlap(w) ELSE mixed
              \/ /\ ~(row # NoToken /\ rowId = worker[w].id)
                 /\ worker'[w].at = IF w \in Logins THEN "failed" ELSE "idle"
                 /\ UNCHANGED <<scopes, latest, mixed>>
<1>1. worker[w].at = "store"
  BY DEF ReplaceScopes
<1>2. CASE row # NoToken /\ rowId = worker[w].id
  <2>. DEFINE a == IF w \in Logins THEN "done" ELSE "idle"
              x == [Resting EXCEPT !.at = a]
  <2>1. a \in RefresherPlaces \cup LoginPlaces
    BY DEF RefresherPlaces, LoginPlaces
  <2>2. /\ worker' = [worker EXCEPT ![w] = x]
        /\ scopes' = worker[w].scopes
        /\ latest' = IF w \in Logins THEN w ELSE latest
        /\ mixed' = IF w \in Logins THEN Overlap(w) ELSE mixed
    BY <1>2 DEF ReplaceScopes
  <2>. HIDE DEF a
  <2>3. x \in WorkerRecords /\ x.at = a
    BY <2>1, RestingFields
  <2>. HIDE DEF x
  <2>4. WorkersStay /\ Others(w) /\ worker'[w].at = a
    BY <2>2, <2>3, Changed
  <2>. QED
    BY <1>1, <1>2, <2>2, <2>4 DEF a
<1>3. CASE ~(row # NoToken /\ rowId = worker[w].id)
  BY <1>1, <1>3, Left DEF ReplaceScopes
<1>. QED
  BY <1>2, <1>3

\* What a login finds in its context when its server has ended.
LEMMA Returned ==
    ASSUME WorkersOK, SsoOK, NEW l \in Logins, Return(l)
    PROVE  /\ WorkersStay /\ Others(l)
           /\ worker'[l].at = Outcome(l)
           /\ Outcome(l) = "character" =>
                 /\ worker'[l].token \in Tokens
                 /\ worker'[l].token.login = l /\ worker'[l].token.refresh = 0
                 /\ worker'[l].scopes = ScopesOf(l)
           /\ returned' = IF Outcome(l) = "character" THEN returned \cup {l} ELSE returned
<1>1. /\ Outcome(l) \in {"failed", "character", "aborted"}
      /\ Outcome(l) \in RefresherPlaces \cup LoginPlaces
      /\ worker[l] \in WorkerRecords
  BY WorkerFields, Groups DEF Outcome, LoginPlaces
<1>2. CASE Outcome(l) # "character"
  <2>. DEFINE x == [worker[l] EXCEPT !.at = Outcome(l)]
  <2>1. worker' = [worker EXCEPT ![l] = x]
    BY <1>2 DEF Return
  <2>2. x \in WorkerRecords /\ x.at = Outcome(l)
    BY <1>1 DEF WorkerRecords
  <2>. HIDE DEF x
  <2>3. WorkersStay /\ Others(l) /\ worker'[l] = x
    BY <2>1, <2>2, Changed, Groups
  <2>. QED
    BY <1>2, <2>2, <2>3 DEF Return
<1>3. CASE Outcome(l) = "character"
  <2>. DEFINE t == Token(l, 0, epoch)
              x == [Resting EXCEPT !.at = "character", !.token = t, !.scopes = ScopesOf(l)]
  <2>1. worker' = [worker EXCEPT ![l] = x]
    BY <1>3 DEF Return
  <2>2. t \in Tokens /\ t.login = l /\ t.refresh = 0
    BY TokenFields DEF SsoOK, AllLogins
  <2>3. ScopesOf(l) \in ScopeSets
    BY DEF ScopesOf, ScopeSets
  <2>. HIDE DEF t
  <2>4. x \in WorkerRecords /\ x.at = "character" /\ x.token = t /\ x.scopes = ScopesOf(l)
    BY <2>2, <2>3 DEF Resting, WorkerRecords, LoginPlaces
  <2>. HIDE DEF x
  <2>5. WorkersStay /\ Others(l) /\ worker'[l] = x
    BY <2>1, <2>4, Changed, Groups
  <2>. QED
    BY <1>3, <2>2, <2>4, <2>5 DEF Return
<1>. QED
  BY <1>2, <1>3

\* After a restart only what had ended is left.
LEMMA Restarted ==
    ASSUME WorkersOK, Restart
    PROVE  /\ WorkersStay
           /\ \A w \in Workers :
                 \/ /\ worker[w].at \in {"idle"} \cup Ended
                    /\ worker'[w] = worker[w]
                 \/ /\ worker[w].at \notin {"idle"} \cup Ended
                    /\ worker'[w].at = IF w \in Logins THEN "failed" ELSE "idle"
<1>. DEFINE a(w) == IF w \in Logins THEN "failed" ELSE "idle"
            x(w) == [Resting EXCEPT !.at = a(w)]
            y(w) == IF worker[w].at \in {"idle"} \cup Ended THEN worker[w] ELSE x(w)
<1>1. worker' = [w \in Workers |-> y(w)]
  BY DEF Restart
<1>2. \A w \in Workers : a(w) \in RefresherPlaces \cup LoginPlaces
  BY DEF RefresherPlaces, LoginPlaces
<1>. HIDE DEF a
<1>3. \A w \in Workers : x(w) \in WorkerRecords /\ x(w).at = a(w)
  BY <1>2, RestingFields
<1>. HIDE DEF x
<1>4. \A w \in Workers : y(w) \in WorkerRecords
  BY <1>3, WorkerFields
<1>5. \A w \in Workers : worker'[w] = y(w)
  BY <1>1
<1>6. WorkersStay
  BY <1>1, <1>4 DEF WorkersStay
<1>7. ASSUME NEW w \in Workers
      PROVE  \/ /\ worker[w].at \in {"idle"} \cup Ended
                /\ worker'[w] = worker[w]
             \/ /\ worker[w].at \notin {"idle"} \cup Ended
                /\ worker'[w].at = a(w)
  BY <1>3, <1>5, <1>7
<1>. QED
  BY <1>6, <1>7 DEF a

----------------------------------------------------------------------------
(* Every step keeps the types *)

\* The goroutine w is where its kind can be, with a token where it needs one.
Placed(w) ==
    /\ w \in Refreshers => /\ worker[w].at \in RefresherPlaces
                           /\ worker[w].at # "idle" => worker[w].token \in Tokens
    /\ w \in Logins => /\ worker[w].at \in LoginPlaces
                       /\ worker[w].at \in {"character", "row", "store"} =>
                             worker[w].token \in Tokens

\* A goroutine that is well placed leaves all well placed,
LEMMA WorkersFit ==
    ASSUME WorkersOK, WorkersStay, NEW w \in Workers, Others(w), Placed(w)'
    PROVE  WorkersOK'
<1>1. \A v \in Workers : v # w => worker'[v] = worker[v]
  BY DEF Others
<1>2. ASSUME NEW r \in Refreshers
      PROVE  /\ worker'[r].at \in RefresherPlaces
             /\ worker'[r].at # "idle" => worker'[r].token \in Tokens
  BY <1>1, <1>2, Groups DEF Placed, WorkersOK
<1>3. ASSUME NEW l \in Logins
      PROVE  /\ worker'[l].at \in LoginPlaces
             /\ worker'[l].at \in {"character", "row", "store"} => worker'[l].token \in Tokens
  BY <1>1, <1>3, Groups DEF Placed, WorkersOK
<1>. QED
  BY <1>2, <1>3 DEF WorkersOK, WorkersStay

\* ... one that gives up is,
LEMMA LeftFits == ASSUME WorkersOK, NEW w \in Workers, Leave(w) PROVE WorkersOK'
<1>1. Placed(w)'
  BY Left, Groups DEF Placed, RefresherPlaces, LoginPlaces
<1>. QED
  BY <1>1, Left, WorkersFit

\* ... and so is a login that goes on with a token if it needs one.
LEMMA GoneFits ==
    ASSUME WorkersOK, NEW l \in Logins, NEW a \in LoginPlaces, Goto(l, a),
           a \notin {"character", "row", "store"} \/ worker[l].token \in Tokens
    PROVE  WorkersOK'
<1>1. WorkersStay /\ Others(l) /\ Moves(l, a)
  BY Gone, Groups
<1>2. Placed(l)'
  BY <1>1, Groups DEF Placed, Moves
<1>. QED
  BY <1>1, <1>2, WorkersFit, Groups

\* What a handler has in hand is of the right type.
LEMMA HandlerFields ==
    ASSUME BrowserOK, NEW h \in Handlers
    PROVE  /\ handler[h] \in HandlerRecords
           /\ handler[h].at \in {"idle", "exchange", "read", "assign", "done"}
           /\ handler[h].login \in AllLogins
           /\ handler[h].base \subseteq {"token", "error"}
           /\ handler[h].result \in {"none", "token", "error"}
  BY DEF BrowserOK, HandlerRecords

\* The other requests, and the request h that becomes x.
Requests(h) == \A g \in Handlers \ {h} : handler'[g] = handler[g]
\* A change of one handler leaves the others alone.
LEMMA HandlerChanged ==
    ASSUME BrowserOK, NEW h \in Handlers, NEW x \in HandlerRecords,
           handler' = [handler EXCEPT ![h] = x]
    PROVE  /\ handler' \in [Handlers -> HandlerRecords]
           /\ Requests(h) /\ handler'[h] = x
  BY DEF BrowserOK, Requests

\* What the steps of a request leave of it.
Answers(h, a, x) ==
    /\ handler' \in [Handlers -> HandlerRecords] /\ Requests(h)
    /\ handler'[h].at = a /\ handler'[h].result = x
    /\ handler'[h].base = handler[h].base

\* A callback begins with the request of a token, or with an error.
LEMMA Called ==
    ASSUME BrowserOK, NEW h \in Handlers, NEW l \in Logins, NEW s \in AllLogins,
           Callback(h, l, s)
    PROVE  /\ handler[h].at = "idle" /\ worker[l].at = "wait"
           /\ handler'[h].login = l
           /\ \/ Answers(h, "exchange", handler[h].result)
              \/ Answers(h, "read", "error")
<1>. DEFINE x == [handler[h] EXCEPT !.at = "exchange", !.login = l]
            y == [handler[h] EXCEPT !.at = "read", !.login = l, !.result = "error"]
<1>1. handler[h] \in HandlerRecords /\ l \in AllLogins
  BY HandlerFields DEF AllLogins
<1>2. /\ x \in HandlerRecords /\ x.at = "exchange" /\ x.login = l
      /\ x.result = handler[h].result /\ x.base = handler[h].base
  BY <1>1 DEF HandlerRecords
<1>3. /\ y \in HandlerRecords /\ y.at = "read" /\ y.login = l
      /\ y.result = "error" /\ y.base = handler[h].base
  BY <1>1 DEF HandlerRecords
<1>4. /\ handler[h].at = "idle" /\ worker[l].at = "wait"
      /\ \E z \in {x, y} : handler' = [handler EXCEPT ![h] = z]
  BY DEF Callback
<1>. HIDE DEF x, y
<1>5. PICK z \in {x, y} : handler' = [handler EXCEPT ![h] = z]
  BY <1>4
<1>6. handler' \in [Handlers -> HandlerRecords] /\ Requests(h) /\ handler'[h] = z
  BY <1>2, <1>3, <1>5, HandlerChanged
<1>. QED
  BY <1>2, <1>3, <1>4, <1>5, <1>6 DEF Answers

\* A request uses the code up and returns the first token, or an error.
LEMMA Fetched ==
    ASSUME BrowserOK, NEW h \in Handlers, FetchNewToken(h)
    PROVE  /\ handler[h].at = "exchange" /\ handler'[h].login = handler[h].login
           /\ \/ /\ handler[h].login \notin codes
                 /\ codes' = codes \cup {handler[h].login}
                 /\ accepted' = accepted \cup {<<handler[h].login, 0>>}
                 /\ Answers(h, "read", "token")
                 /\ UNCHANGED faults
              \/ /\ UNCHANGED <<codes, accepted>>
                 /\ Answers(h, "read", "error")
                 /\ faults' = faults \/ Fault
<1>. DEFINE x == [handler[h] EXCEPT !.at = "read", !.result = "token"]
            y == [handler[h] EXCEPT !.at = "read", !.result = "error"]
<1>1. handler[h] \in HandlerRecords
  BY HandlerFields
<1>2. /\ x \in HandlerRecords /\ x.at = "read" /\ x.login = handler[h].login
      /\ x.result = "token" /\ x.base = handler[h].base
  BY <1>1 DEF HandlerRecords
<1>3. /\ y \in HandlerRecords /\ y.at = "read" /\ y.login = handler[h].login
      /\ y.result = "error" /\ y.base = handler[h].base
  BY <1>1 DEF HandlerRecords
<1>4. handler' = [handler EXCEPT ![h].at = "read", ![h].result = "token"]
         => handler' = [handler EXCEPT ![h] = x]
  OBVIOUS
<1>5. handler' = [handler EXCEPT ![h].at = "read", ![h].result = "error"]
         => handler' = [handler EXCEPT ![h] = y]
  OBVIOUS
<1>. HIDE DEF x, y
<1>6. /\ handler[h].at = "exchange"
      /\ \/ /\ handler[h].login \notin codes
            /\ codes' = codes \cup {handler[h].login}
            /\ accepted' = accepted \cup {<<handler[h].login, 0>>}
            /\ handler' = [handler EXCEPT ![h] = x]
            /\ UNCHANGED faults
         \/ /\ UNCHANGED <<codes, accepted>>
            /\ handler' = [handler EXCEPT ![h] = y]
            /\ faults' = faults \/ Fault
  BY <1>4, <1>5, Zenon DEF FetchNewToken
<1>7. CASE /\ handler[h].login \notin codes
           /\ codes' = codes \cup {handler[h].login}
           /\ accepted' = accepted \cup {<<handler[h].login, 0>>}
           /\ handler' = [handler EXCEPT ![h] = x]
           /\ UNCHANGED faults
  <2>1. handler' \in [Handlers -> HandlerRecords] /\ Requests(h) /\ handler'[h] = x
    BY <1>2, <1>7, HandlerChanged
  <2>. QED
    BY <1>2, <1>6, <1>7, <2>1 DEF Answers
<1>8. CASE /\ UNCHANGED <<codes, accepted>>
           /\ handler' = [handler EXCEPT ![h] = y]
           /\ faults' = faults \/ Fault
  <2>1. handler' \in [Handlers -> HandlerRecords] /\ Requests(h) /\ handler'[h] = y
    BY <1>3, <1>8, HandlerChanged
  <2>. QED
    BY <1>3, <1>6, <1>8, <2>1 DEF Answers
<1>. QED
  BY <1>6, <1>7, <1>8

\* A handler reads what is in the context of its login,
LEMMA ContextRead ==
    ASSUME BrowserOK, NEW h \in Handlers, handler[h].login \in Logins, ReadContext(h)
    PROVE  /\ handler' \in [Handlers -> HandlerRecords] /\ Requests(h)
           /\ handler[h].at = "read" /\ handler'[h].at = "assign"
           /\ handler'[h].login = handler[h].login
           /\ handler'[h].result = handler[h].result
           /\ handler'[h].base = values[handler[h].login]
<1>. DEFINE b == values[handler[h].login]
            x == [handler[h] EXCEPT !.at = "assign", !.base = b]
<1>1. handler[h] \in HandlerRecords /\ b \in SUBSET {"token", "error"}
  BY HandlerFields DEF BrowserOK
<1>2. handler[h].at = "read" /\ handler' = [handler EXCEPT ![h] = x]
  BY DEF ReadContext
<1>. HIDE DEF b
<1>3. /\ x \in HandlerRecords /\ x.at = "assign" /\ x.login = handler[h].login
      /\ x.result = handler[h].result /\ x.base = b
  BY <1>1 DEF HandlerRecords
<1>. HIDE DEF x
<1>. QED
  BY <1>2, <1>3, HandlerChanged DEF b

\* ... and sets it to that and its own result.
LEMMA ContextAssigned ==
    ASSUME BrowserOK, NEW h \in Handlers, handler[h].login \in Logins,
           handler[h].result # "none", AssignContext(h)
    PROVE  /\ Answers(h, "done", handler[h].result)
           /\ handler[h].at = "assign" /\ handler'[h].login = handler[h].login
           /\ values' \in [Logins -> SUBSET {"token", "error"}]
           /\ values'[handler[h].login] = handler[h].base \cup {handler[h].result}
           /\ \A k \in Logins \ {handler[h].login} : values'[k] = values[k]
<1>. DEFINE x == [handler[h] EXCEPT !.at = "done"]
            l == handler[h].login
            b == handler[h].base \cup {handler[h].result}
<1>1. handler[h] \in HandlerRecords /\ b \in SUBSET {"token", "error"} /\ l \in Logins
  BY HandlerFields
<1>2. /\ handler[h].at = "assign" /\ handler' = [handler EXCEPT ![h] = x]
      /\ values' = [values EXCEPT ![l] = b]
  BY DEF AssignContext
<1>3. /\ x \in HandlerRecords /\ x.at = "done" /\ x.login = handler[h].login
      /\ x.result = handler[h].result /\ x.base = handler[h].base
  BY <1>1 DEF HandlerRecords
<1>. HIDE DEF x
<1>4. handler' \in [Handlers -> HandlerRecords] /\ Requests(h) /\ handler'[h] = x
  BY <1>2, <1>3, HandlerChanged
<1>. HIDE DEF b, l
<1>5. /\ values' \in [Logins -> SUBSET {"token", "error"}] /\ values'[l] = b
      /\ \A k \in Logins \ {l} : values'[k] = values[k]
  BY <1>1, <1>2 DEF BrowserOK
<1>. QED
  BY <1>2, <1>3, <1>4, <1>5 DEF b, l, Answers

\* After a restart no handler is at work.
LEMMA HandlersEnded ==
    ASSUME BrowserOK, Restart
    PROVE  /\ handler' \in [Handlers -> HandlerRecords]
           /\ \A h \in Handlers :
                 \/ ~Working(h) /\ handler'[h] = handler[h]
                 \/ /\ Working(h)
                    /\ handler'[h].at = "done" /\ handler'[h].result = "error"
                    /\ handler'[h].login = handler[h].login
                    /\ handler'[h].base = handler[h].base
<1>. DEFINE x(h) == [handler[h] EXCEPT !.at = "done", !.result = "error"]
<1>1. ASSUME NEW h \in Handlers
      PROVE  /\ x(h) \in HandlerRecords /\ x(h).at = "done" /\ x(h).result = "error"
             /\ x(h).login = handler[h].login /\ x(h).base = handler[h].base
             /\ handler[h] \in HandlerRecords
  <2>1. handler[h] \in HandlerRecords
    BY <1>1, HandlerFields
  <2>. QED
    BY <2>1 DEF HandlerRecords
<1>2. handler' = [h \in Handlers |-> IF Working(h) THEN x(h) ELSE handler[h]]
  BY DEF Restart
<1>. HIDE DEF x
<1>. QED
  BY <1>1, <1>2

\* A request that is at work belongs to a login and has a result to hand over.
RequestOK(h) ==
    /\ handler[h].at # "idle" => handler[h].login \in Logins
    /\ handler[h].at \in {"idle", "exchange"} => handler[h].result = "none"
    /\ handler[h].at \in {"idle", "exchange", "read"} => handler[h].base = {}
    /\ handler[h].at \in {"read", "assign"} => handler[h].result # "none"
RequestsOK == \A h \in Handlers : RequestOK(h)
Inv == TypeInv /\ RequestsOK

\* A handler that was not called has nothing in hand.
LEMMA RequestIdle ==
    ASSUME NEW h \in Handlers, RequestOK(h), handler[h].at = "idle"
    PROVE  handler[h].result = "none" /\ handler[h].base = {}
  BY DEF RequestOK

\* A request that is well formed leaves all well formed.
LEMMA RequestsFit ==
    ASSUME RequestsOK, NEW h \in Handlers, Requests(h), RequestOK(h)'
    PROVE  RequestsOK'
  BY DEF RequestsOK, RequestOK, Requests

\* The steps, one by one.
GoOn(r) == \/ GetCharacterToken(r) \/ RemainsValid(r) \/ RefreshToken(r)
           \/ RefreshRefused(r) \/ RefreshLost(r)
LogIn(l) == \/ Authenticate(l) \/ Abort(l) \/ Shutdown(l) \/ StoreCharacter(l)
Write(w) == StoreRow(w) \/ ReplaceScopes(w) \/ FailStore(w)
Answer(h) == FetchNewToken(h) \/ ReadContext(h) \/ AssignContext(h)

\* The kinds of steps, by who takes them.
LEMMA Steps ==
    ASSUME Next
    PROVE  \/ \E r \in Refreshers : GoOn(r)
           \/ \E l \in Logins : LogIn(l)
           \/ \E w \in Workers : Write(w)
           \/ \E h \in Handlers, l \in Logins, s \in AllLogins : Callback(h, l, s)
           \/ \E h \in Handlers : Answer(h)
           \/ DeleteCharacter \/ Expire \/ Restart
  BY Zenon DEF Next, Refresh, Store, Finish, Browser, User, Failure, GoOn, LogIn, Write,
     Answer, AllLogins

\* There are never more faults than the bound.
LEMMA FaultKeepsType ==
    ASSUME faults \in 0..MaxFaults, Fault \/ faults' = faults
    PROVE  faults' \in 0..MaxFaults
  BY Bounds DEF Fault

\* Types are kept by a goroutine that refreshes,
LEMMA RefresherKeepsType == ASSUME Inv, NEW r \in Refreshers, GoOn(r) PROVE Inv'
<1>. USE DEF Inv, TypeInv
<1>1. CASE GetCharacterToken(r)
  <2>1. Placed(r)'
    BY <1>1, Copied, Groups DEF Placed, RefresherPlaces, RowOK
  <2>2. WorkersOK'
    BY <1>1, <2>1, Copied, WorkersFit, Groups
  <2>. QED
    BY <1>1, <2>2 DEF GetCharacterToken, sso, stored, browser, history, SsoOK, RowOK,
       BrowserOK, HistoryOK, RequestsOK, RequestOK
<1>2. CASE RemainsValid(r)
  <2>1. Placed(r)'
    BY <1>2, Judged, Groups DEF Placed, RefresherPlaces, WorkersOK
  <2>2. WorkersOK'
    BY <1>2, <2>1, Judged, WorkersFit, Groups
  <2>. QED
    BY <1>2, <2>2 DEF RemainsValid, sso, stored, browser, history, SsoOK, RowOK,
       BrowserOK, HistoryOK, RequestsOK, RequestOK
<1>3. CASE RefreshToken(r)
  <2>1. Placed(r)'
    BY <1>3, Renewed, Groups DEF Placed, RefresherPlaces
  <2>2. WorkersOK'
    BY <1>3, <2>1, Renewed, WorkersFit, Groups
  <2>3. accepted' \subseteq AllLogins \X Nat
    <3>1. PICK u \in Tokens : accepted' = (accepted \ {Pair(worker[r].token)}) \cup {Pair(u)}
      BY <1>3, Renewed
    <3>2. Pair(u) \in AllLogins \X Nat
      BY TokenFields DEF Pair
    <3>. QED
      BY <3>1, <3>2 DEF SsoOK
  <2>4. UNCHANGED <<rotates, codes, epoch, stored, browser, faults, history>>
    BY <1>3 DEF RefreshToken
  <2>. QED
    BY <2>2, <2>3, <2>4 DEF stored, browser, history, SsoOK, RowOK, BrowserOK, HistoryOK,
       RequestsOK, RequestOK
<1>4. CASE RefreshRefused(r)
  <2>1. WorkersOK'
    BY <1>4, LeftFits, Groups DEF RefreshRefused
  <2>. QED
    BY <1>4, <2>1 DEF RefreshRefused, sso, stored, browser, history, SsoOK, RowOK,
       BrowserOK, HistoryOK, RequestsOK, RequestOK
<1>5. CASE RefreshLost(r)
  <2>1. WorkersOK'
    BY <1>5, LeftFits, Groups DEF RefreshLost
  <2>2. accepted' \subseteq AllLogins \X Nat
    BY <1>5, LostAnswer DEF SsoOK
  <2>3. /\ UNCHANGED <<rotates, codes, epoch, stored, browser, latest, returned, cutoff, mixed>>
        /\ lost' = (lost \/ rotates) /\ Fault
    BY <1>5 DEF RefreshLost
  <2>4. faults' \in 0..MaxFaults
    BY <2>3, FaultKeepsType DEF SsoOK
  <2>. QED
    BY <2>1, <2>2, <2>3, <2>4 DEF stored, browser, SsoOK, RowOK, BrowserOK, HistoryOK,
       RequestsOK, RequestOK
<1>. QED
  BY <1>1, <1>2, <1>3, <1>4, <1>5 DEF GoOn

\* ... by its writes and those of a login,
LEMMA WriteKeepsType == ASSUME Inv, NEW w \in Workers, Write(w) PROVE Inv'
<1>. USE DEF Inv, TypeInv
<1>1. CASE StoreRow(w) /\ character
  <2>1. Placed(w)'
    BY <1>1, RowStored, Groups DEF Placed, RefresherPlaces, LoginPlaces, Moves
  <2>2. WorkersOK'
    BY <1>1, <2>1, RowStored, WorkersFit
  <2>3. /\ UNCHANGED <<sso, epoch, character, scopes, browser, faults, latest, returned,
                       cutoff, lost>>
        /\ mixed' \in BOOLEAN
    BY <1>1, Zenon DEF StoreRow
  <2>4. row' \in Tokens /\ rowId' \in Nat
    BY <1>1, RowStored
  <2>. QED
    BY <1>1, <2>2, <2>3, <2>4, TokenAssumption DEF sso, browser, SsoOK, RowOK, BrowserOK,
       HistoryOK, RequestsOK, RequestOK
<1>2. CASE StoreRow(w) /\ ~character
  <2>1. WorkersOK'
    BY <1>2, LeftFits DEF StoreRow
  <2>2. UNCHANGED <<sso, epoch, stored, browser, faults, history>>
    BY <1>2 DEF StoreRow, stored, history
  <2>. QED
    BY <2>1, <2>2 DEF sso, stored, browser, history, SsoOK, RowOK, BrowserOK, HistoryOK,
       RequestsOK, RequestOK
<1>3. CASE ReplaceScopes(w)
  <2>1. Placed(w)'
    BY <1>3, ScopesStored, Groups DEF Placed, RefresherPlaces, LoginPlaces
  <2>2. WorkersOK'
    BY <1>3, <2>1, ScopesStored, WorkersFit
  <2>3. UNCHANGED <<sso, epoch, character, row, rowId, browser, faults, returned, cutoff, lost>>
    BY <1>3 DEF ReplaceScopes
  <2>4. /\ scopes' \in ScopeSets /\ latest' \in AllLogins /\ mixed' \in BOOLEAN
        /\ row = NoToken => scopes' = "none"
    BY <1>3, ScopesStored, WorkerFields, Groups DEF RowOK, HistoryOK, AllLogins, Overlap
  <2>. QED
    BY <2>2, <2>3, <2>4 DEF sso, browser, SsoOK, RowOK, BrowserOK, HistoryOK, RequestsOK,
       RequestOK
<1>4. CASE FailStore(w)
  <2>1. WorkersOK'
    BY <1>4, LeftFits DEF FailStore
  <2>2. /\ UNCHANGED <<sso, epoch, stored, browser, latest, returned, cutoff>>
        /\ lost' \in BOOLEAN /\ mixed' \in BOOLEAN /\ Fault
    BY <1>4, Zenon DEF FailStore
  <2>3. faults' \in 0..MaxFaults
    BY <2>2, FaultKeepsType DEF SsoOK
  <2>. QED
    BY <2>1, <2>2, <2>3 DEF sso, stored, browser, SsoOK, RowOK, BrowserOK, HistoryOK,
       RequestsOK, RequestOK
<1>. QED
  BY <1>1, <1>2, <1>3, <1>4 DEF Write

\* ... by a login,
LEMMA LoginKeepsType == ASSUME Inv, NEW l \in Logins, LogIn(l) PROVE Inv'
<1>. USE DEF Inv, TypeInv
<1>1. CASE Authenticate(l)
  <2>1. \E a \in {"failed", "wait"} : Goto(l, a)
    BY <1>1, Zenon DEF Authenticate
  <2>2. WorkersOK'
    BY <2>1, GoneFits DEF LoginPlaces
  <2>. QED
    BY <1>1, <2>2 DEF Authenticate, sso, stored, browser, history, SsoOK, RowOK,
       BrowserOK, HistoryOK, RequestsOK, RequestOK
<1>2. CASE Abort(l)
  <2>1. WorkersOK'
    BY <1>2, GoneFits DEF Abort, LoginPlaces
  <2>. QED
    BY <1>2, <2>1 DEF Abort, sso, stored, browser, history, SsoOK, RowOK,
       BrowserOK, HistoryOK, RequestsOK, RequestOK
<1>3. CASE Shutdown(l)
  <2>1. Return(l) /\ cutoff' \subseteq cutoff \cup {l}
    BY <1>3 DEF Shutdown
  <2>2. Placed(l)'
    BY <2>1, Returned, Groups DEF Placed, Outcome, LoginPlaces
  <2>3. WorkersOK'
    BY <2>1, <2>2, Returned, WorkersFit, Groups
  <2>4. UNCHANGED <<sso, epoch, stored, browser, faults, latest, mixed, lost>>
    BY <2>1 DEF Return
  <2>5. returned' \subseteq Logins
    BY <2>1, Returned DEF HistoryOK
  <2>. QED
    BY <2>1, <2>3, <2>4, <2>5 DEF sso, stored, browser, SsoOK, RowOK, BrowserOK, HistoryOK,
       RequestsOK, RequestOK
<1>4. CASE StoreCharacter(l)
  <2>1. WorkersOK'
    BY <1>4, GoneFits DEF StoreCharacter, LoginPlaces, WorkersOK
  <2>. QED
    BY <1>4, <2>1 DEF StoreCharacter, sso, browser, history, SsoOK, RowOK,
       BrowserOK, HistoryOK, RequestsOK, RequestOK
<1>. QED
  BY <1>1, <1>2, <1>3, <1>4 DEF LogIn

\* ... by a callback,
LEMMA CallbackKeepsType ==
    ASSUME Inv, NEW h \in Handlers, NEW l \in Logins, NEW s \in AllLogins, Callback(h, l, s)
    PROVE  Inv'
<1>. USE DEF Inv, TypeInv
<1>1. handler' \in [Handlers -> HandlerRecords] /\ Requests(h)
  BY Called DEF Answers
<1>2. RequestOK(h)'
  BY Called DEF Answers, RequestsOK, RequestOK
<1>3. RequestsOK'
  BY <1>1, <1>2, RequestsFit
<1>. QED
  BY <1>1, <1>3 DEF Callback, sso, stored, history, SsoOK, RowOK, WorkersOK, BrowserOK,
     HistoryOK

\* ... by a handler,
LEMMA AnswerKeepsType == ASSUME Inv, NEW h \in Handlers, Answer(h) PROVE Inv'
<1>. USE DEF Inv, TypeInv
<1>1. CASE FetchNewToken(h)
  <2>1. handler' \in [Handlers -> HandlerRecords] /\ Requests(h)
    BY <1>1, Fetched DEF Answers
  <2>2. handler[h].login \in Logins
    BY <1>1, Fetched DEF RequestsOK, RequestOK
  <2>3. RequestOK(h)'
    BY <1>1, <2>2, Fetched DEF Answers, RequestsOK, RequestOK
  <2>4. RequestsOK'
    BY <2>1, <2>3, RequestsFit
  <2>5. UNCHANGED <<rotates, epoch, stored, worker, values, history>>
    BY <1>1 DEF FetchNewToken
  <2>6. accepted' \subseteq AllLogins \X Nat /\ codes' \subseteq Logins
    BY <1>1, <2>2, Fetched DEF SsoOK, AllLogins
  <2>7. faults' \in 0..MaxFaults
    BY <1>1, Fetched, FaultKeepsType DEF SsoOK
  <2>. QED
    BY <2>1, <2>4, <2>5, <2>6, <2>7 DEF stored, history, SsoOK, RowOK, WorkersOK, BrowserOK,
       HistoryOK
<1>2. CASE ReadContext(h)
  <2>1. handler[h].login \in Logins
    BY <1>2 DEF ReadContext, RequestsOK, RequestOK
  <2>2. handler' \in [Handlers -> HandlerRecords] /\ Requests(h)
    BY <1>2, <2>1, ContextRead
  <2>3. RequestOK(h)'
    BY <1>2, <2>1, ContextRead DEF RequestsOK, RequestOK
  <2>4. RequestsOK'
    BY <2>2, <2>3, RequestsFit
  <2>. QED
    BY <1>2, <2>2, <2>4 DEF ReadContext, sso, stored, history, SsoOK, RowOK, WorkersOK,
       BrowserOK, HistoryOK
<1>3. CASE AssignContext(h)
  <2>1. handler[h].login \in Logins /\ handler[h].result # "none"
    BY <1>3 DEF AssignContext, RequestsOK, RequestOK
  <2>2. /\ handler' \in [Handlers -> HandlerRecords] /\ Requests(h)
        /\ values' \in [Logins -> SUBSET {"token", "error"}]
    BY <1>3, <2>1, ContextAssigned DEF Answers
  <2>3. RequestOK(h)'
    BY <1>3, <2>1, ContextAssigned DEF Answers, RequestOK
  <2>4. RequestsOK'
    BY <2>2, <2>3, RequestsFit
  <2>5. WorkersOK'
    <3>1. Goto(handler[h].login, "stop") \/ UNCHANGED worker
      BY <1>3, Zenon DEF AssignContext
    <3>2. CASE Goto(handler[h].login, "stop")
      BY <2>1, <3>2, GoneFits DEF LoginPlaces
    <3>3. CASE UNCHANGED worker
      BY <3>3 DEF WorkersOK
    <3>. QED
      BY <3>1, <3>2, <3>3
  <2>6. UNCHANGED <<sso, epoch, stored, faults, history>>
    BY <1>3 DEF AssignContext
  <2>. QED
    BY <2>2, <2>4, <2>5, <2>6 DEF sso, stored, history, SsoOK, RowOK, BrowserOK, HistoryOK
<1>. QED
  BY <1>1, <1>2, <1>3 DEF Answer

\* ... by a restart,
LEMMA RestartKeepsType == ASSUME Inv, Restart PROVE Inv'
<1>. USE DEF Inv, TypeInv
<1>1. WorkersOK'
  <2>1. ASSUME NEW w \in Workers PROVE Placed(w)'
    BY <2>1, Restarted, Groups DEF Placed, WorkersOK, Ended, RefresherPlaces, LoginPlaces
  <2>. QED
    BY <2>1, Restarted, Groups DEF WorkersOK, WorkersStay, Placed
<1>2. handler' \in [Handlers -> HandlerRecords] /\ RequestsOK'
  <2>1. ASSUME NEW h \in Handlers
        PROVE  handler'[h] \in HandlerRecords /\ RequestOK(h)'
    BY <2>1, HandlersEnded, HandlerFields DEF RequestsOK, RequestOK, Working
  <2>. QED
    BY <2>1, HandlersEnded DEF RequestsOK
<1>3. /\ UNCHANGED <<sso, epoch, stored, values, latest, returned>>
      /\ cutoff' \subseteq cutoff \cup Logins /\ Fault
      /\ lost' \in BOOLEAN /\ mixed' \in BOOLEAN
  BY Zenon DEF Restart
<1>4. faults' \in 0..MaxFaults
  BY <1>3, FaultKeepsType DEF SsoOK
<1>. QED
  BY <1>1, <1>2, <1>3, <1>4 DEF sso, stored, SsoOK, RowOK, BrowserOK, HistoryOK

\* ... and therefore by every step.
LEMMA TypeStep == Inv /\ [Next]_vars => Inv'
<1>. SUFFICES ASSUME Inv, [Next]_vars PROVE Inv'
  OBVIOUS
<1>. USE DEF Inv, TypeInv
<1>1. CASE DeleteCharacter
  <2>1. faults' \in 0..MaxFaults
    BY <1>1, FaultKeepsType DEF DeleteCharacter, SsoOK
  <2>. QED
    BY <1>1, <2>1 DEF DeleteCharacter, sso, browser, history, SsoOK, RowOK, ScopeSets,
       WorkersOK, BrowserOK, HistoryOK, RequestsOK, RequestOK
<1>2. CASE Expire
  <2>1. epoch' \in 0..MaxExpiries
    BY <1>2, Bounds DEF Expire, SsoOK
  <2>. QED
    BY <1>2, <2>1 DEF Expire, sso, stored, browser, history, SsoOK, RowOK, WorkersOK,
       BrowserOK, HistoryOK, RequestsOK, RequestOK
<1>3. CASE UNCHANGED vars
  BY <1>3 DEF vars, SsoOK, RowOK, WorkersOK, BrowserOK, HistoryOK, RequestsOK, RequestOK
<1>. QED
  BY <1>1, <1>2, <1>3, Steps, RefresherKeepsType, WriteKeepsType, LoginKeepsType,
     CallbackKeepsType, AnswerKeepsType, RestartKeepsType

----------------------------------------------------------------------------
(* SuccessIsHeard: what the requests of a login have told it *)

\* A request of the login l was answered with an error.
Error(l) == \E k \in Handlers : handler[k].login = l /\ handler[k].result = "error"
\* What the context of the login l holds comes from its requests.
Context(l) ==
    /\ "token" \in values[l] => l \in codes
    /\ "error" \in values[l] => Error(l)
\* A request of l that is done and has got the token has told it in time, or
\* another one has told it an error, or l did not wait.
Told(h, l) ==
    handler[h].at = "done" /\ handler[h].result = "token" =>
        /\ worker[l].at # "wait"
        /\ worker[l].at = "stop" =>
              Error(l) \/ ("token" \in values[l] /\ "error" \notin values[l])
        /\ worker[l].at # "stop" => Error(l) \/ l \in returned \cup cutoff
About(h, l) ==
    handler[h].login = l =>
        /\ handler[h].at # "idle" => worker[l].at # "idle"
        /\ handler[h].result = "token" \/ "token" \in handler[h].base => l \in codes
        /\ "error" \in handler[h].base => Error(l)
        /\ Working(h) => worker[l].at \in {"wait", "stop"} \/ l \in cutoff
        /\ Told(h, l)
HeardInv == \A l \in Logins : Context(l) /\ \A h \in Handlers : About(h, l)

\* No login has begun when the program has started.
LEMMA HeardInit == Init => HeardInv
<1>. SUFFICES ASSUME Init, NEW l \in Logins
              PROVE  Context(l) /\ \A h \in Handlers : About(h, l)
  BY DEF HeardInv
<1>1. Context(l)
  BY DEF Init, Context
<1>2. \A h \in Handlers : handler[h].login = Earlier
  BY DEF Init
<1>. QED
  BY <1>1, <1>2, Groups DEF About

\* A login that leaves its requests in peace: it starts, it closes its server,
\* or it had no server before and has none after.
Peaceful(l) ==
    \/ worker'[l].at = worker[l].at
    \/ worker[l].at = "idle"
       /\ worker'[l].at # "idle"
    \/ worker[l].at = "wait"
       /\ worker'[l].at = "stop"
    \/ /\ worker[l].at \notin {"idle", "wait", "stop"}
       /\ worker'[l].at \notin {"idle", "wait", "stop"}

\* What does not touch browser and logins keeps what was heard,
LEMMA PeacefulKeepsHeard ==
    ASSUME Inv, HeardInv, UNCHANGED browser, codes \subseteq codes',
           returned \subseteq returned', cutoff \subseteq cutoff',
           \A l \in Logins : Peaceful(l)
    PROVE  HeardInv'
<1>. SUFFICES ASSUME NEW l \in Logins
              PROVE  Context(l)' /\ \A h \in Handlers : About(h, l)'
  BY DEF HeardInv
<1>1. Context(l) /\ Peaceful(l) /\ handler' = handler /\ values' = values
  BY DEF HeardInv, browser
<1>2. Error(l)' <=> Error(l)
  BY <1>1 DEF Error
<1>3. Context(l)'
  BY <1>1, <1>2 DEF Context
<1>4. ASSUME NEW h \in Handlers PROVE About(h, l)'
  <2>1. About(h, l) /\ RequestOK(h)
    BY <1>4 DEF HeardInv, Inv, RequestsOK
  <2>. SUFFICES ASSUME handler[h].login = l PROVE About(h, l)'
    BY <1>1 DEF About
  <2>2. CASE handler[h].at = "idle"
    BY <1>1, <2>1, <2>2, RequestIdle DEF About, Told, Working
  <2>3. CASE handler[h].at # "idle"
    <3>1. Told(h, l)'
      BY <1>1, <1>2, <2>1, <2>3 DEF About, Told, Peaceful
    <3>. QED
      BY <1>1, <1>2, <2>1, <2>3, <3>1 DEF About, Peaceful, Working
  <2>. QED
    BY <2>2, <2>3
<1>. QED
  BY <1>3, <1>4

\* ... the end of a server does, which handlers may outlive,
LEMMA ShutdownKeepsHeard ==
    ASSUME Inv, HeardInv, NEW k \in Logins, Shutdown(k)
    PROVE  HeardInv'
<1>. SUFFICES ASSUME NEW l \in Logins
              PROVE  Context(l)' /\ \A h \in Handlers : About(h, l)'
  BY DEF HeardInv
<1>1. /\ Return(k) /\ worker[k].at = "stop" /\ handler' = handler /\ values' = values
      /\ codes' = codes
      /\ cutoff' = IF Busy(k) THEN cutoff \cup {k} ELSE cutoff
  BY DEF Shutdown, Return, browser, sso
<1>2. /\ \A v \in Workers \ {k} : worker'[v] = worker[v]
      /\ worker'[k].at = Outcome(k)
      /\ returned' = IF Outcome(k) = "character" THEN returned \cup {k} ELSE returned
  BY <1>1, Returned DEF Inv, TypeInv, Others
<1>3. Outcome(k) \notin {"idle", "wait", "stop"}
  BY DEF Outcome
<1>4. Error(l)' <=> Error(l)
  BY <1>1 DEF Error
<1>5. Context(l)' /\ Context(l)
  BY <1>1, <1>4 DEF Context, HeardInv
<1>6. ASSUME NEW h \in Handlers PROVE About(h, l)'
  <2>1. About(h, l)
    BY <1>6 DEF HeardInv
  <2>2. CASE l # k
    <3>1. worker'[l] = worker[l]
      BY <1>2, <2>2, Groups
    <3>2. (l \in returned => l \in returned') /\ (l \in cutoff => l \in cutoff')
      BY <1>1, <1>2
    <3>3. Told(h, l) => Told(h, l)'
      BY <1>1, <1>4, <3>1, <3>2 DEF Told
    <3>. QED
      BY <1>1, <1>4, <2>1, <3>1, <3>2, <3>3 DEF About, Working
  <2>3. CASE l = k
    <3>. SUFFICES ASSUME handler[h].login = l PROVE About(h, l)'
      BY <1>1 DEF About
    <3>1. Working(h) => l \in cutoff'
      BY <1>1, <1>6, <2>3 DEF Busy
    <3>2. Told(h, l)'
      BY <1>1, <1>2, <1>3, <1>4, <1>6, <2>1, <2>3 DEF About, Told, Outcome
    <3>. QED
      BY <1>1, <1>2, <1>3, <1>4, <2>1, <2>3, <3>1, <3>2 DEF About, Working
  <2>. QED
    BY <2>2, <2>3
<1>. QED
  BY <1>5, <1>6

\* Errors that were given stay given.
LEMMA ErrorStays ==
    ASSUME NEW h \in Handlers, Requests(h), NEW l \in Logins, Error(l),
           \/ handler[h].result = "none"
           \/ /\ handler'[h].login = handler[h].login
              /\ handler'[h].result = handler[h].result
    PROVE  Error(l)'
  BY DEF Error, Requests

\* The requests but h keep what holds of them when their logins stay where they
\* are, or close their server for the answer of h.
LEMMA OthersKeepAbout ==
    ASSUME HeardInv, NEW h \in Handlers, Requests(h), NEW l \in Logins,
           NEW g \in Handlers \ {h}, Error(l) => Error(l)',
           codes \subseteq codes', UNCHANGED <<returned, cutoff>>,
           \/ worker'[l].at = worker[l].at
           \/ worker[l].at = "wait"
              /\ worker'[l].at = "stop",
           \/ values'[l] = values[l]
           \/ Error(l)'
           \/ values'[l] = {"token"}
    PROVE  About(g, l)'
<1>1. About(g, l) /\ handler'[g] = handler[g]
  BY DEF HeardInv, Requests
<1>2. Told(g, l) => Told(g, l)'
  BY <1>1 DEF Told
<1>. QED
  BY <1>1, <1>2 DEF About, Working

\* ... a callback does,
LEMMA CallbackKeepsHeard ==
    ASSUME Inv, HeardInv, NEW h \in Handlers, NEW k \in Logins, NEW s \in AllLogins,
           Callback(h, k, s)
    PROVE  HeardInv'
<1>. SUFFICES ASSUME NEW l \in Logins
              PROVE  Context(l)' /\ \A g \in Handlers : About(g, l)'
  BY DEF HeardInv
<1>1. /\ Requests(h) /\ handler[h].at = "idle" /\ worker[k].at = "wait"
      /\ handler'[h].login = k /\ handler'[h].base = handler[h].base
      /\ \/ handler'[h].at = "exchange" /\ handler'[h].result = handler[h].result
         \/ handler'[h].at = "read" /\ handler'[h].result = "error"
  BY Called DEF Inv, TypeInv, Answers
<1>2. /\ UNCHANGED <<worker, values, codes, returned, cutoff>>
  BY DEF Callback, sso, history
<1>3. handler[h].result = "none" /\ handler[h].base = {}
  BY <1>1 DEF Inv, RequestsOK, RequestOK
<1>4. Error(l) => Error(l)'
  BY <1>1, <1>3, ErrorStays
<1>5. Context(l)'
  BY <1>2, <1>4 DEF HeardInv, Context
<1>6. About(h, l)'
  BY <1>1, <1>2, <1>3 DEF About, Told
<1>7. \A g \in Handlers \ {h} : About(g, l)'
  BY <1>1, <1>2, <1>4, OthersKeepAbout
<1>. QED
  BY <1>5, <1>6, <1>7

\* ... a handler that overwrites the result of another one does,
LEMMA AnswerKeepsHeard ==
    ASSUME Inv, HeardInv, NEW h \in Handlers, Answer(h)
    PROVE  HeardInv'
<1>. SUFFICES ASSUME NEW l \in Logins
              PROVE  Context(l)' /\ \A g \in Handlers : About(g, l)'
  BY DEF HeardInv
<1>1. RequestOK(h) /\ BrowserOK /\ Context(l) /\ About(h, l)
  BY DEF Inv, TypeInv, RequestsOK, HeardInv
<1>2. CASE FetchNewToken(h)
  <2>1. /\ UNCHANGED <<worker, values, returned, cutoff>>
        /\ Requests(h) /\ handler[h].at = "exchange"
        /\ handler'[h].login = handler[h].login /\ handler'[h].at = "read"
        /\ handler'[h].base = handler[h].base
        /\ codes \subseteq codes'
        /\ handler'[h].result = "token" => handler[h].login \in codes'
    BY <1>1, <1>2, Fetched DEF FetchNewToken, history, Answers
  <2>2. handler[h].result = "none" /\ handler[h].base = {}
    BY <1>1, <2>1 DEF RequestOK
  <2>3. Error(l) => Error(l)'
    BY <2>1, <2>2, ErrorStays
  <2>4. Context(l)'
    BY <1>1, <2>1, <2>3 DEF Context
  <2>5. About(h, l)'
    BY <1>1, <2>1, <2>2 DEF About, Told, Working
  <2>6. \A g \in Handlers \ {h} : About(g, l)'
    BY <2>1, <2>3, OthersKeepAbout
  <2>. QED
    BY <2>4, <2>5, <2>6
<1>3. CASE ReadContext(h)
  <2>1. /\ UNCHANGED <<worker, values, codes, returned, cutoff>>
        /\ Requests(h) /\ handler[h].at = "read" /\ handler'[h].at = "assign"
        /\ handler'[h].login = handler[h].login
        /\ handler'[h].result = handler[h].result
        /\ handler'[h].base = values[handler[h].login]
    BY <1>1, <1>3, ContextRead DEF ReadContext, sso, history, RequestOK
  <2>2. Error(l) => Error(l)'
    BY <2>1, ErrorStays
  <2>3. Context(l)'
    BY <1>1, <2>1, <2>2 DEF Context
  <2>4. About(h, l)'
    BY <1>1, <2>1, <2>2 DEF About, Told, Working, Context
  <2>5. \A g \in Handlers \ {h} : About(g, l)'
    BY <2>1, <2>2, OthersKeepAbout
  <2>. QED
    BY <2>3, <2>4, <2>5
<1>4. CASE AssignContext(h)
  <2>1. handler[h].login \in Logins /\ handler[h].result # "none"
        /\ handler[h].result \in {"token", "error"}
    BY <1>1, <1>4, HandlerFields DEF AssignContext, RequestOK
  <2>2. /\ UNCHANGED <<codes, returned, cutoff>>
        /\ Requests(h) /\ handler[h].at = "assign" /\ handler'[h].at = "done"
        /\ handler'[h].login = handler[h].login
        /\ handler'[h].result = handler[h].result
        /\ handler'[h].base = handler[h].base
        /\ values'[handler[h].login] = handler[h].base \cup {handler[h].result}
        /\ \A k \in Logins \ {handler[h].login} : values'[k] = values[k]
    BY <1>1, <1>4, <2>1, ContextAssigned DEF AssignContext, sso, history, Answers
  <2>3. Error(l) => Error(l)'
    BY <2>2, ErrorStays
  <2>4. \/ worker[handler[h].login].at # "wait" /\ worker' = worker
        \/ worker[handler[h].login].at = "wait" /\ Goto(handler[h].login, "stop")
    BY <1>4 DEF AssignContext
  <2>5. IF l = handler[h].login /\ worker[l].at = "wait" THEN worker'[l].at = "stop"
                                                         ELSE worker'[l].at = worker[l].at
    <3>1. CASE worker' = worker
      BY <2>4, <3>1, Groups, Gone, <2>1 DEF Moves, Inv, TypeInv, LoginPlaces
    <3>2. CASE worker[handler[h].login].at = "wait" /\ Goto(handler[h].login, "stop")
      BY <2>1, <3>2, Groups, Gone DEF Moves, Others, Inv, TypeInv, LoginPlaces
    <3>. QED
      BY <2>4, <3>1, <3>2
  <2>6. CASE l # handler[h].login
    <3>1. values'[l] = values[l] /\ worker'[l].at = worker[l].at
      BY <2>2, <2>5, <2>6
    <3>2. Context(l)' /\ About(h, l)'
      BY <1>1, <2>2, <2>3, <2>6, <3>1 DEF Context, About
    <3>3. \A g \in Handlers \ {h} : About(g, l)'
      BY <2>2, <2>3, <3>1, OthersKeepAbout
    <3>. QED
      BY <3>2, <3>3
  <2>7. CASE l = handler[h].login
    <3>1. /\ values'[l] = handler[h].base \cup {handler[h].result}
          /\ handler[h].base \subseteq {"token", "error"}
      BY <1>1, <2>2, <2>7, HandlerFields
    <3>2. "error" \in values'[l] => Error(l)'
      <4>1. CASE handler[h].result = "error"
        BY <2>2, <2>7, <4>1 DEF Error
      <4>2. CASE handler[h].result # "error"
        BY <1>1, <2>3, <2>7, <3>1, <4>2 DEF About
      <4>. QED
        BY <4>1, <4>2
    <3>3. "token" \in values'[l] => l \in codes'
      BY <1>1, <2>2, <2>7, <3>1 DEF About
    <3>4. Context(l)'
      BY <3>2, <3>3 DEF Context
    <3>5. Error(l)' \/ values'[l] = {"token"}
      BY <2>1, <3>1, <3>2
    <3>6. worker[l].at \in {"wait", "stop"} \/ l \in cutoff
      BY <1>1, <2>2, <2>7 DEF About, Working
    <3>7. Told(h, l)'
      BY <2>2, <2>5, <2>7, <3>5, <3>6 DEF Told
    <3>8. About(h, l)'
      BY <1>1, <2>2, <2>3, <2>5, <2>7, <3>7 DEF About, Working
    <3>9. \A g \in Handlers \ {h} : About(g, l)'
      BY <2>2, <2>3, <2>5, <3>5, OthersKeepAbout
    <3>. QED
      BY <3>4, <3>8, <3>9
  <2>. QED
    BY <2>6, <2>7
<1>. QED
  BY <1>2, <1>3, <1>4 DEF Answer

\* ... a restart does,
LEMMA RestartKeepsHeard == ASSUME Inv, HeardInv, Restart PROVE HeardInv'
<1>. SUFFICES ASSUME NEW l \in Logins
              PROVE  Context(l)' /\ \A h \in Handlers : About(h, l)'
  BY DEF HeardInv
<1>1. /\ UNCHANGED <<codes, values, returned>>
      /\ cutoff' = cutoff \cup {k \in Logins : worker[k].at = "stop"}
  BY DEF Restart, sso
<1>2. \A h \in Handlers :
         \/ ~Working(h) /\ handler'[h] = handler[h]
         \/ /\ Working(h)
            /\ handler'[h].at = "done" /\ handler'[h].result = "error"
            /\ handler'[h].login = handler[h].login
            /\ handler'[h].base = handler[h].base
  BY HandlersEnded DEF Inv, TypeInv
<1>3. \/ worker[l].at \in {"idle"} \cup Ended /\ worker'[l] = worker[l]
      \/ worker[l].at \notin {"idle"} \cup Ended /\ worker'[l].at = "failed"
  BY Restarted, Groups DEF Inv, TypeInv
<1>4. Error(l) => Error(l)'
  BY <1>2 DEF Error
<1>5. Context(l)'
  BY <1>1, <1>4 DEF HeardInv, Context
<1>6. ASSUME NEW h \in Handlers PROVE About(h, l)'
  <2>1. About(h, l)
    BY <1>6 DEF HeardInv
  <2>2. CASE Working(h)
    BY <1>1, <1>2, <1>3, <1>4, <1>6, <2>1, <2>2 DEF About, Told, Working, Ended
  <2>3. CASE ~Working(h)
    <3>1. handler'[h] = handler[h]
      BY <1>2, <1>6, <2>3
    <3>2. Told(h, l) => Told(h, l)'
      BY <1>1, <1>3, <1>4, <3>1 DEF Told, Ended
    <3>. QED
      BY <1>1, <1>3, <1>4, <2>1, <2>3, <3>1, <3>2 DEF About, Working, Ended
  <2>. QED
    BY <2>2, <2>3
<1>. QED
  BY <1>5, <1>6

\* The steps of the goroutines that store and refresh leave the requests in peace.
LEMMA WorkIsPeaceful ==
    ASSUME Inv,
           \/ \E r \in Refreshers : GoOn(r)
           \/ \E w \in Workers : Write(w)
           \/ \E k \in Logins : Authenticate(k) \/ Abort(k) \/ StoreCharacter(k)
           \/ DeleteCharacter \/ Expire \/ UNCHANGED vars
    PROVE  /\ UNCHANGED <<browser, codes, returned, cutoff>>
           /\ \A l \in Logins : Peaceful(l)
<1>. USE DEF Inv, TypeInv
<1>1. ASSUME NEW r \in Refreshers, GoOn(r)
      PROVE  /\ UNCHANGED <<browser, codes, returned, cutoff>> /\ Others(r)
  BY <1>1, Copied, Judged, Renewed, Left, Groups DEF GoOn, GetCharacterToken, RemainsValid,
     RefreshToken, RefreshRefused, RefreshLost, sso, history
<1>2. ASSUME NEW w \in Workers, Write(w)
      PROVE  /\ UNCHANGED <<browser, codes, returned, cutoff>> /\ Others(w)
             /\ w \in Logins => Peaceful(w)
  <2>1. CASE StoreRow(w) /\ character
    BY <2>1, RowStored DEF StoreRow, sso, Peaceful, Moves
  <2>2. CASE StoreRow(w) /\ ~character
    BY <2>2, Left DEF StoreRow, sso, Peaceful
  <2>3. CASE ReplaceScopes(w)
    BY <2>3, ScopesStored DEF ReplaceScopes, sso, Peaceful
  <2>4. CASE FailStore(w)
    BY <2>4, Left DEF FailStore, sso, Peaceful
  <2>. QED
    BY <1>2, <2>1, <2>2, <2>3, <2>4 DEF Write
<1>3. ASSUME NEW k \in Logins, Authenticate(k) \/ Abort(k) \/ StoreCharacter(k)
      PROVE  /\ UNCHANGED <<browser, codes, returned, cutoff>> /\ Others(k)
             /\ Peaceful(k)
  <2>1. CASE Authenticate(k)
    <3>1. worker[k].at = "idle" /\ \E a \in {"failed", "wait"} : Goto(k, a)
      BY <2>1, Zenon DEF Authenticate
    <3>. QED
      BY <2>1, <3>1, Gone, Groups DEF Authenticate, sso, history, Moves, Peaceful, LoginPlaces
  <2>2. CASE Abort(k)
    BY <2>2, Gone, Groups DEF Abort, sso, history, Moves, Peaceful, LoginPlaces
  <2>3. CASE StoreCharacter(k)
    BY <2>3, Gone, Groups DEF StoreCharacter, sso, history, Moves, Peaceful, LoginPlaces
  <2>. QED
    BY <1>3, <2>1, <2>2, <2>3
<1>4. CASE DeleteCharacter \/ Expire \/ UNCHANGED vars
  BY <1>4 DEF DeleteCharacter, Expire, vars, sso, browser, history, Peaceful
<1>5. ASSUME NEW w \in Workers, Others(w), w \in Logins => Peaceful(w), NEW l \in Logins
      PROVE  Peaceful(l)
  BY <1>5, Groups DEF Others, Peaceful
<1>. QED
  BY <1>1, <1>2, <1>3, <1>4, <1>5, Groups

\* ... and therefore every step.
LEMMA HeardStep == Inv /\ HeardInv /\ [Next]_vars => HeardInv'
<1>. SUFFICES ASSUME Inv, HeardInv, [Next]_vars PROVE HeardInv'
  OBVIOUS
<1>1. CASE \/ \E r \in Refreshers : GoOn(r)
           \/ \E w \in Workers : Write(w)
           \/ \E k \in Logins : Authenticate(k) \/ Abort(k) \/ StoreCharacter(k)
           \/ DeleteCharacter \/ Expire \/ UNCHANGED vars
  BY <1>1, WorkIsPeaceful, PeacefulKeepsHeard
<1>2. CASE \E l \in Logins : Shutdown(l)
  BY <1>2, ShutdownKeepsHeard
<1>3. CASE \E h \in Handlers, l \in Logins, s \in AllLogins : Callback(h, l, s)
  BY <1>3, CallbackKeepsHeard
<1>4. CASE \E h \in Handlers : Answer(h)
  BY <1>4, AnswerKeepsHeard
<1>5. CASE Restart
  BY <1>5, RestartKeepsHeard
<1>. QED
  BY <1>1, <1>2, <1>3, <1>4, <1>5, Steps DEF LogIn

\* Where all values come from decides what a login returns.
LEMMA HeardIsSuccess == Inv /\ HeardInv => SuccessIsHeard
<1>. SUFFICES ASSUME Inv, HeardInv, NEW h \in Handlers,
                     handler[h].at = "done", handler[h].result = "token",
                     worker[handler[h].login].at \notin {"wait", "stop"}
              PROVE  \/ handler[h].login \in returned \cup cutoff
                     \/ Error(handler[h].login)
  BY DEF SuccessIsHeard, Error
<1>1. handler[h].login \in Logins
  BY DEF Inv, RequestsOK, RequestOK
<1>2. Told(h, handler[h].login)
  BY <1>1 DEF HeardInv, About
<1>. QED
  BY <1>2 DEF Told

\* Types and handlers are right when the program has started,
LEMMA InvInit == Init => Inv
<1>1. Init => RequestsOK
  BY DEF Init, RequestsOK, RequestOK
<1>. QED
  BY <1>1, TypeInit DEF Inv

\* internal/sso: when the page in the browser says that the login was successful,
\* Authenticate returns the token, unless another request of the same login
\* failed or the login did not wait for its requests.
THEOREM BrowserTellsTruth == Spec => []SuccessIsHeard
<1>1. Init => Inv /\ HeardInv
  BY InvInit, HeardInit
<1>2. Inv /\ HeardInv /\ [Next]_vars => (Inv /\ HeardInv)'
  BY TypeStep, HeardStep
<1>3. Inv /\ HeardInv => SuccessIsHeard
  BY HeardIsSuccess
<1>. QED
  BY <1>1, <1>2, <1>3, PTL DEF Spec

----------------------------------------------------------------------------
(* StoredTokenIsAccepted: the chains of the refresh tokens *)

\* The logins whose token is in circulation: it was stored once.
Settled == {Earlier} \cup {l \in codes : worker[l].at \in {"store"} \cup Ended}
\* The tokens in the database and in the hands of the goroutines that refresh,
\* and those of them that somebody may yet use for a refresh.
Held == {t \in Tokens : \/ row = t
                        \/ \E r \in Refreshers : /\ worker[r].at # "idle"
                                                 /\ worker[r].token = t}
Copies == {t \in Tokens : \/ row = t
                          \/ \E r \in Refreshers : /\ worker[r].at \in {"scopes", "refresh"}
                                                   /\ worker[r].token = t}

\* One refresh token of every chain is accepted.
Chains == /\ \A x, y \in accepted : x[1] = y[1] => x = y
          /\ \A x \in accepted : x[1] \in codes \cup {Earlier}
\* A login on its way to the database has the first token of its chain.
NewLogin(l) ==
    /\ worker[l].at = "idle" => l \notin codes
    /\ worker[l].at \in {"wait", "stop"} /\ l \in codes => <<l, 0>> \in accepted
    /\ worker[l].at \in {"character", "row"} => <<l, 0>> \in accepted
    /\ worker[l].at \in {"character", "row", "store"} =>
          /\ l \in codes /\ worker[l].token.login = l /\ worker[l].token.refresh = 0
          /\ worker[l].scopes = ScopesOf(l)
HeldSettled == \A t \in Held : t.login \in Settled
\* A token that was just refreshed is the one that is accepted.
NewTokens == \A r \in Refreshers : worker[r].at = "row" => Pair(worker[r].token) \in accepted
\* The accepted token of a chain is its last one; while its successor is about to
\* be stored, all copies are behind.
Tips ==
    /\ \A x \in accepted, t \in Copies : t.login = x[1] => t.refresh <= x[2]
    /\ \A r \in Refreshers : worker[r].at = "row" =>
          /\ \A t \in Copies : t.login = worker[r].token.login
                                  => t.refresh < worker[r].token.refresh
          /\ \A q \in Refreshers \ {r} : worker[q].at = "row"
                                  => worker[q].token.login # worker[r].token.login
RowLeads ==
    row # NoToken /\ (rotates => ~lost) =>
        \/ Pair(row) \in accepted
        \/ rotates /\ \E r \in Refreshers : worker[r].at = "row"
AccInv == /\ Chains /\ (\A l \in Logins : NewLogin(l)) /\ HeldSettled /\ NewTokens
          /\ (rotates => Tips) /\ RowLeads

\* At the start there is one token, which an earlier login has stored.
LEMMA AccInit == Init => AccInv
<1>. SUFFICES ASSUME Init PROVE AccInv
  OBVIOUS
<1>. DEFINE t0 == Token(Earlier, 0, 0)
<1>1. /\ t0 \in Tokens /\ t0.login = Earlier /\ t0.refresh = 0
  <2>1. Earlier \in AllLogins /\ 0 \in 0..MaxExpiries /\ 0 \in Nat
    BY Bounds DEF AllLogins
  <2>. QED
    BY <2>1, TokenFields
<1>2. /\ row = t0 /\ accepted = {<<Earlier, 0>>} /\ codes = {}
      /\ \A w \in Workers : worker[w].at = "idle"
  BY RestingFields DEF Init
<1>. HIDE DEF t0
<1>3. Chains
  BY <1>2 DEF Chains
<1>4. \A l \in Logins : NewLogin(l)
  BY <1>2, Groups DEF NewLogin
<1>5. \A t \in Held \cup Copies : t = t0
  BY <1>2, Groups DEF Held, Copies
<1>6. HeldSettled
  BY <1>1, <1>5 DEF HeldSettled, Settled
<1>7. NewTokens /\ Tips
  BY <1>1, <1>2, <1>5, Groups DEF NewTokens, Tips
<1>8. RowLeads
  BY <1>1, <1>2 DEF RowLeads, Pair
<1>. QED
  BY <1>3, <1>4, <1>6, <1>7, <1>8 DEF AccInv

\* What most steps do to a goroutine: nothing; it gives up or ends; it goes on
\* with the token it has; it copies the row.
Quiet(r) ==
    \/ worker'[r] = worker[r]
    \/ worker'[r].at = "idle"
    \/ /\ worker[r].at = "scopes" /\ worker'[r].at = "refresh"
       /\ worker'[r].token = worker[r].token
    \/ /\ worker[r].at = "idle" /\ worker'[r].at = "scopes"
       /\ row # NoToken /\ worker'[r].token = row
Calm(l) ==
    \/ worker'[l] = worker[l]
    \/ worker'[l].at \in Ended
    \/ worker[l].at = "idle"
       /\ worker'[l].at = "wait"
    \/ worker[l].at = "wait"
       /\ worker'[l].at = "stop"
    \/ worker[l].at = "character"
       /\ Moves(l, "row")
\* Nobody gives up a new token but when the row is deleted or the token counts
\* as lost.
NoneGiven == rotates /\ ~lost' /\ row' # NoToken =>
                \A r \in Refreshers : worker[r].at = "row" => worker'[r].at = "row"
AccFrame ==
    /\ UNCHANGED <<rotates, accepted, codes>>
    /\ row' \in {row, NoToken} /\ (lost => lost')
    /\ \A r \in Refreshers : Quiet(r)
    /\ \A l \in Logins : Calm(l)
    /\ NoneGiven

\* A login that has come to store its token stays so while logins are calm.
LEMMA SettledStays ==
    ASSUME codes \subseteq codes', \A l \in Logins : Calm(l), codes \subseteq Logins
    PROVE  Settled \subseteq Settled'
  BY DEF Settled, Calm, Ended, Moves

\* Without new tokens in hand nobody holds more than before.
LEMMA QuietKeepsHeld ==
    ASSUME row' \in {row, NoToken}, \A r \in Refreshers : Quiet(r)
    PROVE  Held' \subseteq Held /\ Copies' \subseteq Copies
<1>1. ASSUME NEW t \in Tokens, row' = t PROVE row = t
  BY <1>1, TokenAssumption
<1>2. ASSUME NEW t \in Tokens, NEW r \in Refreshers, worker'[r].at # "idle",
             worker'[r].token = t
      PROVE  row = t \/ (worker[r].at # "idle" /\ worker[r].token = t)
  BY <1>2 DEF Quiet
<1>3. ASSUME NEW t \in Tokens, NEW r \in Refreshers, worker'[r].at \in {"scopes", "refresh"},
             worker'[r].token = t
      PROVE  row = t \/ (worker[r].at \in {"scopes", "refresh"} /\ worker[r].token = t)
  BY <1>3 DEF Quiet
<1>. QED
  BY <1>1, <1>2, <1>3 DEF Held, Copies

\* What moves no token keeps what is known of them.
LEMMA FrameKeepsAcc == ASSUME Inv, AccInv, AccFrame PROVE AccInv'
<1>. USE DEF AccFrame
<1>1. Held' \subseteq Held /\ Copies' \subseteq Copies
  BY QuietKeepsHeld
<1>2. Settled \subseteq Settled'
  BY SettledStays DEF Inv, TypeInv, SsoOK
<1>3. Chains'
  BY DEF AccInv, Chains
<1>4. ASSUME NEW l \in Logins PROVE NewLogin(l)'
  BY <1>4 DEF AccInv, NewLogin, Calm, Moves, Ended
<1>5. HeldSettled'
  BY <1>1, <1>2 DEF AccInv, HeldSettled
<1>6. \A r \in Refreshers : worker'[r].at = "row" =>
         worker'[r].token = worker[r].token /\ worker[r].at = "row"
  BY DEF Quiet
<1>7. NewTokens'
  <2>. SUFFICES ASSUME NEW r \in Refreshers, worker'[r].at = "row"
                PROVE  Pair(worker'[r].token) \in accepted'
    BY DEF NewTokens, Pair
  <2>. QED
    BY <1>6 DEF AccInv, NewTokens
<1>8. (rotates => Tips)'
  BY <1>1, <1>6 DEF AccInv, Tips
<1>9. RowLeads'
  <2>. SUFFICES ASSUME row' # NoToken, rotates => ~lost'
                PROVE  \/ Pair(row') \in accepted
                       \/ rotates /\ \E r \in Refreshers : worker'[r].at = "row"
    BY DEF RowLeads, Pair
  <2>1. row' = row /\ row # NoToken /\ (rotates => ~lost)
    OBVIOUS
  <2>. QED
    BY <2>1 DEF AccInv, RowLeads, NoneGiven
<1>. QED
  BY <1>3, <1>4, <1>5, <1>7, <1>8, <1>9 DEF AccInv

\* A step of one goroutine moves no token of another.
LEMMA OthersAreCalm ==
    ASSUME NEW w \in Workers, Others(w)
    PROVE  /\ \A r \in Refreshers \ {w} : Quiet(r) /\ worker'[r] = worker[r]
           /\ \A l \in Logins \ {w} : Calm(l) /\ worker'[l] = worker[l]
  BY Groups DEF Others, Quiet, Calm

\* The refresh token t is used: the server accepts the one numbered n now.
Renewal(r, t, n) ==
    /\ Pair(t) \in accepted
    /\ n = IF rotates THEN t.refresh + 1 ELSE t.refresh
    /\ accepted' = (accepted \ {Pair(t)}) \cup {<<t.login, n>>}
    /\ worker[r].at = "refresh" /\ worker[r].token = t
    /\ UNCHANGED <<rotates, codes, row>> /\ Others(r)
    /\ \/ worker'[r].at = "idle" /\ lost' = (lost \/ rotates)
       \/ /\ worker'[r].at = "row" /\ lost' = lost
          /\ worker'[r].token \in Tokens
          /\ worker'[r].token.login = t.login /\ worker'[r].token.refresh = n

\* A refresh keeps it: the new token is the one the server accepts.
LEMMA RenewalKeepsAcc ==
    ASSUME Inv, AccInv, NEW r \in Refreshers, NEW t \in Tokens, NEW n \in Nat, Renewal(r, t, n)
    PROVE  AccInv'
<1>. USE DEF Inv, TypeInv
<1>1. t \in Held /\ t \in Copies /\ t.refresh \in Nat /\ t.login \in AllLogins
  BY TokenFields DEF Renewal, Held, Copies
<1>2. /\ \A q \in Refreshers \ {r} : worker'[q] = worker[q]
      /\ \A l \in Logins : worker'[l] = worker[l]
  BY OthersAreCalm, Groups DEF Renewal
<1>3. Settled' = Settled
  <2>1. codes \subseteq Logins /\ codes' = codes
    BY DEF SsoOK, Renewal
  <2>. QED
    BY <1>2, <2>1 DEF Settled
<1>4. Copies' \subseteq Copies
  BY <1>2 DEF Renewal, Copies
<1>5. \A c \in Held' : c \in Held \/ c.login = t.login
  <2>. SUFFICES ASSUME NEW c \in Tokens, c \in Held', c \notin Held PROVE c.login = t.login
    BY DEF Held
  <2>1. c # row' /\ \E q \in Refreshers : worker'[q].at # "idle" /\ worker'[q].token = c
    BY DEF Held, Renewal
  <2>2. worker'[r].at # "idle" /\ worker'[r].token = c
    BY <1>2, <2>1 DEF Held
  <2>. QED
    BY <2>2 DEF Renewal
<1>6. \A x \in accepted' : (x \in accepted /\ x # Pair(t)) \/ x = <<t.login, n>>
  BY DEF Renewal
<1>7. \A x \in accepted : x[1] = t.login => x = Pair(t)
  BY DEF AccInv, Chains, Renewal, Pair
<1>8. Chains'
  <2>1. ASSUME NEW x \in accepted', NEW y \in accepted', x[1] = y[1] PROVE x = y
    BY <1>6, <1>7, <2>1 DEF AccInv, Chains
  <2>2. t.login \in codes \cup {Earlier}
    BY DEF AccInv, Chains, Renewal, Pair
  <2>3. ASSUME NEW x \in accepted' PROVE x[1] \in codes' \cup {Earlier}
    BY <1>6, <2>2, <2>3 DEF AccInv, Chains, Renewal
  <2>. QED
    BY <2>1, <2>3 DEF Chains
<1>9. ASSUME NEW l \in Logins PROVE NewLogin(l)'
  <2>1. NewLogin(l) /\ worker'[l] = worker[l] /\ codes' = codes
    BY <1>2, <1>9 DEF AccInv, Renewal
  <2>2. t.login = l => worker[l].at \in {"store"} \cup Ended
    BY <1>1, <1>9, Groups DEF AccInv, HeldSettled, Settled
  <2>3. <<l, 0>> \in accepted => <<l, 0>> \in accepted' \/ t.login = l
    BY DEF Renewal, Pair
  <2>. QED
    BY <2>1, <2>2, <2>3 DEF NewLogin, Ended
<1>10. HeldSettled'
  BY <1>1, <1>3, <1>5 DEF AccInv, HeldSettled
<1>11. ASSUME NEW q \in Refreshers \ {r}, worker[q].at = "row"
       PROVE  /\ rotates => worker[q].token.login # t.login
              /\ Pair(worker[q].token) \in accepted'
  <2>1. Pair(worker[q].token) \in accepted
    BY <1>11 DEF AccInv, NewTokens
  <2>2. CASE ~rotates
    <3>1. accepted' = accepted
      BY <2>2 DEF Renewal, Pair
    <3>. QED
      BY <2>1, <2>2, <3>1
  <2>3. CASE rotates
    <3>1. worker[q].token.login # t.login
      <4>. SUFFICES ASSUME worker[q].token.login = t.login PROVE FALSE
        OBVIOUS
      <4>1. t.refresh < worker[q].token.refresh
        BY <1>1, <1>11, <2>3 DEF AccInv, Tips
      <4>2. worker[q].token.refresh = t.refresh
        BY <1>7, <2>1 DEF Pair
      <4>. QED
        BY <1>1, <4>1, <4>2
    <3>. QED
      BY <2>1, <3>1 DEF Renewal, Pair
  <2>. QED
    BY <2>2, <2>3
<1>12. NewTokens'
  <2>. SUFFICES ASSUME NEW q \in Refreshers, worker'[q].at = "row"
                PROVE  Pair(worker'[q].token) \in accepted'
    BY DEF NewTokens, Pair
  <2>. QED
    BY <1>2, <1>11 DEF Renewal, Pair
<1>13. (rotates => Tips)'
  <2>. SUFFICES ASSUME rotates PROVE Tips'
    BY DEF Renewal
  <2>1. n = t.refresh + 1 /\ Tips
    BY DEF Renewal, AccInv
  <2>2. \A c \in Copies : c.login = t.login => c.refresh <= t.refresh
    BY <2>1 DEF Tips, Renewal, Pair
  <2>3. \A c \in Copies : c.refresh \in Nat
    BY TokenFields DEF Copies
  <2>4. ASSUME NEW x \in accepted', NEW c \in Copies', c.login = x[1]
        PROVE  c.refresh <= x[2]
    <3>1. CASE x \in accepted
      BY <1>4, <2>1, <2>4, <3>1 DEF Tips
    <3>2. CASE x = <<t.login, n>>
      BY <1>1, <1>4, <2>1, <2>2, <2>3, <2>4, <3>2
    <3>. QED
      BY <1>6, <2>4, <3>1, <3>2
  <2>5. ASSUME NEW q \in Refreshers, worker'[q].at = "row"
        PROVE  /\ \A c \in Copies' : c.login = worker'[q].token.login
                                        => c.refresh < worker'[q].token.refresh
               /\ \A p \in Refreshers \ {q} : worker'[p].at = "row"
                                        => worker'[p].token.login # worker'[q].token.login
    <3>1. CASE q = r
      <4>1. worker'[q].token.login = t.login /\ worker'[q].token.refresh = n
        BY <2>5, <3>1 DEF Renewal
      <4>2. \A c \in Copies' : c.login = worker'[q].token.login
                                  => c.refresh < worker'[q].token.refresh
        BY <1>1, <1>4, <2>1, <2>2, <2>3, <4>1
      <4>3. \A p \in Refreshers \ {q} : worker'[p].at = "row"
                                  => worker'[p].token.login # worker'[q].token.login
        BY <1>2, <1>11, <3>1, <4>1
      <4>. QED
        BY <4>2, <4>3
    <3>2. CASE q # r
      <4>1. worker'[q] = worker[q]
        BY <1>2, <2>5, <3>2
      <4>2. \A c \in Copies' : c.login = worker'[q].token.login
                                  => c.refresh < worker'[q].token.refresh
        BY <1>4, <2>1, <2>5, <4>1 DEF Tips
      <4>3. ASSUME NEW p \in Refreshers \ {q}, worker'[p].at = "row"
            PROVE  worker'[p].token.login # worker'[q].token.login
        <5>1. CASE p = r
          BY <1>11, <2>5, <3>2, <4>1, <4>3, <5>1 DEF Renewal
        <5>2. CASE p # r
          BY <1>2, <2>1, <2>5, <4>1, <4>3, <5>2 DEF Tips
        <5>. QED
          BY <5>1, <5>2
      <4>. QED
        BY <4>2, <4>3
    <3>. QED
      BY <3>1, <3>2
  <2>. QED
    BY <2>4, <2>5 DEF Tips
<1>14. RowLeads'
  <2>. SUFFICES ASSUME row' # NoToken, rotates' => ~lost'
                PROVE  \/ Pair(row') \in accepted'
                       \/ rotates' /\ \E q \in Refreshers : worker'[q].at = "row"
    BY DEF RowLeads, Pair
  <2>1. CASE rotates
    BY <2>1 DEF Renewal
  <2>2. CASE ~rotates
    <3>1. accepted' = accepted /\ row' = row
      BY <2>2 DEF Renewal, Pair
    <3>. QED
      BY <2>2, <3>1 DEF AccInv, RowLeads
  <2>. QED
    BY <2>1, <2>2
<1>. QED
  BY <1>8, <1>9, <1>10, <1>12, <1>13, <1>14 DEF AccInv

\* Storing a token keeps it: the copies in hand are not newer.
LEMMA RowKeepsAcc ==
    ASSUME Inv, AccInv, NEW w \in Workers, StoreRow(w), character
    PROVE  AccInv'
<1>. USE DEF Inv, TypeInv
<1>1. PICK t \in Tokens : t = worker[w].token
  BY RowStored
<1>2. /\ \A v \in Workers \ {w} : worker'[v] = worker[v]
      /\ \A r \in Refreshers \ {w} : worker'[r] = worker[r]
      /\ \A l \in Logins \ {w} : worker'[l] = worker[l]
      /\ worker[w].at = "row" /\ worker'[w].at = "store"
      /\ worker'[w].token = t /\ worker'[w].scopes = worker[w].scopes /\ row' = t
  BY <1>1, RowStored, Groups DEF Others, Moves
<1>3. UNCHANGED <<rotates, accepted, codes, lost>>
  BY DEF StoreRow, sso
<1>4. Settled \subseteq Settled'
  BY <1>2, <1>3, Groups DEF Settled, Ended, SsoOK
<1>5. /\ Pair(t) \in accepted /\ t.login \in Settled'
      /\ \A r \in Refreshers \ {w} : rotates /\ worker[r].at = "row"
                                        => worker[r].token.login # t.login
  <2>1. CASE w \in Refreshers
    <3>1. t \in Held /\ Pair(t) \in accepted
      BY <1>1, <1>2, <2>1 DEF Held, AccInv, NewTokens
    <3>. QED
      BY <1>1, <1>2, <1>4, <2>1, <3>1 DEF AccInv, HeldSettled, Tips
  <2>2. CASE w \in Logins
    <3>1. /\ t.login = w /\ t.refresh = 0 /\ w \in codes /\ <<w, 0>> \in accepted
          /\ w \notin Settled
      BY <1>1, <1>2, <2>2, Groups DEF AccInv, NewLogin, Settled, Ended
    <3>2. t.login \in Settled'
      BY <1>2, <1>3, <3>1 DEF Settled
    <3>3. ASSUME NEW r \in Refreshers, worker[r].at = "row" PROVE worker[r].token.login # w
      <4>1. worker[r].token \in Held
        BY <3>3 DEF Held, WorkersOK
      <4>. QED
        BY <3>1, <4>1 DEF AccInv, HeldSettled
    <3>. QED
      BY <3>1, <3>2, <3>3 DEF Pair
  <2>. QED
    BY <2>1, <2>2, Groups
<1>6. Held' \subseteq Held \cup {t} /\ Copies' \subseteq Copies \cup {t}
  BY <1>2 DEF Held, Copies
<1>7. Chains'
  BY <1>3 DEF AccInv, Chains
<1>8. ASSUME NEW l \in Logins PROVE NewLogin(l)'
  BY <1>1, <1>2, <1>3, <1>8 DEF AccInv, NewLogin
<1>9. HeldSettled'
  BY <1>4, <1>5, <1>6 DEF AccInv, HeldSettled
<1>10. NewTokens'
  <2>. SUFFICES ASSUME NEW q \in Refreshers, worker'[q].at = "row"
                PROVE  Pair(worker'[q].token) \in accepted'
    BY DEF NewTokens, Pair
  <2>. QED
    BY <1>2, <1>3 DEF AccInv, NewTokens
<1>11. (rotates => Tips)'
  <2>. SUFFICES ASSUME rotates PROVE Tips'
    BY <1>3
  <2>1. Tips
    BY DEF AccInv
  <2>2. ASSUME NEW x \in accepted', NEW c \in Copies', c.login = x[1]
        PROVE  c.refresh <= x[2]
    <3>1. CASE c = t
      <4>1. x = Pair(t)
        BY <1>3, <1>5, <2>2, <3>1 DEF AccInv, Chains, Pair
      <4>2. x[2] = c.refresh /\ c.refresh \in Nat
        BY <3>1, <4>1, TokenFields DEF Pair
      <4>. QED
        BY <4>2
    <3>2. CASE c # t
      BY <1>3, <1>6, <2>1, <2>2, <3>2 DEF Tips
    <3>. QED
      BY <3>1, <3>2
  <2>3. ASSUME NEW q \in Refreshers, worker'[q].at = "row"
        PROVE  /\ \A c \in Copies' : c.login = worker'[q].token.login
                                        => c.refresh < worker'[q].token.refresh
               /\ \A p \in Refreshers \ {q} : worker'[p].at = "row"
                                        => worker'[p].token.login # worker'[q].token.login
    <3>1. q # w /\ worker'[q] = worker[q]
      BY <1>2, <2>3
    <3>. QED
      BY <1>2, <1>5, <1>6, <2>1, <2>3, <3>1 DEF Tips
  <2>. QED
    BY <2>2, <2>3 DEF Tips
<1>12. RowLeads'
  BY <1>2, <1>3, <1>5 DEF RowLeads, Pair
<1>. QED
  BY <1>7, <1>8, <1>9, <1>10, <1>11, <1>12 DEF AccInv

\* A step that leaves the row and the goroutines that refresh alone.
LEMMA SameHeld ==
    ASSUME row' = row, \A r \in Refreshers : worker'[r] = worker[r]
    PROVE  Held' = Held /\ Copies' = Copies
  BY DEF Held, Copies

\* A handler keeps it: nobody has a token of a login before its first one is issued.
LEMMA AnswerKeepsAcc ==
    ASSUME Inv, HeardInv, AccInv, NEW h \in Handlers, Answer(h)
    PROVE  AccInv'
<1>. USE DEF Inv, TypeInv
<1>1. CASE /\ FetchNewToken(h) /\ accepted' # accepted
  <2>1. PICK l \in Logins : handler[h].login = l /\ handler[h].at = "exchange"
    BY <1>1, Fetched DEF RequestsOK, RequestOK
  <2>2. /\ l \notin codes /\ codes' = codes \cup {l} /\ accepted' = accepted \cup {<<l, 0>>}
    BY <1>1, <2>1, Fetched
  <2>3. worker[l].at # "idle"
    BY <2>1 DEF HeardInv, About
  <2>4. UNCHANGED <<worker, rotates, row, lost>>
    BY <1>1 DEF FetchNewToken, stored, history
  <2>5. Held' = Held /\ Copies' = Copies
    BY <2>4, SameHeld
  <2>6. Settled \subseteq Settled'
    BY <2>2, <2>4 DEF Settled
  <2>7. Chains'
    BY <2>2, Groups DEF AccInv, Chains
  <2>8. ASSUME NEW k \in Logins PROVE NewLogin(k)'
    BY <2>2, <2>3, <2>4, <2>8 DEF AccInv, NewLogin
  <2>9. HeldSettled'
    BY <2>5, <2>6 DEF AccInv, HeldSettled
  <2>10. NewTokens'
    <3>. SUFFICES ASSUME NEW q \in Refreshers, worker'[q].at = "row"
                  PROVE  Pair(worker'[q].token) \in accepted'
      BY DEF NewTokens, Pair
    <3>. QED
      BY <2>2, <2>4 DEF AccInv, NewTokens
  <2>11. (rotates => Tips)'
    <3>. SUFFICES ASSUME rotates PROVE Tips'
      BY <2>4
    <3>1. \A c \in Copies : c.login # l
      <4>1. Copies \subseteq Held
        BY DEF Copies, Held
      <4>. QED
        BY <2>1, <2>2, <4>1, Groups DEF AccInv, HeldSettled, Settled
    <3>. QED
      BY <2>2, <2>4, <2>5, <3>1 DEF AccInv, Tips
  <2>12. RowLeads'
    <3>. SUFFICES ASSUME row' # NoToken, rotates' => ~lost'
                  PROVE  \/ Pair(row') \in accepted'
                         \/ rotates' /\ \E q \in Refreshers : worker'[q].at = "row"
      BY DEF RowLeads, Pair
    <3>. QED
      BY <2>2, <2>4 DEF AccInv, RowLeads
  <2>. QED
    BY <2>7, <2>8, <2>9, <2>10, <2>11, <2>12 DEF AccInv
<1>2. CASE /\ FetchNewToken(h) /\ accepted' = accepted
  <2>1. codes' = codes
    <3>. SUFFICES ASSUME NEW l \in Logins, l \notin codes, codes' = codes \cup {l},
                         <<l, 0>> \in accepted
                  PROVE  FALSE
      BY <1>2, Fetched DEF RequestsOK, RequestOK
    <3>. QED
      BY Groups DEF AccInv, Chains
  <2>2. UNCHANGED <<worker, rotates, row, lost>>
    BY <1>2 DEF FetchNewToken, stored, history
  <2>3. AccFrame
    BY <1>2, <2>1, <2>2 DEF AccFrame, Quiet, Calm, NoneGiven
  <2>. QED
    BY <2>3, FrameKeepsAcc
<1>3. CASE ReadContext(h)
  <2>1. AccFrame
    BY <1>3 DEF ReadContext, sso, stored, history, AccFrame, Quiet, Calm, NoneGiven
  <2>. QED
    BY <2>1, FrameKeepsAcc
<1>4. CASE AssignContext(h)
  <2>1. PICK l \in Logins : handler[h].login = l
    BY <1>4 DEF AssignContext, RequestsOK, RequestOK
  <2>2. \/ worker[l].at = "wait" /\ Goto(l, "stop")
        \/ worker' = worker
    BY <1>4, <2>1 DEF AssignContext
  <2>3. (\A r \in Refreshers : worker'[r] = worker[r]) /\ \A k \in Logins : Calm(k)
    <3>1. CASE worker[l].at = "wait" /\ Goto(l, "stop")
      BY <3>1, Gone, Groups, OthersAreCalm DEF LoginPlaces, Calm, Moves
    <3>2. CASE worker' = worker
      BY <3>2 DEF Calm
    <3>. QED
      BY <2>2, <3>1, <3>2
  <2>4. AccFrame
    BY <1>4, <2>3 DEF AssignContext, sso, stored, history, AccFrame, Quiet, NoneGiven
  <2>. QED
    BY <2>4, FrameKeepsAcc
<1>. QED
  BY <1>1, <1>2, <1>3, <1>4 DEF Answer

\* The steps of a login keep it,
LEMMA LoginKeepsAcc ==
    ASSUME Inv, HeardInv, AccInv, NEW l \in Logins, LogIn(l)
    PROVE  AccInv'
<1>. USE DEF Inv, TypeInv
<1>1. ASSUME Others(l), Calm(l), UNCHANGED <<sso, row, lost>> PROVE AccInv'
  <2>1. AccFrame
    BY <1>1, OthersAreCalm, Groups DEF AccFrame, sso, NoneGiven
  <2>. QED
    BY <2>1, FrameKeepsAcc
<1>2. CASE Authenticate(l)
  <2>1. worker[l].at = "idle" /\ \E a \in {"failed", "wait"} : Goto(l, a)
    BY <1>2, Zenon DEF Authenticate
  <2>2. Others(l) /\ Calm(l)
    BY <2>1, Gone, Groups DEF LoginPlaces, Moves, Calm, Ended
  <2>. QED
    BY <1>1, <1>2, <2>2 DEF Authenticate, stored, history
<1>3. CASE Abort(l)
  <2>1. Others(l) /\ Calm(l)
    BY <1>3, Gone, Groups DEF Abort, LoginPlaces, Moves, Calm
  <2>. QED
    BY <1>1, <1>3, <2>1 DEF Abort, stored, history
<1>4. CASE StoreCharacter(l)
  <2>1. Others(l) /\ Calm(l)
    BY <1>4, Gone, Groups DEF StoreCharacter, LoginPlaces, Calm
  <2>. QED
    BY <1>1, <1>4, <2>1 DEF StoreCharacter, history
<1>5. CASE Shutdown(l)
  <2>1. /\ worker[l].at = "stop" /\ Others(l) /\ worker'[l].at = Outcome(l)
        /\ Outcome(l) = "character" =>
              /\ worker'[l].token.login = l /\ worker'[l].token.refresh = 0
              /\ worker'[l].scopes = ScopesOf(l)
        /\ UNCHANGED <<sso, row, lost>>
    BY <1>5, Returned DEF Shutdown, Return, stored
  <2>2. CASE Outcome(l) # "character"
    <3>1. Calm(l)
      BY <2>1, <2>2 DEF Calm, Outcome, Ended
    <3>. QED
      BY <1>1, <2>1, <3>1
  <2>3. CASE Outcome(l) = "character"
    <3>1. l \in codes
      BY <2>3 DEF Outcome, HeardInv, Context
    <3>2. <<l, 0>> \in accepted
      BY <2>1, <3>1 DEF AccInv, NewLogin
    <3>3. /\ \A r \in Refreshers : worker'[r] = worker[r]
          /\ \A k \in Logins \ {l} : worker'[k] = worker[k]
          /\ UNCHANGED <<rotates, accepted, codes>>
      BY <2>1, Groups DEF Others, sso
    <3>4. Held' = Held /\ Copies' = Copies
      BY <2>1, <3>3, SameHeld
    <3>5. Settled' = Settled
      BY <2>1, <2>3, <3>3 DEF Settled, Ended, SsoOK
    <3>6. \A k \in Logins : NewLogin(k)'
      BY <2>1, <2>3, <3>1, <3>2, <3>3 DEF AccInv, NewLogin
    <3>7. Chains' /\ HeldSettled'
      BY <3>3, <3>4, <3>5 DEF AccInv, Chains, HeldSettled
    <3>8. NewTokens' /\ (rotates => Tips)'
      BY <3>3, <3>4 DEF AccInv, NewTokens, Tips, Pair
    <3>9. RowLeads'
      BY <2>1, <3>3 DEF AccInv, RowLeads, Pair
    <3>. QED
      BY <3>6, <3>7, <3>8, <3>9 DEF AccInv
  <2>. QED
    BY <2>2, <2>3
<1>. QED
  BY <1>2, <1>3, <1>4, <1>5 DEF LogIn

\* ... those of a refresh do,
LEMMA RefresherKeepsAcc ==
    ASSUME Inv, AccInv, NEW r \in Refreshers, GoOn(r)
    PROVE  AccInv'
<1>. USE DEF Inv, TypeInv
<1>1. ASSUME Others(r), Quiet(r), worker[r].at # "row", UNCHANGED <<sso, row, lost>>
      PROVE  AccInv'
  <2>1. AccFrame
    BY <1>1, OthersAreCalm, Groups DEF AccFrame, sso, NoneGiven
  <2>. QED
    BY <2>1, FrameKeepsAcc
<1>2. CASE GetCharacterToken(r)
  <2>1. Others(r) /\ Quiet(r) /\ worker[r].at # "row"
    BY <1>2, Copied DEF Quiet
  <2>. QED
    BY <1>1, <1>2, <2>1 DEF GetCharacterToken, stored, history
<1>3. CASE RemainsValid(r)
  <2>1. Others(r) /\ Quiet(r) /\ worker[r].at # "row"
    BY <1>3, Judged DEF Quiet
  <2>. QED
    BY <1>1, <1>3, <2>1 DEF RemainsValid, stored, history
<1>4. CASE RefreshRefused(r)
  <2>1. Others(r) /\ Quiet(r) /\ worker[r].at # "row"
    BY <1>4, Left, Groups DEF RefreshRefused, Quiet
  <2>. QED
    BY <1>1, <1>4, <2>1 DEF RefreshRefused, stored, history
<1>5. CASE RefreshToken(r)
  <2>1. PICK t \in Tokens : t = worker[r].token
    BY <1>5 DEF RefreshToken, WorkersOK
  <2>2. PICK u \in Tokens : u = worker'[r].token
    BY <1>5, Renewed
  <2>3. u.refresh \in Nat
    BY TokenFields
  <2>4. UNCHANGED <<rotates, codes, row, lost>>
    BY <1>5 DEF RefreshToken, stored, history
  <2>5. /\ Pair(t) \in accepted
        /\ accepted' = (accepted \ {Pair(t)}) \cup {Pair(u)}
        /\ u.login = t.login /\ u.refresh = IF rotates THEN t.refresh + 1 ELSE t.refresh
        /\ worker[r].at = "refresh" /\ worker'[r].at = "row" /\ Others(r)
    BY <1>5, <2>1, <2>2, Renewed
  <2>6. Renewal(r, t, u.refresh)
    BY <2>1, <2>2, <2>4, <2>5 DEF Renewal, Pair
  <2>. QED
    BY <2>3, <2>6, RenewalKeepsAcc
<1>6. CASE RefreshLost(r)
  <2>1. PICK n \in Nat :
           /\ n = IF rotates THEN worker[r].token.refresh + 1 ELSE worker[r].token.refresh
           /\ worker[r].token \in Tokens /\ worker[r].at = "refresh"
           /\ Pair(worker[r].token) \in accepted
           /\ accepted' = (accepted \ {Pair(worker[r].token)})
                             \cup {<<worker[r].token.login, n>>}
    BY <1>6, LostAnswer
  <2>2. Others(r) /\ worker'[r].at = "idle"
    BY <1>6, Left, Groups DEF RefreshLost
  <2>3. UNCHANGED <<rotates, codes, row>> /\ lost' = (lost \/ rotates)
    BY <1>6 DEF RefreshLost, stored
  <2>4. Renewal(r, worker[r].token, n)
    BY <2>1, <2>2, <2>3 DEF Renewal
  <2>. QED
    BY <2>1, <2>4, RenewalKeepsAcc
<1>. QED
  BY <1>2, <1>3, <1>4, <1>5, <1>6 DEF GoOn

\* ... their writes do,
LEMMA WriteKeepsAcc ==
    ASSUME Inv, AccInv, NEW w \in Workers, Write(w)
    PROVE  AccInv'
<1>. USE DEF Inv, TypeInv
<1>1. ASSUME Others(w), worker'[w].at \in (IF w \in Logins THEN Ended ELSE {"idle"}),
             UNCHANGED <<sso, row>>, lost => lost',
             rotates /\ ~lost' /\ row # NoToken /\ w \in Refreshers => worker[w].at # "row"
      PROVE  AccInv'
  <2>1. (\A r \in Refreshers : Quiet(r)) /\ (\A l \in Logins : Calm(l))
    BY <1>1, OthersAreCalm, Groups DEF Quiet, Calm
  <2>2. NoneGiven
    BY <1>1, OthersAreCalm, Groups DEF NoneGiven
  <2>3. AccFrame
    BY <1>1, <2>1, <2>2 DEF AccFrame, sso
  <2>. QED
    BY <2>3, FrameKeepsAcc
<1>2. CASE StoreRow(w) /\ character
  BY <1>2, RowKeepsAcc
<1>3. CASE StoreRow(w) /\ ~character
  <2>1. row = NoToken
    BY <1>3 DEF RowOK
  <2>2. /\ Others(w) /\ worker'[w].at = IF w \in Logins THEN "failed" ELSE "idle"
        /\ UNCHANGED <<sso, row, lost>>
    BY <1>3, Left DEF StoreRow
  <2>. QED
    BY <1>1, <2>1, <2>2 DEF Ended
<1>4. CASE ReplaceScopes(w)
  <2>1. /\ Others(w) /\ worker[w].at = "store"
        /\ worker'[w].at \in IF w \in Logins THEN Ended ELSE {"idle"}
        /\ UNCHANGED <<sso, row, lost>>
    BY <1>4, ScopesStored DEF ReplaceScopes, Ended
  <2>. QED
    BY <1>1, <2>1
<1>5. CASE FailStore(w)
  <2>1. /\ Others(w) /\ worker'[w].at = IF w \in Logins THEN "failed" ELSE "idle"
        /\ UNCHANGED <<sso, row>>
        /\ lost' = (lost \/ (w \in Refreshers /\ worker[w].at = "row" /\ rotates))
    BY <1>5, Left DEF FailStore, stored
  <2>. QED
    BY <1>1, <2>1 DEF Ended
<1>. QED
  BY <1>2, <1>3, <1>4, <1>5 DEF Write

\* ... and therefore every step.
LEMMA AccStep == Inv /\ HeardInv /\ AccInv /\ [Next]_vars => AccInv'
<1>. SUFFICES ASSUME Inv, HeardInv, AccInv, [Next]_vars PROVE AccInv'
  OBVIOUS
<1>. USE DEF Inv, TypeInv
<1>1. ASSUME worker' = worker, UNCHANGED <<rotates, accepted, codes, lost>>,
             row' \in {row, NoToken}
      PROVE  AccInv'
  <2>1. AccFrame
    BY <1>1 DEF AccFrame, Quiet, Calm, NoneGiven
  <2>. QED
    BY <2>1, FrameKeepsAcc
<1>2. CASE \E h \in Handlers, l \in Logins, s \in AllLogins : Callback(h, l, s)
  BY <1>1, <1>2 DEF Callback, sso, stored, history
<1>3. CASE DeleteCharacter \/ Expire \/ UNCHANGED vars
  BY <1>1, <1>3 DEF DeleteCharacter, Expire, vars, sso, stored, history
<1>4. CASE Restart
  <2>1. /\ UNCHANGED <<rotates, accepted, codes, row>>
        /\ lost' = (lost \/ (rotates /\ \E r \in Refreshers : worker[r].at = "row"))
    BY <1>4 DEF Restart, sso, stored
  <2>2. (\A r \in Refreshers : Quiet(r)) /\ \A l \in Logins : Calm(l)
    BY <1>4, Restarted, Groups DEF Quiet, Calm, Ended
  <2>3. AccFrame
    BY <2>1, <2>2 DEF AccFrame, NoneGiven
  <2>. QED
    BY <2>3, FrameKeepsAcc
<1>. QED
  BY <1>2, <1>3, <1>4, Steps, RefresherKeepsAcc, WriteKeepsAcc, LoginKeepsAcc, AnswerKeepsAcc

----------------------------------------------------------------------------
(* LoginIsKept: the row and its scopes *)

\* A goroutine that has stored the row has left its own token there.
RowIsMine == \A w \in Workers : worker[w].at = "store" =>
                row.login = worker[w].token.login /\ rowId = worker[w].id
\* A goroutine that refreshes the token of the last login has its scopes.
ScopesAreMine ==
    /\ row.login = latest /\ scopes = ScopesOf(latest)
    /\ \A r \in Refreshers :
          worker[r].at \in {"refresh", "row", "store"} /\ worker[r].token.login = latest
             => worker[r].scopes = ScopesOf(latest)
LoginStores == \E l \in Logins : worker[l].at = "store"
KeptInv == ~mixed /\ row # NoToken => RowIsMine /\ (~LoginStores => ScopesAreMine)

\* The row and its scopes fit together when the program has started.
LEMMA KeptInit == Init => KeptInv
<1>. SUFFICES ASSUME Init PROVE RowIsMine /\ ScopesAreMine
  BY DEF KeptInv
<1>1. /\ row = Token(Earlier, 0, 0) /\ scopes = "some" /\ latest = Earlier
      /\ \A w \in Workers : worker[w].at = "idle"
  BY RestingFields DEF Init
<1>2. row.login = Earlier
  BY <1>1 DEF Token
<1>. QED
  BY <1>1, <1>2, Groups DEF RowIsMine, ScopesAreMine, ScopesOf

\* Steps that store nothing: nobody enters or leaves "store", and who starts a
\* refresh has read the scopes that are stored.
KeptFrame ==
    /\ UNCHANGED <<rowId, scopes, latest>> /\ row' \in {row, NoToken}
    /\ mixed => mixed'
    /\ \A w \in Workers :
          IF worker'[w].at = "store" THEN worker'[w] = worker[w]
                                     ELSE worker[w].at # "store"
    /\ \A r \in Refreshers : worker'[r].at \in {"refresh", "row", "store"} =>
          \/ /\ worker[r].at \in {"refresh", "row", "store"}
             /\ worker'[r].token.login = worker[r].token.login
             /\ worker'[r].scopes = worker[r].scopes
          \/ worker'[r].scopes = scopes

\* What does not touch the row keeps that, and so does a named mixture.
LEMMA FrameKeepsKept == ASSUME KeptInv, KeptFrame \/ (mixed' = TRUE) PROVE KeptInv'
<1>. SUFFICES ASSUME ~mixed', row' # NoToken
              PROVE  RowIsMine' /\ (~LoginStores' => ScopesAreMine')
  BY DEF KeptInv
<1>1. KeptFrame /\ ~mixed /\ row' = row /\ row # NoToken
  BY DEF KeptFrame
<1>2. RowIsMine'
  BY <1>1 DEF KeptInv, KeptFrame, RowIsMine
<1>3. LoginStores => LoginStores'
  BY <1>1, Groups DEF LoginStores, KeptFrame
<1>4. ASSUME ~LoginStores' PROVE ScopesAreMine'
  <2>1. ScopesAreMine
    BY <1>1, <1>3, <1>4 DEF KeptInv
  <2>. QED
    BY <1>1, <2>1 DEF KeptFrame, ScopesAreMine
<1>. QED
  BY <1>2, <1>4

\* One goroutine that does not write the row leaves it as it is.
LEMMA OneMoves ==
    ASSUME NEW w \in Workers, Others(w), UNCHANGED <<rowId, scopes, latest>>,
           row' \in {row, NoToken}, mixed => mixed',
           worker[w].at # "store", worker'[w].at # "store",
           w \in Refreshers /\ worker'[w].at \in {"refresh", "row"} =>
              \/ /\ worker[w].at \in {"refresh", "row"}
                 /\ worker'[w].token.login = worker[w].token.login
                 /\ worker'[w].scopes = worker[w].scopes
              \/ worker'[w].scopes = scopes
    PROVE  KeptFrame
  BY Groups DEF KeptFrame, Others

\* A new row has no scopes of its own yet, which its writer knows.
LEMMA RowKeepsKept ==
    ASSUME Inv, AccInv, KeptInv, NEW w \in Workers, StoreRow(w), character
    PROVE  KeptInv'
<1>. USE DEF Inv, TypeInv
<1>. SUFFICES ASSUME ~mixed'
              PROVE  RowIsMine' /\ (~LoginStores' => ScopesAreMine')
  BY DEF KeptInv
<1>1. /\ \A v \in Workers \ {w} : worker'[v] = worker[v]
      /\ worker[w].at = "row" /\ worker'[w].at = "store"
      /\ worker[w].token \in Tokens /\ worker'[w].token = worker[w].token
      /\ worker'[w].scopes = worker[w].scopes /\ worker'[w].id = rowId'
      /\ row' = worker[w].token
      /\ rowId' = IF row = NoToken THEN rowId + 1 ELSE rowId
  BY RowStored DEF Others, Moves
<1>2. UNCHANGED <<scopes, latest>>
  BY DEF StoreRow
<1>3. /\ ~mixed
      /\ w \in Refreshers => row # NoToken /\ row.login = worker[w].token.login
      /\ \A v \in Workers \ {w} : worker[v].at = "store"
                                     => worker[v].token.login = worker[w].token.login
  BY Zenon DEF StoreRow
<1>4. ASSUME NEW v \in Workers \ {w}, worker[v].at = "store"
      PROVE  row'.login = worker[v].token.login /\ rowId' = worker[v].id
  <2>1. worker[v].token.login = worker[w].token.login
    BY <1>3, <1>4
  <2>2. row # NoToken
    <3>1. CASE w \in Refreshers
      BY <1>3, <3>1
    <3>2. CASE w \in Logins
      <4>1. worker[w].token.login = w /\ w \notin Settled
        BY <1>1, <3>2, Groups DEF AccInv, NewLogin, Settled, Ended
      <4>2. v \notin Logins
        BY <1>4, <2>1, <4>1 DEF AccInv, NewLogin
      <4>3. v \in Refreshers /\ worker[v].token \in Held
        BY <1>4, <4>2, Groups DEF Held, WorkersOK
      <4>. QED
        BY <2>1, <4>1, <4>3 DEF AccInv, HeldSettled
    <3>. QED
      BY <3>1, <3>2, Groups
  <2>3. rowId' = rowId /\ rowId = worker[v].id
    BY <1>1, <1>3, <1>4, <2>2 DEF KeptInv, RowIsMine
  <2>. QED
    BY <1>1, <2>1, <2>3
<1>5. RowIsMine'
  BY <1>1, <1>4 DEF RowIsMine
<1>6. ASSUME ~LoginStores' PROVE ScopesAreMine'
  <2>1. w \in Refreshers /\ ~LoginStores
    BY <1>1, <1>6, Groups DEF LoginStores
  <2>2. row # NoToken /\ ScopesAreMine
    BY <1>3, <2>1 DEF KeptInv
  <2>3. row'.login = latest
    BY <1>1, <1>3, <2>1, <2>2 DEF ScopesAreMine
  <2>. QED
    BY <1>1, <1>2, <2>1, <2>2, <2>3, Groups DEF ScopesAreMine
<1>. QED
  BY <1>5, <1>6

\* The scopes are of the login that stored the row, or it is mixed.
LEMMA ScopesKeepKept ==
    ASSUME Inv, AccInv, KeptInv, NEW w \in Workers, ReplaceScopes(w)
    PROVE  KeptInv'
<1>. USE DEF Inv, TypeInv
<1>. SUFFICES ASSUME ~mixed', row' # NoToken
              PROVE  RowIsMine' /\ (~LoginStores' => ScopesAreMine')
  BY DEF KeptInv
<1>1. /\ \A v \in Workers \ {w} : worker'[v] = worker[v]
      /\ worker[w].at = "store" /\ row' = row /\ rowId' = rowId /\ worker'[w].at # "store"
      /\ w \in Refreshers => worker'[w].at = "idle"
  BY ScopesStored, Groups DEF Others, ReplaceScopes
<1>2. CASE ~(row # NoToken /\ rowId = worker[w].id)
  <2>1. ~mixed /\ row # NoToken
    BY <1>1, <1>2, ScopesStored
  <2>. QED
    BY <1>1, <1>2, <2>1 DEF KeptInv, RowIsMine
<1>3. CASE (row # NoToken /\ rowId = worker[w].id) /\ w \in Logins
  <2>1. /\ scopes' = worker[w].scopes /\ latest' = w /\ mixed' = Overlap(w)
    BY <1>3, ScopesStored
  <2>2. /\ row.login = w
        /\ \A v \in Workers \ {w} : worker[v].at \notin {"scopes", "refresh", "row", "store"}
    BY <2>1 DEF Overlap
  <2>3. worker[w].scopes = ScopesOf(w)
    BY <1>1, <1>3 DEF AccInv, NewLogin
  <2>. QED
    BY <1>1, <1>3, <2>1, <2>2, <2>3, Groups DEF RowIsMine, ScopesAreMine
<1>4. CASE (row # NoToken /\ rowId = worker[w].id) /\ w \in Refreshers
  <2>1. scopes' = worker[w].scopes /\ latest' = latest /\ mixed' = mixed
    BY <1>4, ScopesStored, Groups
  <2>2. RowIsMine /\ RowIsMine'
    BY <1>1, <1>4, <2>1 DEF KeptInv, RowIsMine
  <2>3. LoginStores' <=> LoginStores
    BY <1>1, <1>4, Groups DEF LoginStores
  <2>4. ASSUME ~LoginStores' PROVE ScopesAreMine'
    <3>1. ScopesAreMine
      BY <1>4, <2>1, <2>3, <2>4 DEF KeptInv
    <3>2. worker[w].scopes = ScopesOf(latest)
      BY <1>1, <1>4, <2>2, <3>1 DEF RowIsMine, ScopesAreMine
    <3>. QED
      BY <1>1, <1>4, <2>1, <3>1, <3>2, Groups DEF ScopesAreMine
  <2>. QED
    BY <2>2, <2>4
<1>. QED
  BY <1>2, <1>3, <1>4, Groups

\* Every step keeps that row and scopes fit together.
LEMMA KeptStep == Inv /\ AccInv /\ KeptInv /\ [Next]_vars => KeptInv'
<1>. SUFFICES ASSUME Inv, AccInv, KeptInv, [Next]_vars PROVE KeptInv'
  OBVIOUS
<1>. USE DEF Inv, TypeInv
<1>1. ASSUME worker' = worker, UNCHANGED <<rowId, latest, mixed>>, row' \in {row, NoToken},
             scopes' = scopes \/ row' = NoToken
      PROVE  KeptInv'
  BY <1>1, FrameKeepsKept DEF KeptFrame, KeptInv
<1>2. ASSUME NEW r \in Refreshers, GoOn(r) PROVE KeptInv'
  <2>1. UNCHANGED <<row, rowId, scopes, latest, mixed>>
    BY <1>2 DEF GoOn, GetCharacterToken, RemainsValid, RefreshToken, RefreshRefused,
       RefreshLost, stored, history
  <2>2. /\ Others(r) /\ worker[r].at # "store" /\ worker'[r].at # "store"
        /\ worker'[r].at \in {"refresh", "row"} =>
              \/ /\ worker[r].at \in {"refresh", "row"}
                 /\ worker'[r].token.login = worker[r].token.login
                 /\ worker'[r].scopes = worker[r].scopes
              \/ worker'[r].scopes = scopes
    <3>1. CASE GetCharacterToken(r)
      BY <3>1, Copied
    <3>2. CASE RemainsValid(r)
      BY <3>2, Judged
    <3>3. CASE RefreshToken(r)
      BY <3>3, Renewed
    <3>4. CASE RefreshRefused(r) \/ RefreshLost(r)
      BY <3>4, Left, Groups DEF RefreshRefused, RefreshLost
    <3>. QED
      BY <1>2, <3>1, <3>2, <3>3, <3>4 DEF GoOn
  <2>. QED
    BY <2>1, <2>2, OneMoves, FrameKeepsKept, Groups
<1>3. ASSUME NEW w \in Workers, Write(w) PROVE KeptInv'
  <2>1. CASE StoreRow(w) /\ ~character
    <3>1. /\ Others(w) /\ worker[w].at = "row"
          /\ worker'[w].at = IF w \in Logins THEN "failed" ELSE "idle"
          /\ UNCHANGED <<row, rowId, scopes, latest, mixed>>
      BY <2>1, Left DEF StoreRow
    <3>. QED
      BY <3>1, OneMoves, FrameKeepsKept
  <2>2. CASE FailStore(w)
    <3>1. /\ Others(w) /\ mixed' = (mixed \/ worker[w].at = "store")
          /\ worker'[w].at = IF w \in Logins THEN "failed" ELSE "idle"
          /\ UNCHANGED <<row, rowId, scopes, latest>>
      BY <2>2, Left DEF FailStore, stored
    <3>2. CASE worker[w].at = "store"
      BY <3>1, <3>2, FrameKeepsKept
    <3>3. CASE worker[w].at # "store"
      BY <3>1, <3>3, OneMoves, FrameKeepsKept
    <3>. QED
      BY <3>2, <3>3
  <2>. QED
    BY <1>3, <2>1, <2>2, RowKeepsKept, ScopesKeepKept DEF Write
<1>4. ASSUME NEW l \in Logins, LogIn(l) PROVE KeptInv'
  <2>1. UNCHANGED <<row, rowId, scopes, latest, mixed>>
    BY <1>4 DEF LogIn, Authenticate, Abort, Shutdown, Return, StoreCharacter, stored, history
  <2>2. Others(l) /\ worker[l].at # "store" /\ worker'[l].at # "store"
    <3>1. CASE Authenticate(l)
      <4>1. worker[l].at = "idle" /\ \E a \in {"failed", "wait"} : Goto(l, a)
        BY <3>1, Zenon DEF Authenticate
      <4>. QED
        BY <4>1, Gone, Groups DEF LoginPlaces, Moves
    <3>2. CASE Abort(l) \/ StoreCharacter(l)
      BY <3>2, Gone, Groups DEF Abort, StoreCharacter, LoginPlaces, Moves
    <3>3. CASE Shutdown(l)
      BY <3>3, Returned DEF Shutdown, Outcome
    <3>. QED
      BY <1>4, <3>1, <3>2, <3>3 DEF LogIn
  <2>. QED
    BY <2>1, <2>2, OneMoves, FrameKeepsKept, Groups
<1>5. ASSUME NEW h \in Handlers, Answer(h) PROVE KeptInv'
  <2>1. UNCHANGED <<row, rowId, scopes, latest, mixed>>
    BY <1>5 DEF Answer, FetchNewToken, ReadContext, AssignContext, stored, history
  <2>2. CASE worker' = worker
    BY <1>1, <2>1, <2>2
  <2>3. CASE worker' # worker
    <3>1. PICK l \in Logins : worker[l].at = "wait" /\ Goto(l, "stop")
      BY <1>5, <2>3 DEF Answer, FetchNewToken, ReadContext, AssignContext, RequestsOK,
         RequestOK
    <3>2. Others(l) /\ worker'[l].at = "stop"
      BY <3>1, Gone, Groups DEF LoginPlaces, Moves
    <3>. QED
      BY <2>1, <3>1, <3>2, OneMoves, FrameKeepsKept, Groups
  <2>. QED
    BY <2>2, <2>3
<1>6. CASE \E h \in Handlers, l \in Logins, s \in AllLogins : Callback(h, l, s)
  BY <1>1, <1>6 DEF Callback, stored, history
<1>7. CASE DeleteCharacter \/ Expire \/ UNCHANGED vars
  BY <1>1, <1>7 DEF DeleteCharacter, Expire, vars, stored, history
<1>8. CASE Restart
  <2>1. /\ UNCHANGED <<row, rowId, scopes, latest>>
        /\ mixed' = (mixed \/ \E w \in Workers : worker[w].at = "store")
    BY <1>8 DEF Restart, stored
  <2>2. CASE \E w \in Workers : worker[w].at = "store"
    BY <2>1, <2>2, FrameKeepsKept
  <2>3. CASE ~\E w \in Workers : worker[w].at = "store"
    <3>1. KeptFrame
      BY <1>8, <2>1, <2>3, Restarted, Groups DEF KeptFrame, Ended
    <3>. QED
      BY <3>1, FrameKeepsKept
  <2>. QED
    BY <2>2, <2>3
<1>. QED
  BY <1>2, <1>3, <1>4, <1>5, <1>6, <1>7, <1>8, Steps

\* The chain of tokens and the row make the stored token the right one.
LEMMA RightToken == Inv /\ AccInv /\ KeptInv => StoredTokenIsRight
<1>. SUFFICES ASSUME Inv, AccInv, KeptInv PROVE StoredTokenIsRight
  OBVIOUS
<1>1. TypeOK
  BY TypeInvIsType DEF Inv
<1>2. StoredTokenIsAccepted
  BY DEF StoredTokenIsAccepted, AccInv, RowLeads, Pair
<1>3. LoginIsKept
  BY Groups DEF LoginIsKept, KeptInv, LoginStores, Storing, ScopesAreMine
<1>. QED
  BY <1>1, <1>2, <1>3 DEF StoredTokenIsRight

\* internal/app/characterservice: the stored token is right.  Its refresh token is
\* one that the SSO server accepts, however many goroutines refresh it side by
\* side and whether the server replaces refresh tokens or not, unless the
\* successor is about to be stored or was lost; it is that of the last login, with
\* its scopes, unless a login overlapped with a refresh or storing was cut short.
THEOREM TokenStaysRight == Spec => []StoredTokenIsRight
<1>1. Init => Inv /\ HeardInv /\ AccInv /\ KeptInv
  BY InvInit, HeardInit, AccInit, KeptInit
<1>2. Inv /\ HeardInv /\ AccInv /\ KeptInv /\ [Next]_vars
         => (Inv /\ HeardInv /\ AccInv /\ KeptInv)'
  BY TypeStep, HeardStep, AccStep, KeptStep
<1>3. Inv /\ AccInv /\ KeptInv => StoredTokenIsRight
  BY RightToken
<1>. QED
  BY <1>1, <1>2, <1>3, PTL DEF Spec

=============================================================================
