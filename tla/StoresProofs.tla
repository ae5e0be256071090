---------------------------- MODULE StoresProofs ----------------------------
(* Proofs about Stores, for any goroutines, migrations and bounds. *)
EXTENDS Stores, WellFoundedInduction, TLAPS

----------------------------------------------------------------------------
(* Type correctness *)

Places == {"idle", "memory", "row", "load", "share", "fetch", "set", "enter", "store", "join",
           "forgetRow", "forgetItem"}
\* The versions that the server has had, and the items that hold one.
Versions == 0..source
Blobs == [value : Versions, expires : Nat]
UserRecords == [at : Places, value : Versions \cup {None}, expires : Nat,
                since : Versions \cup {None}, alone : BOOLEAN]

SchemaOK ==
    /\ phase \in {"off", "opening", "open", "failed"}
    /\ tracking \in BOOLEAN /\ recorded \subseteq Migrations
    /\ executed \in [Migrations -> Nat] /\ shipped \in Migrations
    /\ unapplied \in [names : SUBSET Migrations, next : Nat \ {0}]
    /\ phase \in {"open", "opening"} => tracking
    /\ phase = "open" => 1..shipped \subseteq recorded
CacheOK ==
    /\ kind \in {"image", "http"} /\ timeout \in {0, 1}
    /\ now \in 0..MaxTime /\ source \in 0..MaxVersion /\ faults \in 0..MaxFaults
    /\ {memory, row, kept} \subseteq Blobs \cup {None}
    /\ removed \in BOOLEAN
    /\ user \in [Users -> UserRecords]
\* What a goroutine holds depends on where it is.
HoldsOK ==
    \A u \in Users :
        /\ user[u].at \in {"set", "enter", "store", "join"} => user[u].value # None
        /\ user[u].at \in {"memory", "row", "load", "share", "fetch"} => user[u].value = None
\* Nothing is in memory unless the program runs.
OffOK == phase # "open" => memory = None /\ \A u \in Users : user[u].at = "idle"
TypeInv == SchemaOK /\ CacheOK /\ HoldsOK /\ OffOK

\* The bounds are natural numbers, and no time or version is none.
LEMMA NaturalBounds ==
    /\ None \notin Nat /\ MaxVersion \in Nat /\ MaxTime \in Nat /\ MaxFaults \in Nat
    /\ Statements \in Seq(Nat \ {0}) /\ Statements # <<>>
  BY StoresAssumption DEF StoresAssumption

\* Migrations are numbered, and each has a statement.
LEMMA MigrationNumbers ==
    /\ Migrations = 1..Len(Statements) /\ Len(Statements) \in Nat \ {0}
    /\ \A m \in Migrations : m \in Nat /\ Statements[m] \in Nat \ {0}
  BY NaturalBounds DEF Migrations

\* What the proofs say of types is at least what the runs check.
LEMMA TypeInvIsType == TypeInv => TypeOK
<1>. SUFFICES ASSUME TypeInv PROVE TypeOK
  OBVIOUS
<1>. USE DEF TypeInv
<1>1. row # None => row.value \in 0..source
  BY DEF CacheOK, Blobs, Versions
<1>2. \A u \in Users : user[u].at \in Places
  BY DEF CacheOK, UserRecords
<1>. QED
  BY <1>1, <1>2 DEF TypeOK, SchemaOK, CacheOK, OffOK, Places

\* The types hold before the first start.
LEMMA TypeInit == Init => TypeInv
<1>. SUFFICES ASSUME Init PROVE TypeInv
  OBVIOUS
<1>0. 0 \in 0..0 /\ 0 \in 0..MaxTime /\ 0 \in 0..MaxVersion /\ 0 \in 0..MaxFaults
  BY NaturalBounds
<1>1. SchemaOK
  <2>1. executed \in [Migrations -> Nat]
    BY DEF Init
  <2>2. unapplied \in [names : SUBSET Migrations, next : Nat \ {0}]
    BY DEF Init
  <2>. QED
    BY <2>1, <2>2 DEF Init, SchemaOK
<1>2. CacheOK
  <2>1. Resting \in UserRecords
    BY DEF Resting, UserRecords, Places
  <2>2. timeout \in {0, 1}
    BY DEF Init
  <2>. QED
    BY <1>0, <2>1, <2>2 DEF Init, CacheOK
<1>3. HoldsOK /\ OffOK
  BY DEF Init, HoldsOK, OffOK, Resting
<1>. QED
  BY <1>1, <1>2, <1>3 DEF TypeInv

----------------------------------------------------------------------------
(* The first migration to apply *)

\* A set of numbers has a least one,
LEMMA FirstExists ==
    ASSUME NEW T \in SUBSET Nat, T # {}
    PROVE  \E m \in T : \A n \in T : m <= n
<1>1. PICK m \in T : \A n \in T : ~(<<n, m>> \in OpToRel(<, Nat))
  BY NatLessThanWellFounded, WFMin, Zenon
<1>2. ASSUME NEW n \in T PROVE m <= n
  <2>1. n < m => <<n, m>> \in OpToRel(<, Nat)
    BY DEF OpToRel
  <2>2. ~(n < m)
    BY <1>1, <2>1, Zenon
  <2>. QED
    BY <2>2
<1>. QED
  BY <1>2

\* ... and so the loop finds the next migration.
LEMMA FirstChosen ==
    ASSUME NEW T \in SUBSET Migrations, T # {}
    PROVE  (CHOOSE m \in T : \A n \in T : m <= n) \in T
<1>1. \E m \in T : \A n \in T : m <= n
  BY FirstExists, MigrationNumbers
<1>. QED
  BY <1>1

\* Run applies migrations that it has found unapplied.
LEMMA CurrentIsUnapplied ==
    ASSUME SchemaOK, unapplied.names # {}
    PROVE  Current \in unapplied.names /\ Current \in Migrations
<1>1. unapplied.names \in SUBSET Migrations
  BY DEF SchemaOK
<1>. QED
  BY <1>1, FirstChosen DEF Current

----------------------------------------------------------------------------
(* The migrations *)

\* No migration is executed beyond its last statement.  While the database is
\* opened, what is to be applied is what is not recorded, and the migration
\* that is applied was executed at least to the statement before the next.
Applying ==
    /\ \A m \in Migrations : executed[m] <= Statements[m]
    /\ phase = "opening" =>
          /\ unapplied.names = 1..shipped \ recorded
          /\ unapplied.names # {} => executed[Current] >= unapplied.next - 1
MigrationInv == Applying /\ RecordedMeansDone /\ FailsOnlyWhenTorn

\* The cache is not touched while the program opens the database or is off.
CacheKept == UNCHANGED <<key, items, now, source, user, cleaner, faults, history>>
SchemaKept == UNCHANGED <<phase, schema>>

\* A step of the migrations leaves the cache as it is,
LEMMA CacheKeptMeans ==
    ASSUME CacheKept
    PROVE  /\ UNCHANGED <<kind, timeout, memory, row, now, source, user, cleaner, faults, kept, removed>>
           /\ CacheOK => CacheOK'
           /\ HoldsOK => HoldsOK'
<1>1. UNCHANGED <<kind, timeout, memory, row, now, source, user, cleaner, faults, kept, removed>>
  BY DEF CacheKept, key, items, history
<1>. QED
  BY <1>1 DEF CacheOK, HoldsOK, Blobs, UserRecords, Versions

\* ... and a step of the cache the schema.
LEMMA SchemaKeptMeans ==
    ASSUME SchemaKept
    PROVE  /\ UNCHANGED <<phase, tracking, recorded, executed, unapplied, shipped>>
           /\ SchemaOK => SchemaOK'
           /\ MigrationInv => MigrationInv'
<1>1. UNCHANGED <<phase, tracking, recorded, executed, unapplied, shipped>>
  BY DEF SchemaKept, schema
<1>. QED
  BY <1>1 DEF SchemaOK, MigrationInv, Applying, RecordedMeansDone, FailsOnlyWhenTorn, Current

\* The step of the migrations: Run, Execute, recordMigration, Opened, Upgrade
\* and the end of the process.
LEMMA OpeningStep ==
    ASSUME SchemaOK, OffOK, MigrationInv, Start \/ Upgrade
    PROVE  SchemaOK' /\ MigrationInv' /\ CacheKept /\ OffOK'
<1>. USE DEF MigrationInv
<1>0. /\ phase \in {"off", "opening", "open", "failed"}
      /\ tracking \in BOOLEAN /\ recorded \subseteq Migrations
      /\ executed \in [Migrations -> Nat] /\ shipped \in Migrations
      /\ unapplied \in [names : SUBSET Migrations, next : Nat \ {0}]
      /\ phase \in {"open", "opening"} => tracking
      /\ phase = "open" => 1..shipped \subseteq recorded
  BY DEF SchemaOK
<1>1. ASSUME Run PROVE SchemaOK' /\ MigrationInv' /\ CacheKept /\ OffOK'
  <2>1. /\ phase = "off" /\ phase' = "opening" /\ tracking' = TRUE
        /\ unapplied' = [names |-> 1..shipped \ recorded, next |-> 1]
        /\ UNCHANGED <<recorded, executed, shipped>> /\ CacheKept
    BY <1>1 DEF Run, CacheKept
  <2>2. 1..shipped \subseteq Migrations
    BY <1>0, MigrationNumbers
  <2>3. SchemaOK'
    BY <1>0, <2>1, <2>2 DEF SchemaOK
  <2>4. unapplied'.names # {} => Current' \in Migrations
    <3>1. unapplied'.names \in SUBSET Migrations
      BY <2>3 DEF SchemaOK
    <3>. QED
      BY <3>1, FirstChosen DEF Current
  <2>5. Applying'
    BY <1>0, <2>1, <2>4 DEF Applying
  <2>6. OffOK'
    BY <2>1, CacheKeptMeans DEF OffOK
  <2>. QED
    BY <2>1, <2>3, <2>5, <2>6 DEF RecordedMeansDone, FailsOnlyWhenTorn
<1>2. ASSUME Execute PROVE SchemaOK' /\ MigrationInv' /\ CacheKept /\ OffOK'
  <2>1. /\ phase = "opening" /\ unapplied.names # {}
        /\ unapplied.next <= Statements[Current]
        /\ UNCHANGED <<tracking, recorded, shipped>> /\ CacheKept
    BY <1>2 DEF Execute, CacheKept
  <2>2. PICK c \in Migrations : c = Current /\ c \in unapplied.names /\ c \notin recorded
    BY <2>1, CurrentIsUnapplied DEF Applying
  <2>3. /\ executed[c] \in Nat /\ unapplied.next \in Nat \ {0} /\ Statements[c] \in Nat
        /\ executed[c] >= unapplied.next - 1
    BY <1>0, <2>1, <2>2, MigrationNumbers DEF Applying
  <2>4. OffOK'
    BY <1>2, <2>1, CacheKeptMeans DEF OffOK, Execute
  <2>5. CASE executed[c] >= unapplied.next
    <3>1. phase' = "failed" /\ UNCHANGED <<executed, unapplied>> /\ executed[c] > 0
      BY <1>2, <2>2, <2>3, <2>5 DEF Execute
    <3>. QED
      BY <1>0, <2>1, <2>2, <2>4, <3>1
         DEF SchemaOK, Applying, RecordedMeansDone, FailsOnlyWhenTorn
  <2>6. CASE ~(executed[c] >= unapplied.next)
    <3>1. /\ executed' = [executed EXCEPT ![c] = @ + 1]
          /\ unapplied' = [unapplied EXCEPT !.next = @ + 1]
          /\ UNCHANGED phase
      BY <1>2, <2>2, <2>6 DEF Execute
    <3>2. SchemaOK'
      BY <1>0, <2>1, <2>3, <3>1 DEF SchemaOK
    <3>3. /\ executed'[c] = unapplied.next /\ unapplied'.next = unapplied.next + 1
          /\ unapplied'.names = unapplied.names
          /\ \A m \in Migrations \ {c} : executed'[m] = executed[m]
      BY <1>0, <2>3, <2>6, <3>1
    <3>4. Current' = c
      BY <2>2, <3>3 DEF Current
    <3>5. Applying'
      BY <2>1, <2>2, <2>3, <3>1, <3>3, <3>4 DEF Applying
    <3>6. RecordedMeansDone' /\ FailsOnlyWhenTorn'
      BY <1>0, <2>1, <2>2, <3>1, <3>3 DEF RecordedMeansDone, FailsOnlyWhenTorn
    <3>. QED
      BY <2>1, <2>4, <3>2, <3>5, <3>6
  <2>. QED
    BY <2>5, <2>6
<1>3. ASSUME recordMigration PROVE SchemaOK' /\ MigrationInv' /\ CacheKept /\ OffOK'
  <2>1. /\ phase = "opening" /\ unapplied.names # {}
        /\ unapplied.next > Statements[Current]
        /\ recorded' = recorded \cup {Current}
        /\ unapplied' = [names |-> unapplied.names \ {Current}, next |-> 1]
        /\ UNCHANGED <<phase, tracking, executed, shipped>> /\ CacheKept
    BY <1>3 DEF recordMigration, CacheKept
  <2>2. PICK c \in Migrations : c = Current /\ c \in unapplied.names
    BY <2>1, CurrentIsUnapplied
  <2>3. executed[c] = Statements[c]
    <3>1. executed[c] \in Nat /\ unapplied.next \in Nat /\ Statements[c] \in Nat
      BY <1>0, MigrationNumbers
    <3>. QED
      BY <2>1, <2>2, <3>1 DEF Applying
  <2>4. SchemaOK'
    BY <1>0, <2>1, <2>2 DEF SchemaOK
  <2>5. unapplied'.names # {} => Current' \in Migrations
    <3>1. unapplied'.names \in SUBSET Migrations
      BY <2>4 DEF SchemaOK
    <3>. QED
      BY <3>1, FirstChosen DEF Current
  <2>6. unapplied'.names = 1..shipped \ recorded' /\ unapplied'.next = 1
    BY <2>1 DEF Applying
  <2>7. Applying'
    BY <1>0, <2>1, <2>5, <2>6 DEF Applying
  <2>8. RecordedMeansDone' /\ FailsOnlyWhenTorn'
    BY <2>1, <2>2, <2>3 DEF RecordedMeansDone, FailsOnlyWhenTorn
  <2>9. OffOK'
    BY <2>1, CacheKeptMeans DEF OffOK
  <2>. QED
    BY <2>1, <2>4, <2>7, <2>8, <2>9
<1>4. ASSUME Opened PROVE SchemaOK' /\ MigrationInv' /\ CacheKept /\ OffOK'
  <2>1. /\ phase = "opening" /\ unapplied.names = {} /\ phase' = "open" /\ CacheKept
        /\ UNCHANGED <<tracking, recorded, executed, unapplied, shipped>>
    BY <1>4 DEF Opened, CacheKept, schema
  <2>2. 1..shipped \subseteq recorded
    BY <2>1 DEF Applying
  <2>. QED
    BY <1>0, <2>1, <2>2
       DEF SchemaOK, Applying, RecordedMeansDone, FailsOnlyWhenTorn, OffOK
<1>5. ASSUME Upgrade PROVE SchemaOK' /\ MigrationInv' /\ CacheKept /\ OffOK'
  <2>1. /\ phase = "off" /\ shipped' \in Migrations /\ CacheKept
        /\ UNCHANGED <<phase, tracking, recorded, executed, unapplied>>
    BY <1>5 DEF Upgrade, CacheKept
  <2>2. OffOK'
    BY <2>1, CacheKeptMeans DEF OffOK
  <2>. QED
    BY <1>0, <2>1, <2>2 DEF SchemaOK, Applying, RecordedMeansDone, FailsOnlyWhenTorn
<1>. QED
  BY <1>1, <1>2, <1>3, <1>4, <1>5, Zenon DEF Start

----------------------------------------------------------------------------
(* What a step of the cache does to the goroutines *)

UsersOK == user \in [Users -> UserRecords]
UsersStayOK == user' \in [Users -> UserRecords]
Others(u) == \A v \in Users \ {u} : user'[v] = user[v]
\* The goroutine u goes to a with what it holds.
Moves(u, a) ==
    /\ user'[u].at = a
    /\ user'[u].value = user[u].value /\ user'[u].since = user[u].since
    /\ user'[u].expires = user[u].expires
    /\ user'[u].alone = user[u].alone
\* The goroutine v returns with x.
Returns(v, x) == user'[v].at = "idle" /\ user'[v].value = x /\ user'[v].since = user[v].since

\* What a goroutine has in hand is of the right type.
LEMMA UserFields ==
    ASSUME UsersOK, NEW u \in Users
    PROVE  /\ user[u] \in UserRecords
           /\ user[u].at \in Places /\ user[u].value \in Versions \cup {None}
           /\ user[u].since \in Versions \cup {None}
           /\ user[u].expires \in Nat /\ user[u].alone \in BOOLEAN
  BY DEF UsersOK, UserRecords

\* A goroutine at rest may go to any place.
LEMMA RestingRecords ==
    ASSUME NEW x \in Versions \cup {None}, NEW y \in Versions \cup {None}, NEW a \in Places,
           NEW r, r = [Resting EXCEPT !.at = a, !.value = x, !.since = y]
    PROVE  r \in UserRecords /\ r.at = a /\ r.value = x /\ r.since = y
  BY DEF Resting, UserRecords, Places

\* Going on moves one goroutine,
LEMMA Gone ==
    ASSUME UsersOK, NEW u \in Users, NEW a \in Places, Goto(u, a)
    PROVE  UsersStayOK /\ Others(u) /\ Moves(u, a)
<1>. DEFINE r == [user[u] EXCEPT !.at = a]
<1>1. user[u] \in UserRecords
  BY UserFields
<1>2. /\ r \in UserRecords /\ r.at = a /\ r.value = user[u].value /\ r.since = user[u].since
      /\ r.expires = user[u].expires /\ r.alone = user[u].alone
  BY <1>1 DEF UserRecords
<1>3. user' = [user EXCEPT ![u] = r]
  BY DEF Goto
<1>. HIDE DEF r
<1>. QED
  BY <1>2, <1>3 DEF UsersOK, UsersStayOK, Others, Moves

\* ... so does a request, which remembers what was set before it,
LEMMA Asked ==
    ASSUME CacheOK, NEW u \in Users, Ask(u)
    PROVE  /\ phase = "open" /\ user[u].at = "idle" /\ UsersStayOK /\ Others(u)
           /\ user'[u].at = "memory" /\ user'[u].value = None
           /\ user'[u].since = IF kept = None THEN None ELSE kept.value
<1>. DEFINE y == IF kept = None THEN None ELSE kept.value
            r == [Resting EXCEPT !.at = "memory", !.since = y]
<1>1. y \in Versions \cup {None}
  BY DEF CacheOK, Blobs
<1>2. /\ phase = "open" /\ user[u].at = "idle" /\ user' = [user EXCEPT ![u] = r]
  BY DEF Ask
<1>. HIDE DEF y
<1>3. r \in UserRecords /\ r.at = "memory" /\ r.value = None /\ r.since = y
  BY <1>1 DEF Resting, UserRecords, Places
<1>. HIDE DEF r
<1>. QED
  BY <1>2, <1>3 DEF CacheOK, UsersStayOK, Others, y

\* ... so does an answer.
LEMMA Answered ==
    ASSUME UsersOK, NEW u \in Users, NEW x \in Versions \cup {None}, Answer(u, x)
    PROVE  UsersStayOK /\ Others(u) /\ Returns(u, x)
<1>. DEFINE r == [Resting EXCEPT !.value = x, !.since = user[u].since]
<1>1. r \in UserRecords /\ r.at = "idle" /\ r.value = x /\ r.since = user[u].since
  BY UserFields DEF Resting, UserRecords, Places
<1>2. user' = [user EXCEPT ![u] = r]
  BY DEF Answer
<1>. HIDE DEF r
<1>. QED
  BY <1>1, <1>2 DEF UsersOK, UsersStayOK, Others, Returns

\* The end of a load answers all who wait for it, and nobody else.
LEMMA Waked ==
    ASSUME UsersOK, NEW u \in Users, NEW W \in SUBSET {"join", "share"}, Wake(u, W)
    PROVE  /\ UsersStayOK
           /\ \A v \in Users :
                 /\ v = u \/ (user[v].at = "join" /\ "join" \in W) => Returns(v, user[v].value)
                 /\ v # u /\ user[v].at = "share" /\ "share" \in W => Returns(v, user[u].value)
                 /\ v # u /\ user[v].at \notin W => user'[v] = user[v]
<1>. DEFINE x(v) == user[IF user[v].at = "share" THEN u ELSE v].value
            r(v) == [Resting EXCEPT !.value = x(v), !.since = user[v].since]
<1>1. ASSUME NEW v \in Users
      PROVE  /\ r(v) \in UserRecords /\ r(v).at = "idle" /\ r(v).value = x(v)
             /\ r(v).since = user[v].since
  <2>1. x(v) \in Versions \cup {None} /\ user[v].since \in Versions \cup {None}
    BY UserFields
  <2>. HIDE DEF x
  <2>. QED
    BY <2>1 DEF Resting, UserRecords, Places
<1>2. user' = [v \in Users |-> IF v = u \/ user[v].at \in W THEN r(v) ELSE user[v]]
  BY DEF Wake
<1>. HIDE DEF r
<1>3. UsersStayOK
  BY <1>1, <1>2 DEF UsersOK, UsersStayOK
<1>4. ASSUME NEW v \in Users, v = u \/ user[v].at \in W
      PROVE  Returns(v, x(v))
  BY <1>1, <1>2, <1>4 DEF Returns
<1>5. \A v \in Users : v # u /\ user[v].at \notin W => user'[v] = user[v]
  BY <1>2
<1>. QED
  BY <1>3, <1>4, <1>5

\* A goroutine that sets or removes; the others are disturbed by one that begins.
Busy(u) == Setting(u) \/ Removing(u)
Disturbs(u) ==
    \A v \in Users \ {u} :
        /\ user'[v].at = user[v].at /\ user'[v].value = user[v].value
        /\ user'[v].since = user[v].since /\ user'[v].expires = user[v].expires
        /\ user'[v].alone => user[v].alone /\ ~Busy(v)

\* Who sets or removes is no longer alone when another one does.
LEMMA Disturbed ==
    ASSUME UsersOK, NEW u \in Users, NEW r \in UserRecords,
           user' = [v \in Users |->
                       IF v = u THEN r
                       ELSE [user[v] EXCEPT !.alone = @ /\ ~Setting(v) /\ ~Removing(v)]]
    PROVE  UsersStayOK /\ Disturbs(u) /\ user'[u] = r
<1>. DEFINE q(v) == [user[v] EXCEPT !.alone = @ /\ ~Setting(v) /\ ~Removing(v)]
<1>1. ASSUME NEW v \in Users
      PROVE  /\ q(v) \in UserRecords
             /\ q(v).at = user[v].at /\ q(v).value = user[v].value
             /\ q(v).since = user[v].since /\ q(v).expires = user[v].expires
             /\ q(v).alone => user[v].alone /\ ~Busy(v)
  <2>. DEFINE b == user[v].alone /\ ~Setting(v) /\ ~Removing(v)
  <2>1. user[v] \in UserRecords /\ b \in BOOLEAN
    BY UserFields
  <2>2. b => user[v].alone /\ ~Busy(v)
    BY DEF Busy
  <2>3. q(v) = [user[v] EXCEPT !.alone = b]
    OBVIOUS
  <2>. HIDE DEF b, q
  <2>. QED
    BY <2>1, <2>2, <2>3 DEF UserRecords
<1>2. user' = [v \in Users |-> IF v = u THEN r ELSE q(v)]
  OBVIOUS
<1>. HIDE DEF q
<1>3. UsersStayOK
  BY <1>1, <1>2 DEF UsersOK, UsersStayOK
<1>4. user'[u] = r /\ \A v \in Users \ {u} : user'[v] = q(v)
  BY <1>2
<1>. QED
  BY <1>1, <1>3, <1>4 DEF Disturbs

\* An item is in memory, of a goroutine that is alone only if no other one was at work.
LEMMA SetEffect ==
    ASSUME CacheOK, HoldsOK, NEW u \in Users, SetItem(u)
    PROVE  /\ UsersStayOK /\ Disturbs(u)
           /\ user[u].at = "set" /\ user'[u].at = "enter"
           /\ user'[u].value = user[u].value /\ user'[u].since = user[u].since
           /\ user'[u].alone => \A w \in Users : ~Busy(w)
           /\ memory' = Item(u)' /\ memory' \in Blobs
           /\ kept' = None /\ removed' = FALSE
<1>. DEFINE e == IF timeout = 0 THEN 0 ELSE now + timeout
            b == ~\E w \in Users : Setting(w) \/ Removing(w)
            r == [user[u] EXCEPT !.at = "enter", !.expires = e, !.alone = b]
<1>1. user[u].at = "set" /\ memory' = [value |-> user[u].value, expires |-> e]
      /\ kept' = None /\ removed' = FALSE
  BY DEF SetItem
<1>2. e \in Nat
  BY NaturalBounds DEF CacheOK
<1>3. user[u] \in UserRecords /\ user[u].value \in Versions
  BY <1>1, UserFields DEF CacheOK, HoldsOK, UsersOK
<1>4. b \in BOOLEAN /\ (b => \A w \in Users : ~Busy(w))
  BY DEF Busy
<1>5. memory'.expires = e
  BY <1>1
<1>6. user' = [v \in Users |->
                  IF v = u THEN r
                  ELSE [user[v] EXCEPT !.alone = @ /\ ~Setting(v) /\ ~Removing(v)]]
  BY <1>5 DEF SetItem
<1>. HIDE DEF e, b
<1>7. /\ r \in UserRecords /\ r.at = "enter" /\ r.value = user[u].value
      /\ r.since = user[u].since /\ r.expires = e /\ r.alone = b
  BY <1>2, <1>3, <1>4 DEF UserRecords, Places
<1>. HIDE DEF r
<1>8. UsersStayOK /\ Disturbs(u) /\ user'[u] = r
  BY <1>6, <1>7, Disturbed DEF CacheOK, UsersOK
<1>9. memory' = Item(u)' /\ memory' \in Blobs
  BY <1>1, <1>2, <1>3, <1>7, <1>8 DEF Item, Blobs
<1>10. user'[u].alone => \A w \in Users : ~Busy(w)
  BY <1>4, <1>7, <1>8
<1>. QED
  BY <1>1, <1>7, <1>8, <1>9, <1>10

\* A removal forgets what was set, and begins alone only beside no setting.
LEMMA RemoveEffect ==
    ASSUME CacheOK, NEW u \in Users, Remove(u)
    PROVE  /\ phase = "open" /\ user[u].at = "idle"
           /\ UsersStayOK /\ Disturbs(u)
           /\ user'[u].at = "forgetRow" /\ user'[u].value = None /\ user'[u].since = None
           /\ user'[u].alone => \A w \in Users : ~Setting(w)
           /\ kept' = None
<1>. DEFINE b == ~\E w \in Users : Setting(w)
            r == [Resting EXCEPT !.at = "forgetRow", !.alone = b]
<1>1. b \in BOOLEAN /\ (b => \A w \in Users : ~Setting(w))
  OBVIOUS
<1>2. user' = [v \in Users |->
                  IF v = u THEN r
                  ELSE [user[v] EXCEPT !.alone = @ /\ ~Setting(v) /\ ~Removing(v)]]
  BY DEF Remove
<1>3. phase = "open" /\ user[u].at = "idle" /\ kept' = None
  BY DEF Remove
<1>. HIDE DEF b
<1>4. /\ r \in UserRecords /\ r.at = "forgetRow" /\ r.value = None
      /\ r.since = None /\ r.alone = b
  BY <1>1 DEF Resting, UserRecords, Places
<1>. HIDE DEF r
<1>5. UsersStayOK /\ Disturbs(u) /\ user'[u] = r
  BY <1>2, <1>4, Disturbed DEF CacheOK, UsersOK
<1>. QED
  BY <1>1, <1>3, <1>4, <1>5

\* The stored row is gone, or could not be deleted by one who is not alone.
LEMMA DeleteRowEffect ==
    ASSUME CacheOK, NEW u \in Users, DeleteRow(u)
    PROVE  /\ user[u].at = "forgetRow" /\ UsersStayOK /\ Others(u)
           /\ user'[u].at = "forgetItem"
           /\ user'[u].value = user[u].value /\ user'[u].since = user[u].since
           /\ row' = row \/ row' = None
           /\ user'[u].alone => user[u].alone /\ row' = None
<1>. UsersOK
  BY DEF CacheOK, UsersOK
<1>1. user[u].at = "forgetRow"
  BY DEF DeleteRow
<1>2. CASE row' = None /\ Goto(u, "forgetItem")
  <2>1. UsersStayOK /\ Others(u) /\ Moves(u, "forgetItem")
    BY <1>2, Gone DEF Places
  <2>. QED
    BY <1>1, <1>2, <2>1 DEF Moves
<1>3. CASE UNCHANGED row /\ user' = [user EXCEPT ![u].at = "forgetItem", ![u].alone = FALSE]
  <2>. DEFINE r == [user[u] EXCEPT !.at = "forgetItem", !.alone = FALSE]
  <2>1. user[u] \in UserRecords
    BY UserFields
  <2>2. /\ r \in UserRecords /\ r.at = "forgetItem" /\ r.value = user[u].value
        /\ r.since = user[u].since /\ r.alone = FALSE
    BY <2>1 DEF UserRecords, Places
  <2>3. user' = [user EXCEPT ![u] = r]
    BY <1>3
  <2>. HIDE DEF r
  <2>. QED
    BY <1>1, <1>3, <2>2, <2>3 DEF UsersOK, UsersStayOK, Others
<1>. QED
  BY <1>2, <1>3 DEF DeleteRow

----------------------------------------------------------------------------
(* The step of the types *)

UserStep(u) == Ask(u) \/ Get(u) \/ Load(u) \/ Set(u) \/ Delete(u)
CacheStep == CleanUp \/ Publish \/ Tick \/ \E u \in Users : UserStep(u)

\* A step of the cache leaves the schema as it is.
LEMMA CacheStepKeeps ==
    ASSUME CacheStep
    PROVE  SchemaKept /\ UNCHANGED key
<1>1. ASSUME NEW u \in Users, UserStep(u) PROVE SchemaKept /\ UNCHANGED key
  <2>1. CASE Ask(u) \/ Get(u)
    BY <2>1 DEF Ask, Get, GetItem, CacheGet, SchemaKept
  <2>2. CASE Load(u) \/ Delete(u)
    BY <2>2 DEF Load, image, loadDataFromURL, Delete, Remove, DeleteRow, DeleteItem, SchemaKept
  <2>3. CASE Set(u)
    BY <2>3 DEF Set, SetItem, EnterFlight, CacheSet, CacheSetFails, SchemaKept
  <2>. QED
    BY <1>1, <2>1, <2>2, <2>3 DEF UserStep
<1>2. CASE CleanUp \/ Publish \/ Tick
  BY <1>2 DEF CleanUp, CleanUpRow, CleanUpFind, CleanUpItem, Publish, Tick, SchemaKept
<1>. QED
  BY <1>1, <1>2 DEF CacheStep

\* There are never more faults than the bound.
LEMMA FaultsOK ==
    ASSUME CacheOK, Fault \/ UNCHANGED faults
    PROVE  faults' \in 0..MaxFaults
  BY NaturalBounds DEF CacheOK, Fault

\* The types of the cache are kept by what keeps those of its parts.
LEMMA CacheOKFrame ==
    ASSUME CacheOK, UNCHANGED key, UNCHANGED <<now, source>>, Fault \/ UNCHANGED faults,
           UsersStayOK, {memory', row', kept'} \subseteq Blobs \cup {None}, removed' \in BOOLEAN
    PROVE  CacheOK'
<1>1. UserRecords' = UserRecords /\ Blobs' = Blobs
  BY DEF UserRecords, Blobs, Versions
<1>2. faults' \in 0..MaxFaults
  BY FaultsOK
<1>. QED
  BY <1>1, <1>2 DEF CacheOK, UsersStayOK, key

\* What each step of a goroutine keeps of the types.
LEMMA UserTypeStep ==
    ASSUME CacheOK, HoldsOK, NEW u \in Users, UserStep(u)
    PROVE  CacheOK' /\ HoldsOK'
<1>0. /\ UsersOK /\ UNCHANGED key /\ {memory, row, kept} \subseteq Blobs \cup {None}
      /\ removed \in BOOLEAN /\ \A v \in Users : user[v].at \in Places
  BY CacheStepKeeps, UserFields DEF CacheStep, CacheOK, UsersOK, UserRecords
<1>1. CASE Ask(u)
  <2>1. UNCHANGED <<memory, row, kept, removed, now, source, faults>>
    BY <1>1 DEF Ask, items, history
  <2>2. /\ UsersStayOK /\ Others(u) /\ user'[u].at = "memory" /\ user'[u].value = None
    BY <1>1, Asked
  <2>3. CacheOK'
    BY <1>0, <2>1, <2>2, CacheOKFrame
  <2>. QED
    BY <2>2, <2>3 DEF HoldsOK, Others
<1>2. CASE Get(u)
  <2>1. UNCHANGED <<memory, row, kept, removed, now, source>> /\ (Fault \/ UNCHANGED faults)
    BY <1>2 DEF Get, GetItem, CacheGet, items, history
  <2>2. ASSUME NEW a \in {"row", "load"}, user[u].at \in {"memory", "row"}, Goto(u, a)
        PROVE  UsersStayOK /\ HoldsOK'
    <3>1. UsersStayOK /\ Others(u) /\ Moves(u, a)
      BY <1>0, <2>2, Gone DEF Places
    <3>. QED
      BY <2>2, <3>1 DEF HoldsOK, Others, Moves
  <2>3. ASSUME NEW x \in Versions \cup {None}, Answer(u, x) PROVE UsersStayOK /\ HoldsOK'
    <3>1. UsersStayOK /\ Others(u) /\ Returns(u, x)
      BY <1>0, <2>3, Answered
    <3>. QED
      BY <3>1 DEF HoldsOK, Others, Returns
  <2>4. \/ \E a \in {"row", "load"} : user[u].at \in {"memory", "row"} /\ Goto(u, a)
        \/ memory # None /\ Answer(u, memory.value)
        \/ row # None /\ Answer(u, row.value)
    BY <1>2 DEF Get, GetItem, CacheGet, ItemValid, RowValid
  <2>5. /\ memory # None => memory.value \in Versions
        /\ row # None => row.value \in Versions
    BY <1>0 DEF Blobs
  <2>6. UsersStayOK /\ HoldsOK'
    BY <2>2, <2>3, <2>4, <2>5
  <2>. QED
    BY <1>0, <2>1, <2>6, CacheOKFrame
<1>3. CASE image(u) \/ EnterFlight(u)
  <2>1. UNCHANGED <<memory, row, kept, removed, now, source, faults>>
    BY <1>3 DEF image, EnterFlight, items, history
  <2>2. \/ user[u].at = "load" /\ \E a \in {"share", "fetch"} : Goto(u, a)
        \/ user[u].at = "enter" /\ \E a \in {"join", "store"} : Goto(u, a)
    BY <1>3 DEF image, EnterFlight
  <2>3. PICK a \in {"share", "fetch", "join", "store"} :
           /\ Goto(u, a)
           /\ a \in {"share", "fetch"} <=> user[u].at = "load"
           /\ user[u].at \in {"load", "enter"}
    BY <2>2
  <2>4. UsersStayOK /\ Others(u) /\ Moves(u, a)
    BY <1>0, <2>3, Gone DEF Places
  <2>5. HoldsOK'
    BY <2>3, <2>4 DEF HoldsOK, Others, Moves
  <2>. QED
    BY <1>0, <2>1, <2>4, <2>5, CacheOKFrame
<1>4. ASSUME UNCHANGED <<now, source>>, Fault \/ UNCHANGED faults, removed' \in BOOLEAN,
             {memory', row', kept'} \subseteq Blobs \cup {None},
             NEW W \in SUBSET {"join", "share"}, Wake(u, W)
      PROVE  CacheOK' /\ HoldsOK'
  <2>1. /\ UsersStayOK
        /\ \A v \in Users : user'[v] = user[v] \/ user'[v].at = "idle"
    <3>1. W \in SUBSET {"join", "share"} /\ Wake(u, W)
      BY <1>4
    <3>2. /\ UsersStayOK
          /\ \A v \in Users :
                /\ v = u \/ (user[v].at = "join" /\ "join" \in W) => user'[v].at = "idle"
                /\ v # u /\ user[v].at = "share" /\ "share" \in W => user'[v].at = "idle"
                /\ v # u /\ user[v].at \notin W => user'[v] = user[v]
      BY <1>0, <3>1, Waked DEF Returns
    <3>. QED
      BY <3>1, <3>2
  <2>2. CacheOK'
    BY <1>0, <1>4, <2>1, CacheOKFrame
  <2>. QED
    BY <2>1, <2>2 DEF HoldsOK
<1>5. CASE loadDataFromURL(u)
  <2>1. UNCHANGED <<memory, row, kept, removed, now, source>>
    BY <1>5 DEF loadDataFromURL, items, history
  <2>2. CASE Fault /\ Wake(u, {"share"})
    BY <1>0, <1>4, <2>1, <2>2
  <2>3. CASE user' = [user EXCEPT ![u].at = "set", ![u].value = source] /\ UNCHANGED faults
    <3>. DEFINE r == [user[u] EXCEPT !.at = "set", !.value = source]
    <3>1. user[u] \in UserRecords /\ source \in Versions
      BY <1>0, UserFields, NaturalBounds DEF Versions, CacheOK
    <3>2. r \in UserRecords /\ r.at = "set" /\ r.value = source
      BY <3>1 DEF UserRecords, Places
    <3>3. user' = [user EXCEPT ![u] = r]
      BY <2>3
    <3>. HIDE DEF r
    <3>4. UsersStayOK /\ Others(u) /\ user'[u].at = "set" /\ user'[u].value # None
      BY <1>0, <3>1, <3>2, <3>3, NaturalBounds DEF UsersOK, UsersStayOK, Others, Versions, CacheOK
    <3>5. HoldsOK'
      BY <3>4 DEF HoldsOK, Others
    <3>. QED
      BY <1>0, <2>1, <2>3, <3>4, <3>5, CacheOKFrame
  <2>. QED
    BY <1>5, <2>2, <2>3 DEF loadDataFromURL
<1>6. CASE SetItem(u)
  <2>1. UNCHANGED <<row, now, source, faults>>
    BY <1>6 DEF SetItem
  <2>2. /\ UsersStayOK /\ Disturbs(u) /\ user[u].at = "set" /\ user'[u].at = "enter"
        /\ user'[u].value = user[u].value /\ memory' \in Blobs
        /\ kept' = None /\ removed' = FALSE
    BY <1>6, SetEffect
  <2>3. HoldsOK'
    BY <2>2 DEF HoldsOK, Disturbs
  <2>. QED
    BY <1>0, <2>1, <2>2, <2>3, CacheOKFrame
<1>7. CASE CacheSet(u) \/ CacheSetFails(u)
  <2>1. Item(u) \in Blobs
    <3>1. user[u].value \in Versions /\ user[u].expires \in Nat
      BY <1>0, <1>7, UserFields DEF CacheSet, CacheSetFails, HoldsOK
    <3>. QED
      BY <3>1 DEF Item, Blobs
  <2>2. /\ UNCHANGED <<now, source>> /\ (Fault \/ UNCHANGED faults) /\ removed' = removed
        /\ memory' = memory /\ row' \in {row, Item(u)} /\ kept' \in {kept, Item(u)}
        /\ Wake(u, {"join", "share"})
    BY <1>7 DEF CacheSet, CacheSetFails, items, history
  <2>. QED
    BY <1>0, <1>4, <2>1, <2>2
<1>8. CASE Remove(u)
  <2>1. UNCHANGED <<memory, row, now, source, faults, removed>>
    BY <1>8 DEF Remove, items
  <2>2. /\ UsersStayOK /\ Disturbs(u) /\ user'[u].at = "forgetRow" /\ kept' = None
    BY <1>8, RemoveEffect
  <2>3. HoldsOK'
    BY <2>2 DEF HoldsOK, Disturbs
  <2>. QED
    BY <1>0, <2>1, <2>2, <2>3, CacheOKFrame
<1>9. CASE DeleteRow(u)
  <2>1. UNCHANGED <<memory, kept, removed, now, source>> /\ (Fault \/ UNCHANGED faults)
    BY <1>9 DEF DeleteRow, history
  <2>2. /\ UsersStayOK /\ Others(u) /\ user'[u].at = "forgetItem" /\ row' \in {row, None}
    BY <1>9, DeleteRowEffect
  <2>3. HoldsOK'
    BY <2>2 DEF HoldsOK, Others
  <2>. QED
    BY <1>0, <2>1, <2>2, <2>3, CacheOKFrame
<1>10. CASE DeleteItem(u)
  <2>1. /\ UNCHANGED <<row, kept, now, source, faults>> /\ memory' = None
        /\ removed' = user[u].alone /\ user' = [user EXCEPT ![u] = Resting]
    BY <1>10 DEF DeleteItem
  <2>2. Resting \in UserRecords /\ Resting.at = "idle"
    BY DEF Resting, UserRecords, Places
  <2>3. UsersStayOK /\ Others(u) /\ user'[u].at = "idle" /\ removed' \in BOOLEAN
    BY <1>0, <2>1, <2>2, UserFields DEF UsersOK, UsersStayOK, Others
  <2>4. HoldsOK'
    BY <2>3 DEF HoldsOK, Others
  <2>. QED
    BY <1>0, <2>1, <2>3, <2>4, CacheOKFrame
<1>. QED
  BY <1>1, <1>2, <1>3, <1>5, <1>6, <1>7, <1>8, <1>9, <1>10, Zenon
     DEF UserStep, Load, Set, Delete

\* The clean-up, the server and the clock leave the goroutines alone.
LEMMA AmbientTypeStep ==
    ASSUME CacheOK, HoldsOK, OffOK, CleanUp \/ Publish \/ Tick
    PROVE  CacheOK' /\ HoldsOK' /\ OffOK' /\ UNCHANGED user
<1>0. /\ UsersOK /\ UNCHANGED key /\ {memory, row, kept} \subseteq Blobs \cup {None}
      /\ removed \in BOOLEAN /\ UNCHANGED phase
  BY CacheStepKeeps DEF CacheStep, CacheOK, UsersOK, SchemaKept
<1>1. UNCHANGED <<user, kept, removed, faults>>
  BY DEF CleanUp, CleanUpRow, CleanUpFind, CleanUpItem, Publish, Tick, history
<1>2. HoldsOK'
  BY <1>1 DEF HoldsOK
<1>3. memory' \in {memory, None}
  BY DEF CleanUp, CleanUpRow, CleanUpFind, CleanUpItem, Publish, Tick, items
<1>4. OffOK'
  BY <1>0, <1>1, <1>3 DEF OffOK
<1>5. CASE CleanUp
  <2>1. UNCHANGED <<now, source>> /\ row' \in {row, None}
    BY <1>5 DEF CleanUp, CleanUpRow, CleanUpFind, CleanUpItem, items
  <2>. QED
    BY <1>0, <1>1, <1>2, <1>3, <1>4, <2>1, CacheOKFrame DEF UsersOK, UsersStayOK
<1>6. CASE Publish
  <2>1. source' = source + 1 /\ source' \in 0..MaxVersion /\ UNCHANGED <<memory, row, now>>
    BY <1>6, NaturalBounds DEF Publish, items, CacheOK
  <2>2. Versions \subseteq Versions'
    BY <2>1, NaturalBounds DEF Versions, CacheOK
  <2>3. Blobs \subseteq Blobs'
    BY <2>2 DEF Blobs
  <2>4. UserRecords \subseteq UserRecords'
    BY <2>2 DEF UserRecords
  <2>5. user' \in [Users -> UserRecords']
    BY <1>0, <1>1, <2>4 DEF UsersOK
  <2>. QED
    BY <1>0, <1>1, <1>2, <1>4, <2>1, <2>3, <2>5 DEF CacheOK, key
<1>7. CASE Tick
  <2>1. now' \in 0..MaxTime /\ UNCHANGED <<memory, row, source>>
    BY <1>7, NaturalBounds DEF Tick, items, CacheOK
  <2>2. UserRecords' = UserRecords /\ Blobs' = Blobs
    BY <2>1 DEF UserRecords, Blobs, Versions
  <2>. QED
    BY <1>0, <1>1, <1>2, <1>4, <2>1, <2>2 DEF CacheOK, key
<1>. QED
  BY <1>5, <1>6, <1>7

\* A goroutine works only while the program runs.
LEMMA WorksWhenOpen ==
    ASSUME OffOK, NEW u \in Users, UserStep(u)
    PROVE  phase = "open" /\ phase' = "open"
<1>1. phase = "open" \/ user[u].at # "idle"
  BY DEF UserStep, Ask, Get, GetItem, CacheGet, Load, image, loadDataFromURL, Set, SetItem,
         EnterFlight, CacheSet, CacheSetFails, Delete, Remove, DeleteRow, DeleteItem
<1>2. UNCHANGED phase
  BY CacheStepKeeps DEF CacheStep, SchemaKept
<1>. QED
  BY <1>1, <1>2 DEF OffOK

\* The end of the process.
LEMMA StopEffect ==
    ASSUME CacheOK, Stop
    PROVE  /\ UNCHANGED schema /\ UNCHANGED key /\ UNCHANGED <<row, now, source, removed>>
           /\ phase' = "off" /\ memory' = None /\ UsersStayOK
           /\ \A v \in Users : user'[v] = Resting
           /\ kept' = IF \E v \in Users : Busy(v) THEN None ELSE kept
           /\ CacheOK' /\ HoldsOK' /\ OffOK'
<1>1. /\ UNCHANGED schema /\ UNCHANGED key /\ UNCHANGED <<row, now, source, removed>>
      /\ phase' = "off" /\ memory' = None /\ user' = [v \in Users |-> Resting]
      /\ kept' = IF \E v \in Users : Busy(v) THEN None ELSE kept
      /\ Fault
  BY DEF Stop, Busy
<1>2. Resting \in UserRecords /\ Resting.at = "idle"
  BY DEF Resting, UserRecords, Places
<1>3. UsersStayOK /\ \A v \in Users : user'[v] = Resting
  BY <1>1, <1>2 DEF UsersStayOK
<1>4. {memory', row', kept'} \subseteq Blobs \cup {None} /\ removed' \in BOOLEAN
  BY <1>1 DEF CacheOK
<1>5. CacheOK'
  BY <1>1, <1>3, <1>4, CacheOKFrame
<1>. QED
  BY <1>1, <1>2, <1>3, <1>5 DEF HoldsOK, OffOK

\* Every step keeps the types and where the migrations stand,
LEMMA TypeStep == TypeInv /\ MigrationInv /\ [Next]_vars => TypeInv' /\ MigrationInv'
<1>. SUFFICES ASSUME TypeInv, MigrationInv, [Next]_vars PROVE TypeInv' /\ MigrationInv'
  OBVIOUS
<1>. SchemaOK /\ CacheOK /\ HoldsOK /\ OffOK
  BY DEF TypeInv
<1>1. CASE Start \/ Upgrade
  BY <1>1, OpeningStep, CacheKeptMeans DEF TypeInv
<1>2. CASE Stop
  <2>1. /\ phase' = "off"
        /\ UNCHANGED <<tracking, recorded, executed, unapplied, shipped>>
        /\ CacheOK' /\ HoldsOK' /\ OffOK'
    BY <1>2, StopEffect DEF schema
  <2>2. SchemaOK' /\ MigrationInv'
    BY <2>1 DEF SchemaOK, MigrationInv, Applying, RecordedMeansDone, FailsOnlyWhenTorn
  <2>. QED
    BY <2>1, <2>2 DEF TypeInv
<1>3. CASE CacheStep
  <2>1. SchemaOK' /\ MigrationInv'
    BY <1>3, CacheStepKeeps, SchemaKeptMeans
  <2>2. CASE CleanUp \/ Publish \/ Tick
    BY <2>1, <2>2, AmbientTypeStep DEF TypeInv
  <2>3. ASSUME NEW u \in Users, UserStep(u) PROVE TypeInv'
    <3>1. OffOK'
      BY <2>3, WorksWhenOpen DEF OffOK
    <3>. QED
      BY <2>1, <2>3, <3>1, UserTypeStep DEF TypeInv
  <2>. QED
    BY <1>3, <2>1, <2>2, <2>3 DEF CacheStep
<1>4. CASE UNCHANGED vars
  <2>1. SchemaKept /\ CacheKept
    BY <1>4 DEF vars, SchemaKept, CacheKept
  <2>2. OffOK'
    BY <2>1, SchemaKeptMeans, CacheKeptMeans DEF OffOK
  <2>. QED
    BY <2>1, <2>2, SchemaKeptMeans, CacheKeptMeans DEF TypeInv
<1>. QED
  BY <1>1, <1>2, <1>3, <1>4, Zenon DEF Next, CacheStep, UserStep

\* ... and at the first start they stand before the first one.
LEMMA MigrationInit == Init => MigrationInv
<1>. SUFFICES ASSUME Init PROVE MigrationInv
  OBVIOUS
<1>1. \A m \in Migrations : executed[m] = 0 /\ Statements[m] \in Nat
  BY MigrationNumbers DEF Init
<1>. QED
  BY <1>1 DEF Init, MigrationInv, Applying, RecordedMeansDone, FailsOnlyWhenTorn

\* Wherever the process ends, a recorded migration was executed to its last
\* statement, and the database cannot be opened only when a migration was
\* executed, in part or whole, and not recorded.
THEOREM MigrationsAreRecorded == Spec => []MigrationsFit
<1>1. TypeInv /\ MigrationInv => MigrationsFit
  BY TypeInvIsType DEF MigrationsFit, MigrationInv
<1>. QED
  BY <1>1, TypeInit, MigrationInit, TypeStep, PTL DEF Spec

----------------------------------------------------------------------------
(* The two places of a value *)

\* A goroutine that sets or removes undisturbed does so alone; what one sets
\* undisturbed is in memory unless the clean-up took it.
Alone ==
    \A u \in Users : user[u].alone =>
        /\ Setting(u) => /\ \A v \in Users \ {u} : ~Busy(v)
                         /\ memory \in {None, Item(u)}
        /\ Removing(u) => \A v \in Users : ~Setting(v)
        /\ user[u].at = "forgetItem" => row = None
\* What was set undisturbed is where it was put until it expires, while nobody
\* sets or removes.
KeptIsThere ==
    kept # None =>
        /\ \A u \in Users : ~Busy(u)
        /\ memory \in {None, kept}
        /\ row = kept \/ (row = None /\ kept.expires # 0 /\ kept.expires < now)
RemovedIsNot == removed => memory = None /\ row = None /\ \A u \in Users : ~Setting(u)
CopiesInv == Alone /\ KeptIsThere /\ RemovedIsNot

\* What lone goroutines have done makes the copies answer as one.
LEMMA CopiesInvAgrees == CacheOK /\ CopiesInv => CopiesAgree
<1>. SUFFICES ASSUME CacheOK, CopiesInv PROVE CopiesAgree
  OBVIOUS
<1>1. RemovedIsGone
  BY DEF CopiesInv, RemovedIsNot, RemovedIsGone
<1>2. ASSUME kept # None, kept.expires # 0 => now < kept.expires
      PROVE  IF ItemValid THEN memory.value = kept.value ELSE RowValid /\ row.value = kept.value
  <2>1. kept \in Blobs /\ kept.expires \in Nat /\ now \in Nat
    BY <1>2, NaturalBounds DEF CacheOK, Blobs
  <2>2. row = kept /\ memory \in {None, kept}
    BY <1>2, <2>1 DEF CopiesInv, KeptIsThere
  <2>3. RowValid
    BY <1>2, <2>2 DEF RowValid
  <2>. QED
    BY <2>2, <2>3 DEF ItemValid
<1>. QED
  BY <1>1, <1>2 DEF CopiesAgree, SetIsFound

\* Steps in which nobody begins or ends to set or to remove.
LEMMA CopiesFrame ==
    ASSUME CopiesInv, UNCHANGED <<memory, row, kept, removed, now>>,
           \A v \in Users :
              /\ Setting(v)' <=> Setting(v)
              /\ Removing(v)' <=> Removing(v)
              /\ Busy(v) => /\ user'[v].alone => user[v].alone
                            /\ Item(v)' = Item(v)
                            /\ user'[v].at = "forgetItem" => user[v].at = "forgetItem"
    PROVE  CopiesInv'
<1>1. \A v \in Users : Busy(v)' <=> Busy(v)
  BY DEF Busy
<1>2. Alone'
  <2>. SUFFICES ASSUME NEW u \in Users, user'[u].alone
                PROVE  /\ Setting(u)' => /\ \A v \in Users \ {u} : ~Busy(v)'
                                         /\ memory' \in {None, Item(u)'}
                       /\ Removing(u)' => \A v \in Users : ~Setting(v)'
                       /\ user'[u].at = "forgetItem" => row' = None
    BY DEF Alone
  <2>1. user'[u].at = "forgetItem" => Removing(u)'
    BY DEF Removing
  <2>. QED
    BY <1>1, <2>1 DEF CopiesInv, Alone, Busy
<1>3. KeptIsThere' /\ RemovedIsNot'
  BY <1>1 DEF CopiesInv, KeptIsThere, RemovedIsNot
<1>. QED
  BY <1>2, <1>3 DEF CopiesInv

\* Steps of goroutines that do neither before or after.
LEMMA CopiesQuiet ==
    ASSUME CopiesInv, UNCHANGED <<memory, row, kept, removed, now>>,
           \A v \in Users : Busy(v) \/ Busy(v)' => user'[v] = user[v]
    PROVE  CopiesInv'
<1>1. \A v \in Users : (Setting(v)' <=> Setting(v)) /\ (Removing(v)' <=> Removing(v))
  BY DEF Busy, Setting, Removing
<1>2. \A v \in Users : Busy(v) => user'[v].alone = user[v].alone
                                  /\ user'[v].at = user[v].at /\ Item(v)' = Item(v)
  BY DEF Item
<1>. QED
  BY <1>1, <1>2, CopiesFrame

\* The steps of a goroutine keep what lone goroutines have done,
LEMMA UserCopiesStep ==
    ASSUME CacheOK, HoldsOK, CopiesInv, NEW u \in Users, UserStep(u)
    PROVE  CopiesInv'
<1>. USE DEF CopiesInv
<1>0. UsersOK /\ \A v \in Users : user[v].at \in Places
  BY UserFields DEF CacheOK, UsersOK
<1>1. CASE Ask(u)
  <2>1. UNCHANGED <<memory, row, kept, removed, now>> /\ user[u].at = "idle"
        /\ Others(u) /\ user'[u].at = "memory"
    BY <1>1, Asked DEF Ask, items, history
  <2>. QED
    BY <2>1, CopiesQuiet DEF Others, Busy, Setting, Removing
<1>2. CASE Get(u)
  <2>1. UNCHANGED <<memory, row, kept, removed, now>> /\ user[u].at \in {"memory", "row"}
    BY <1>2 DEF Get, GetItem, CacheGet, items, history
  <2>2. \/ \E a \in {"row", "load"} : Goto(u, a)
        \/ memory # None /\ Answer(u, memory.value)
        \/ row # None /\ Answer(u, row.value)
    BY <1>2 DEF Get, GetItem, CacheGet, ItemValid, RowValid
  <2>3. /\ memory # None => memory.value \in Versions
        /\ row # None => row.value \in Versions
    BY DEF CacheOK, Blobs
  <2>4. Others(u) /\ user'[u].at \in {"row", "load", "idle"}
    BY <1>0, <2>2, <2>3, Gone, Answered DEF Moves, Returns, Places
  <2>. QED
    BY <2>1, <2>4, CopiesQuiet DEF Others, Busy, Setting, Removing
<1>3. CASE image(u)
  <2>1. UNCHANGED <<memory, row, kept, removed, now>> /\ user[u].at = "load"
        /\ \E a \in {"share", "fetch"} : Goto(u, a)
    BY <1>3 DEF image, items, history
  <2>2. Others(u) /\ user'[u].at \in {"share", "fetch"}
    BY <1>0, <2>1, Gone DEF Moves, Places
  <2>. QED
    BY <2>1, <2>2, CopiesQuiet DEF Others, Busy, Setting, Removing
<1>4. CASE loadDataFromURL(u)
  <2>1. UNCHANGED <<memory, row, kept, removed, now>> /\ user[u].at = "fetch"
    BY <1>4 DEF loadDataFromURL, items, history
  <2>2. CASE Wake(u, {"share"})
    <3>1. \A v \in Users : user'[v] = user[v]
                           \/ (user[v].at \in {"share", "fetch"} /\ user'[v].at = "idle")
      <4>1. \A v \in Users : /\ v = u => user'[v].at = "idle"
                             /\ v # u /\ user[v].at = "share" => user'[v].at = "idle"
                             /\ v # u /\ user[v].at # "share" => user'[v] = user[v]
        BY <1>0, <2>2, Waked DEF Returns
      <4>. QED
        BY <2>1, <4>1
    <3>. QED
      BY <2>1, <3>1, CopiesQuiet DEF Busy, Setting, Removing
  <2>3. CASE user' = [user EXCEPT ![u].at = "set", ![u].value = source]
    <3>1. Others(u) /\ user'[u].at = "set"
      BY <1>0, <2>3, UserFields DEF Others, UsersOK, UserRecords
    <3>. QED
      BY <2>1, <3>1, CopiesQuiet DEF Others, Busy, Setting, Removing
  <2>. QED
    BY <1>4, <2>2, <2>3 DEF loadDataFromURL
<1>5. CASE SetItem(u)
  <2>1. /\ Disturbs(u) /\ user[u].at = "set" /\ user'[u].at = "enter"
        /\ user'[u].alone => \A w \in Users : ~Busy(w)
        /\ memory' = Item(u)' /\ kept' = None /\ removed' = FALSE
    BY <1>5, SetEffect
  <2>2. \A v \in Users \ {u} : (Busy(v)' <=> Busy(v)) /\ (user'[v].alone => ~Busy(v))
    BY <2>1 DEF Disturbs, Busy, Setting, Removing
  <2>3. Setting(u)' /\ ~Removing(u)'
    BY <2>1 DEF Setting, Removing
  <2>4. Alone'
    <3>1. \A v \in Users \ {u} : user'[v].alone => ~Busy(v)'
      BY <2>2
    <3>2. user'[u].alone => \A v \in Users \ {u} : ~Busy(v)'
      BY <2>1, <2>2
    <3>. QED
      BY <2>1, <2>3, <3>1, <3>2 DEF Alone, Busy, Setting, Removing
  <2>. QED
    BY <2>1, <2>4 DEF KeptIsThere, RemovedIsNot
<1>6. CASE EnterFlight(u)
  <2>1. UNCHANGED <<memory, row, kept, removed, now>> /\ user[u].at = "enter"
        /\ \E a \in {"join", "store"} : Goto(u, a)
    BY <1>6 DEF EnterFlight, items, history
  <2>2. /\ Others(u) /\ user'[u].at \in {"join", "store"}
        /\ user'[u].value = user[u].value /\ user'[u].expires = user[u].expires
        /\ user'[u].alone = user[u].alone
    BY <1>0, <2>1, Gone DEF Moves, Places
  <2>3. \A v \in Users : /\ Setting(v)' <=> Setting(v)
                         /\ Removing(v)' <=> Removing(v)
    BY <2>1, <2>2 DEF Others, Setting, Removing
  <2>4. \A v \in Users : /\ user'[v].alone = user[v].alone
                         /\ Item(v)' = Item(v)
                         /\ user'[v].at = "forgetItem" => user[v].at = "forgetItem"
    BY <2>1, <2>2 DEF Others, Item
  <2>. QED
    BY <2>1, <2>3, <2>4, CopiesFrame
<1>7. CASE CacheSet(u) \/ CacheSetFails(u)
  <2>1. /\ user[u].at = "store" /\ UNCHANGED <<memory, removed, now>>
        /\ Wake(u, {"join", "share"})
        /\ kept' = kept \/ (user[u].alone /\ kept' = Item(u) /\ row' = Item(u))
    BY <1>7 DEF CacheSet, CacheSetFails, items, history
  <2>2. Setting(u) /\ Busy(u)
    BY <2>1 DEF Setting, Busy
  <2>3. \A v \in Users : (user'[v] = user[v] /\ v # u) \/ user'[v].at = "idle"
    <3>1. \A v \in Users :
             /\ v = u \/ user[v].at \in {"join", "share"} => user'[v].at = "idle"
             /\ v # u /\ user[v].at \notin {"join", "share"} => user'[v] = user[v]
      BY <1>0, <2>1, Waked DEF Returns
    <3>. QED
      BY <3>1
  <2>4. \A v \in Users \ {u} : user[v].alone => ~Busy(v)
    BY <2>2 DEF Alone, Busy
  <2>5. \A v \in Users : user'[v].alone => ~Busy(v)'
    <3>1. ASSUME NEW v \in Users, user'[v].at = "idle" PROVE ~Busy(v)'
      BY <3>1 DEF Busy, Setting, Removing
    <3>2. ASSUME NEW v \in Users, v # u, user'[v] = user[v], user'[v].alone PROVE ~Busy(v)'
      BY <2>4, <3>2 DEF Busy, Setting, Removing
    <3>. QED
      BY <2>3, <3>1, <3>2
  <2>6. Alone'
    BY <2>5 DEF Alone, Busy, Setting, Removing
  <2>7. kept = None /\ ~removed
    BY <2>2 DEF KeptIsThere, RemovedIsNot
  <2>8. KeptIsThere'
    <3>1. CASE kept' = None
      BY <3>1 DEF KeptIsThere
    <3>2. ASSUME user[u].alone, kept' = Item(u), row' = Item(u) PROVE KeptIsThere'
      <4>1. memory' \in {None, Item(u)} /\ \A v \in Users \ {u} : ~Busy(v)
        BY <2>1, <2>2, <3>2 DEF Alone
      <4>2. \A v \in Users : ~Busy(v)'
        BY <2>3, <4>1 DEF Busy, Setting, Removing
      <4>. QED
        BY <3>2, <4>1, <4>2 DEF KeptIsThere
    <3>. QED
      BY <2>1, <2>7, <3>1, <3>2
  <2>. QED
    BY <2>1, <2>6, <2>7, <2>8 DEF RemovedIsNot
<1>8. CASE Remove(u)
  <2>1. /\ user[u].at = "idle" /\ UNCHANGED <<memory, row, removed>>
        /\ Disturbs(u) /\ user'[u].at = "forgetRow"
        /\ user'[u].alone => \A w \in Users : ~Setting(w)
        /\ kept' = None
    BY <1>8, RemoveEffect DEF Remove, items
  <2>2. \A v \in Users \ {u} : /\ Busy(v)' <=> Busy(v)
                               /\ user'[v].alone => ~Busy(v)
    BY <2>1 DEF Disturbs, Busy, Setting, Removing
  <2>3. \A v \in Users : Setting(v)' <=> Setting(v)
    BY <2>1 DEF Disturbs, Setting
  <2>4. Alone'
    <3>1. \A v \in Users \ {u} : user'[v].alone => ~Busy(v)'
      BY <2>2
    <3>2. user'[u].alone => \A v \in Users : ~Setting(v)'
      BY <2>1, <2>3
    <3>3. ~Setting(u)' /\ user'[u].at # "forgetItem"
      BY <2>1 DEF Setting
    <3>. QED
      BY <3>1, <3>2, <3>3 DEF Alone, Busy, Setting, Removing
  <2>. QED
    BY <2>1, <2>3, <2>4 DEF KeptIsThere, RemovedIsNot
<1>9. CASE DeleteRow(u)
  <2>1. /\ UNCHANGED <<memory, kept, removed, now>>
        /\ user[u].at = "forgetRow" /\ Others(u) /\ user'[u].at = "forgetItem"
        /\ row' = row \/ row' = None
        /\ user'[u].alone => user[u].alone /\ row' = None
    BY <1>9, DeleteRowEffect DEF DeleteRow, history
  <2>2. Removing(u) /\ Busy(u)
    BY <2>1 DEF Removing, Busy
  <2>3. kept = None
    BY <2>2 DEF KeptIsThere
  <2>4. \A v \in Users : (Setting(v)' <=> Setting(v)) /\ (Busy(v)' <=> Busy(v))
    BY <2>1 DEF Others, Busy, Setting, Removing
  <2>5. \A v \in Users \ {u} : Item(v)' = Item(v) /\ Removing(v)' = Removing(v)
    BY <2>1 DEF Others, Item, Removing
  <2>6. Alone'
    <3>. SUFFICES ASSUME NEW v \in Users, user'[v].alone
                  PROVE  /\ Setting(v)' => /\ \A w \in Users \ {v} : ~Busy(w)'
                                           /\ memory' \in {None, Item(v)'}
                         /\ Removing(v)' => \A w \in Users : ~Setting(w)'
                         /\ user'[v].at = "forgetItem" => row' = None
      BY DEF Alone
    <3>1. CASE v = u
      BY <2>1, <2>2, <2>4, <3>1 DEF Alone, Setting
    <3>2. CASE v # u
      <4>1. user'[v] = user[v]
        BY <2>1, <3>2 DEF Others
      <4>. QED
        BY <2>1, <2>4, <2>5, <3>2, <4>1 DEF Alone
    <3>. QED
      BY <3>1, <3>2
  <2>. QED
    BY <2>1, <2>3, <2>4, <2>6 DEF KeptIsThere, RemovedIsNot
<1>10. CASE DeleteItem(u)
  <2>1. /\ UNCHANGED <<row, kept, now>> /\ memory' = None /\ user[u].at = "forgetItem"
        /\ removed' = user[u].alone /\ user' = [user EXCEPT ![u] = Resting]
    BY <1>10 DEF DeleteItem
  <2>2. Others(u) /\ user'[u].at = "idle"
    BY <1>0, <2>1 DEF UsersOK, Others, Resting
  <2>3. Removing(u) /\ Busy(u) /\ ~Busy(u)' /\ ~Setting(u)' /\ ~Removing(u)'
    BY <2>1, <2>2 DEF Removing, Setting, Busy
  <2>4. \A v \in Users : Setting(v)' <=> Setting(v)
    BY <2>1, <2>2 DEF Others, Setting
  <2>5. \A v \in Users \ {u} : /\ user'[v] = user[v] /\ Item(v)' = Item(v)
                               /\ Removing(v)' = Removing(v) /\ Busy(v)' = Busy(v)
    BY <2>2 DEF Others, Item, Removing, Busy, Setting
  <2>6. kept = None
    BY <2>3 DEF KeptIsThere
  <2>7. Alone'
    <3>. SUFFICES ASSUME NEW v \in Users, user'[v].alone
                  PROVE  /\ Setting(v)' => /\ \A w \in Users \ {v} : ~Busy(w)'
                                           /\ memory' \in {None, Item(v)'}
                         /\ Removing(v)' => \A w \in Users : ~Setting(w)'
                         /\ user'[v].at = "forgetItem" => row' = None
      BY DEF Alone
    <3>1. CASE v = u
      BY <2>2, <2>3, <3>1
    <3>2. CASE v # u
      BY <2>1, <2>3, <2>4, <2>5, <3>2 DEF Alone
    <3>. QED
      BY <3>1, <3>2
  <2>8. RemovedIsNot'
    BY <2>1, <2>3, <2>4 DEF Alone, RemovedIsNot
  <2>. QED
    BY <2>1, <2>6, <2>7, <2>8 DEF KeptIsThere
<1>. QED
  BY <1>1, <1>2, <1>3, <1>4, <1>5, <1>6, <1>7, <1>8, <1>9, <1>10, Zenon
     DEF UserStep, Load, Set, Delete

\* ... and so does every step.
LEMMA CopiesStep ==
    TypeInv /\ MigrationInv /\ CopiesInv /\ [Next]_vars => CopiesInv'
<1>. SUFFICES ASSUME TypeInv, MigrationInv, CopiesInv, [Next]_vars PROVE CopiesInv'
  OBVIOUS
<1>. SchemaOK /\ CacheOK /\ HoldsOK /\ OffOK
  BY DEF TypeInv
<1>1. ASSUME CacheKept PROVE CopiesInv'
  BY <1>1, CacheKeptMeans, CopiesQuiet
<1>2. CASE Start \/ Upgrade
  BY <1>1, <1>2, OpeningStep
<1>3. CASE Stop
  <2>1. /\ UNCHANGED <<row, now, removed>> /\ memory' = None
        /\ \A v \in Users : user'[v] = Resting
        /\ kept' = IF \E v \in Users : Busy(v) THEN None ELSE kept
    BY <1>3, StopEffect
  <2>2. \A v \in Users : ~Busy(v)' /\ ~Setting(v)' /\ ~Removing(v)' /\ user'[v].at = "idle"
    BY <2>1 DEF Busy, Setting, Removing, Resting
  <2>. QED
    BY <2>1, <2>2 DEF CopiesInv, Alone, KeptIsThere, RemovedIsNot
<1>4. CASE CleanUp \/ Publish \/ Tick
  <2>1. UNCHANGED user
    BY <1>4, AmbientTypeStep
  <2>2. UNCHANGED <<kept, removed>>
    BY <1>4 DEF CleanUp, CleanUpRow, CleanUpFind, CleanUpItem, Publish, Tick, history
  <2>3. \A v \in Users : /\ Setting(v)' <=> Setting(v)
                         /\ Removing(v)' <=> Removing(v)
                         /\ Busy(v)' <=> Busy(v)
                         /\ Item(v)' = Item(v)
    BY <2>1 DEF Setting, Removing, Busy, Item
  <2>4. memory' \in {memory, None}
    BY <1>4 DEF CleanUp, CleanUpRow, CleanUpFind, CleanUpItem, Publish, Tick, items
  <2>5. /\ row' = row \/ (row' = None /\ row.expires # 0 /\ row.expires < now)
        /\ now' \in Nat /\ now \in Nat /\ now <= now'
    BY <1>4, NaturalBounds
       DEF CleanUp, CleanUpRow, CleanUpFind, CleanUpItem, Publish, Tick, items, CacheOK
  <2>6. Alone'
    BY <2>1, <2>3, <2>4, <2>5 DEF CopiesInv, Alone
  <2>7. KeptIsThere'
    <3>. SUFFICES ASSUME kept # None
                  PROVE  row' = kept \/ (row' = None /\ kept.expires # 0 /\ kept.expires < now')
      BY <2>2, <2>3, <2>4 DEF CopiesInv, KeptIsThere
    <3>1. kept.expires \in Nat
      BY DEF CacheOK, Blobs
    <3>2. row = kept \/ (row = None /\ kept.expires # 0 /\ kept.expires < now)
      BY DEF CopiesInv, KeptIsThere
    <3>. QED
      BY <2>5, <3>1, <3>2
  <2>8. RemovedIsNot'
    BY <2>2, <2>3, <2>4, <2>5 DEF CopiesInv, RemovedIsNot
  <2>. QED
    BY <2>6, <2>7, <2>8 DEF CopiesInv
<1>5. ASSUME NEW u \in Users, UserStep(u) PROVE CopiesInv'
  BY <1>5, UserCopiesStep
<1>6. CASE UNCHANGED vars
  <2>1. CacheKept
    BY <1>6 DEF vars, CacheKept
  <2>. QED
    BY <1>1, <2>1
<1>. QED
  BY <1>2, <1>3, <1>4, <1>5, <1>6, Zenon DEF Next, UserStep

\* What a goroutine has set undisturbed is found, in memory or in the row, until
\* it expires, and what it has removed undisturbed is in neither: whatever other
\* goroutines, the clean-up and restarts do.
THEOREM CopiesAnswerAsOne == Spec => []CopiesAgree
<1>1. Init => CopiesInv
  <2>. SUFFICES ASSUME Init PROVE CopiesInv
    OBVIOUS
  <2>1. \A v \in Users : ~Setting(v) /\ ~Removing(v) /\ user[v].at = "idle"
    BY DEF Init, Setting, Removing, Resting
  <2>. QED
    BY <2>1 DEF Init, CopiesInv, Alone, KeptIsThere, RemovedIsNot
<1>2. TypeInv /\ CopiesInv => CopiesAgree
  BY CopiesInvAgrees DEF TypeInv
<1>. QED
  BY <1>1, <1>2, TypeInit, MigrationInit, TypeStep, CopiesStep, PTL DEF Spec

----------------------------------------------------------------------------
(* Answers are the latest *)

Loading(u) == user[u].at \in {"fetch", "set", "enter", "store", "join"}
HasBlob(u) == user[u].at \in {"set", "enter", "store"}
Asks(u) == user[u].at # "idle" /\ user[u].since # None
\* The version n is not older than what was set, or had been when somebody asked.
NotOlder(n) ==
    /\ kept # None => n >= kept.value
    /\ \A v \in Users : Asks(v) => n >= user[v].since
\* One goroutine fetches an image, so that no version can be set after a later
\* one: whatever is about to be set or can be read is not older than what was set.
FreshInv ==
    kind = "image" =>
        /\ \A u, v \in Users : Loading(u) /\ Loading(v) => u = v
        /\ \A u \in Users : HasBlob(u) => NotOlder(user[u].value)
        /\ memory # None => NotOlder(memory.value)
        /\ row # None => NotOlder(row.value)
        /\ \A u \in Users :
              user[u].at = "idle" /\ user[u].value # None /\ user[u].since # None
                  => user[u].value >= user[u].since

\* What was not older than any question stays so while nobody asks.
LEMMA NotOlderKept ==
    ASSUME NEW n, NotOlder(n), kept' \in {kept, None},
           \A v \in Users : Asks(v)' => Asks(v) /\ user'[v].since = user[v].since
    PROVE  NotOlder(n)'
  BY DEF NotOlder

\* Steps that bring no version to another place, except to the one who asked.
LEMMA FreshFrame ==
    ASSUME FreshInv, UNCHANGED kind, kept' \in {kept, None},
           memory' \in {memory, None}, row' \in {row, None},
           \A v \in Users :
              /\ Asks(v)' => Asks(v) /\ user'[v].since = user[v].since
              /\ Loading(v)' => Loading(v)
              /\ HasBlob(v)' => HasBlob(v) /\ user'[v].value = user[v].value
              /\ \/ user'[v].at # "idle"
                 \/ /\ user[v].at = "idle"
                    /\ user'[v].value = user[v].value /\ user'[v].since = user[v].since
                 \/ kind = "image" /\ user'[v].value # None /\ user'[v].since # None
                       => user'[v].value >= user'[v].since
    PROVE  FreshInv'
<1>. SUFFICES ASSUME kind = "image" PROVE FreshInv'
  BY DEF FreshInv
<1>1. \A n : NotOlder(n) => NotOlder(n)'
  BY NotOlderKept
<1>2. ASSUME NEW u \in Users, HasBlob(u)' PROVE NotOlder(user[u].value)'
  <2>1. NotOlder(user[u].value)' \/ \E n : n = user'[u].value /\ ~NotOlder(n)'
    BY DEF NotOlder
  <2>2. NotOlder(user[u].value) /\ user'[u].value = user[u].value
    BY <1>2 DEF FreshInv
  <2>. QED
    BY <1>1, <2>1, <2>2
<1>. QED
  BY <1>1, <1>2 DEF FreshInv

\* The steps of a goroutine keep the answers fresh,
LEMMA UserFreshStep ==
    ASSUME CacheOK, HoldsOK, CopiesInv, FreshInv, NEW u \in Users, UserStep(u)
    PROVE  FreshInv'
<1>. SUFFICES ASSUME kind = "image" PROVE FreshInv'
  BY CacheStepKeeps DEF CacheStep, FreshInv, key
<1>0. /\ UsersOK /\ UNCHANGED kind /\ \A v \in Users : user[v].at \in Places
      /\ Versions \subseteq Nat /\ None \notin Nat
  BY CacheStepKeeps, UserFields, NaturalBounds DEF CacheStep, CacheOK, UsersOK, key, Versions
<1>a. /\ \A v, w \in Users : Loading(v) /\ Loading(w) => v = w
      /\ \A v \in Users : HasBlob(v) => NotOlder(user[v].value)
      /\ memory # None => NotOlder(memory.value)
      /\ row # None => NotOlder(row.value)
      /\ \A v \in Users :
            user[v].at = "idle" /\ user[v].value # None /\ user[v].since # None
                => user[v].value >= user[v].since
  BY DEF FreshInv
<1>1. CASE Ask(u)
  <2>1. /\ UNCHANGED <<memory, row, kept>> /\ Others(u) /\ user[u].at = "idle"
        /\ user'[u].at = "memory"
        /\ user'[u].since = IF kept = None THEN None ELSE kept.value
    BY <1>1, Asked DEF Ask, items, history
  <2>2. ASSUME NEW n, NotOlder(n) PROVE NotOlder(n)'
    BY <2>1, <2>2 DEF NotOlder, Others, Asks
  <2>3. \A v \in Users : Loading(v)' => Loading(v)
    BY <2>1 DEF Others, Loading
  <2>4. ASSUME NEW v \in Users, HasBlob(v)' PROVE NotOlder(user[v].value)'
    <3>1. HasBlob(v) /\ user'[v].value = user[v].value
      BY <2>1, <2>4 DEF Others, HasBlob
    <3>2. PICK n : n = user[v].value
      OBVIOUS
    <3>3. NotOlder(n)'
      BY <1>a, <2>2, <3>1, <3>2
    <3>. QED
      BY <3>1, <3>2, <3>3 DEF NotOlder
  <2>5. /\ memory' # None => NotOlder(memory.value)'
        /\ row' # None => NotOlder(row.value)'
    <3>1. /\ memory # None => NotOlder(memory.value)'
          /\ row # None => NotOlder(row.value)'
      BY <1>a, <2>1, <2>2 DEF NotOlder
    <3>. QED
      BY <2>1, <3>1
  <2>6. \A v \in Users :
            user'[v].at = "idle" /\ user'[v].value # None /\ user'[v].since # None
                => user'[v].value >= user'[v].since
    BY <1>a, <2>1 DEF Others
  <2>. QED
    BY <1>0, <1>a, <2>3, <2>4, <2>5, <2>6 DEF FreshInv
<1>2. CASE Get(u)
  <2>1. UNCHANGED <<memory, row, kept>> /\ user[u].at \in {"memory", "row"}
    BY <1>2 DEF Get, GetItem, CacheGet, items, history
  <2>2. ASSUME NEW a \in {"row", "load"}, Goto(u, a) PROVE FreshInv'
    <3>1. Others(u) /\ Moves(u, a)
      BY <1>0, <2>2, Gone DEF Places
    <3>. QED
      BY <1>0, <2>1, <2>2, <3>1, FreshFrame DEF Others, Moves, Asks, Loading, HasBlob
  <2>3. ASSUME NEW x \in Versions, NotOlder(x), Answer(u, x) PROVE FreshInv'
    <3>1. Others(u) /\ Returns(u, x)
      BY <1>0, <2>3, Answered
    <3>2. user[u].since # None => x >= user[u].since
      BY <2>1, <2>3 DEF NotOlder, Asks
    <3>. QED
      BY <1>0, <2>1, <2>3, <3>1, <3>2, FreshFrame DEF Others, Returns, Asks, Loading, HasBlob
  <2>4. \/ \E a \in {"row", "load"} : Goto(u, a)
        \/ memory # None /\ Answer(u, memory.value)
        \/ row # None /\ Answer(u, row.value)
    BY <1>2 DEF Get, GetItem, CacheGet, ItemValid, RowValid
  <2>5. /\ memory # None => memory.value \in Versions
        /\ row # None => row.value \in Versions
    BY DEF CacheOK, Blobs
  <2>. QED
    BY <1>a, <2>2, <2>3, <2>4, <2>5
<1>3. CASE EnterFlight(u)
  <2>1. UNCHANGED <<memory, row, kept>> /\ user[u].at = "enter"
        /\ \E a \in {"join", "store"} : Goto(u, a)
    BY <1>3 DEF EnterFlight, items, history
  <2>2. PICK a \in {"join", "store"} : Others(u) /\ Moves(u, a)
    BY <1>0, <2>1, Gone DEF Places
  <2>. QED
    BY <1>0, <2>1, <2>2, FreshFrame DEF Others, Moves, Asks, Loading, HasBlob
<1>4. CASE image(u)
  <2>1. UNCHANGED <<memory, row, kept>> /\ user[u].at = "load"
    BY <1>4 DEF image, items, history
  <2>2. PICK a \in {"share", "fetch"} :
           /\ Goto(u, a)
           /\ a = "fetch" => \A v \in Users : ~Loading(v)
    BY <1>4 DEF image, Loading, Setting
  <2>3. Others(u) /\ Moves(u, a)
    BY <1>0, <2>2, Gone DEF Places
  <2>4. CASE a = "share"
    BY <1>0, <2>1, <2>3, <2>4, FreshFrame DEF Others, Moves, Asks, Loading, HasBlob
  <2>5. CASE a = "fetch"
    <3>1. \A v \in Users : Loading(v)' => v = u
      BY <2>2, <2>3, <2>5 DEF Others, Loading
    <3>2. \A v \in Users : ~HasBlob(v)'
      BY <2>2, <2>3, <2>5 DEF Others, Moves, HasBlob, Loading
    <3>3. \A v \in Users : Asks(v)' => Asks(v) /\ user'[v].since = user[v].since
      BY <2>1, <2>3 DEF Others, Moves, Asks
    <3>4. \A n : NotOlder(n) => NotOlder(n)'
      BY <2>1, <3>3, NotOlderKept
    <3>5. /\ memory' # None => NotOlder(memory.value)'
          /\ row' # None => NotOlder(row.value)'
      BY <1>a, <2>1, <3>3 DEF NotOlder
    <3>6. \A v \in Users :
              user'[v].at = "idle" /\ user'[v].value # None /\ user'[v].since # None
                  => user'[v].value >= user'[v].since
      BY <1>a, <2>3, <2>5 DEF Others, Moves
    <3>. QED
      BY <3>1, <3>2, <3>5, <3>6 DEF FreshInv
  <2>. QED
    BY <2>4, <2>5
<1>5. CASE loadDataFromURL(u)
  <2>1. UNCHANGED <<memory, row, kept>> /\ user[u].at = "fetch" /\ user[u].value = None
    BY <1>5 DEF loadDataFromURL, items, history, HoldsOK
  <2>2. CASE Wake(u, {"share"})
    <3>1. \A v \in Users :
             \/ user'[v] = user[v] /\ v # u
             \/ user'[v].at = "idle" /\ user'[v].value = None
      <4>1. \A v \in Users : /\ v = u => Returns(v, user[v].value)
                             /\ v # u /\ user[v].at = "share" => Returns(v, user[u].value)
                             /\ v # u /\ user[v].at # "share" => user'[v] = user[v]
        BY <1>0, <2>2, Waked
      <4>. QED
        BY <2>1, <4>1 DEF Returns
    <3>2. \A v \in Users :
             /\ Asks(v)' => Asks(v) /\ user'[v].since = user[v].since
             /\ Loading(v)' => Loading(v)
             /\ HasBlob(v)' => HasBlob(v) /\ user'[v].value = user[v].value
      BY <3>1 DEF Asks, Loading, HasBlob
    <3>. QED
      BY <1>0, <2>1, <3>1, <3>2, FreshFrame
  <2>3. CASE user' = [user EXCEPT ![u].at = "set", ![u].value = source]
    <3>1. /\ Others(u) /\ user'[u].at = "set" /\ user'[u].value = source
          /\ user'[u].since = user[u].since
      BY <1>0, <2>3, UserFields DEF Others, UsersOK, UserRecords
    <3>2. \A v \in Users : /\ Asks(v)' => Asks(v) /\ user'[v].since = user[v].since
                           /\ Loading(v)' => Loading(v)
      BY <2>1, <3>1 DEF Others, Asks, Loading
    <3>3. \A v \in Users : HasBlob(v)' => v = u
      BY <1>a, <2>1, <3>1 DEF Others, HasBlob, Loading
    <3>4. NotOlder(source)
      <4>1. source \in Nat
        BY NaturalBounds DEF CacheOK
      <4>2. kept # None => source >= kept.value
        BY <4>1 DEF CacheOK, Blobs, Versions
      <4>3. \A v \in Users : Asks(v) => source >= user[v].since
        BY <1>0, <4>1, UserFields DEF Asks, Versions
      <4>. QED
        BY <4>2, <4>3 DEF NotOlder
    <3>5. /\ memory' # None => NotOlder(memory.value)'
          /\ row' # None => NotOlder(row.value)'
          /\ NotOlder(user[u].value)'
      BY <1>a, <2>1, <3>1, <3>2, <3>4 DEF NotOlder
    <3>6. \A v \in Users :
              user'[v].at = "idle" /\ user'[v].value # None /\ user'[v].since # None
                  => user'[v].value >= user'[v].since
      BY <1>a, <3>1 DEF Others
    <3>. QED
      BY <1>0, <1>a, <3>2, <3>3, <3>5, <3>6 DEF FreshInv
  <2>. QED
    BY <1>5, <2>2, <2>3 DEF loadDataFromURL
<1>6. CASE SetItem(u)
  <2>1. /\ UNCHANGED row /\ Disturbs(u) /\ user[u].at = "set" /\ user'[u].at = "enter"
        /\ user'[u].value = user[u].value /\ user'[u].since = user[u].since
        /\ memory' = Item(u)' /\ kept' = None
    BY <1>6, SetEffect DEF SetItem
  <2>2. \A v \in Users : /\ user'[v].value = user[v].value /\ user'[v].since = user[v].since
                         /\ user'[v].at = user[v].at \/ v = u
    BY <2>1 DEF Disturbs
  <2>3. \A v \in Users : /\ Asks(v)' => Asks(v) /\ user'[v].since = user[v].since
                         /\ Loading(v)' => Loading(v)
                         /\ HasBlob(v)' => HasBlob(v)
    BY <2>1, <2>2 DEF Asks, Loading, HasBlob
  <2>4. HasBlob(u) /\ memory'.value = user[u].value
    BY <2>1 DEF HasBlob, Item
  <2>5. \A v \in Users : HasBlob(v)' => NotOlder(user[v].value)'
    BY <1>a, <2>1, <2>2, <2>3 DEF NotOlder
  <2>6. /\ memory' # None => NotOlder(memory.value)'
        /\ row' # None => NotOlder(row.value)'
    BY <1>a, <2>1, <2>3, <2>4 DEF NotOlder
  <2>7. \A v \in Users :
            user'[v].at = "idle" /\ user'[v].value # None /\ user'[v].since # None
                => user'[v].value >= user'[v].since
    BY <1>a, <2>1, <2>2
  <2>. QED
    BY <1>0, <1>a, <2>3, <2>5, <2>6, <2>7 DEF FreshInv
<1>7. CASE CacheSet(u) \/ CacheSetFails(u)
  <2>1. /\ user[u].at = "store" /\ UNCHANGED memory /\ Wake(u, {"join", "share"})
        /\ row' \in {row, Item(u)}
        /\ kept' = kept \/ (user[u].alone /\ kept' = Item(u))
    BY <1>7 DEF CacheSet, CacheSetFails, items, history
  <2>2. Loading(u) /\ HasBlob(u) /\ Setting(u) /\ NotOlder(user[u].value)
    BY <1>a, <2>1 DEF Loading, HasBlob, Setting
  <2>3. \A v \in Users : v # u => ~Loading(v) /\ user[v].at # "join"
    BY <1>a, <2>2 DEF Loading
  <2>4. \A v \in Users :
           /\ v = u => Returns(v, user[u].value)
           /\ v # u /\ user[v].at = "share" => Returns(v, user[u].value)
           /\ v # u /\ user[v].at \notin {"join", "share"} => user'[v] = user[v]
    BY <1>0, <2>1, Waked
  <2>5. \A v \in Users :
           \/ Returns(v, user[u].value) /\ user[v].at # "idle"
           \/ user'[v] = user[v] /\ v # u
    BY <2>1, <2>3, <2>4
  <2>6. \A v \in Users : /\ Asks(v)' => Asks(v) /\ user'[v].since = user[v].since
                         /\ ~Loading(v)' /\ ~HasBlob(v)'
    BY <2>3, <2>5 DEF Asks, Loading, HasBlob, Returns
  <2>7. user[u].value \in Nat
    BY <1>0, <2>1, UserFields DEF HoldsOK
  <2>8. memory' # None => NotOlder(memory.value)'
    <3>1. CASE kept' = kept
      BY <1>a, <2>1, <2>6, <3>1 DEF NotOlder
    <3>2. CASE user[u].alone /\ kept' = Item(u)
      <4>1. memory \in {None, Item(u)}
        BY <2>2, <3>2 DEF CopiesInv, Alone
      <4>2. memory # None => memory.value = user[u].value
        BY <4>1 DEF Item
      <4>. QED
        BY <1>a, <2>1, <2>6, <2>7, <3>2, <4>2 DEF NotOlder, Item
    <3>. QED
      BY <2>1, <3>1, <3>2
  <2>9. row' # None => NotOlder(row.value)'
    <3>1. CASE row' = Item(u)
      BY <2>1, <2>2, <2>6, <2>7, <3>1 DEF NotOlder, Item
    <3>2. CASE row' = row /\ kept' = kept
      BY <1>a, <2>6, <3>2 DEF NotOlder
    <3>3. row' = Item(u) \/ (row' = row /\ kept' = kept)
      BY <1>7 DEF CacheSet, CacheSetFails, items, history
    <3>. QED
      BY <3>1, <3>2, <3>3
  <2>10. \A v \in Users :
            user'[v].at = "idle" /\ user'[v].value # None /\ user'[v].since # None
                => user'[v].value >= user'[v].since
    BY <1>a, <2>2, <2>5 DEF Returns, NotOlder, Asks
  <2>. QED
    BY <2>6, <2>8, <2>9, <2>10 DEF FreshInv
<1>8. CASE Remove(u)
  <2>1. /\ UNCHANGED <<memory, row>> /\ Disturbs(u) /\ user'[u].at = "forgetRow"
        /\ user'[u].since = None /\ kept' = None
    BY <1>8, RemoveEffect DEF Remove, items
  <2>. QED
    BY <1>0, <2>1, FreshFrame DEF Disturbs, Asks, Loading, HasBlob
<1>9. CASE DeleteRow(u)
  <2>1. /\ UNCHANGED <<memory, kept>> /\ user[u].at = "forgetRow" /\ Others(u)
        /\ user'[u].at = "forgetItem" /\ user'[u].since = user[u].since
        /\ row' \in {row, None}
    BY <1>9, DeleteRowEffect DEF DeleteRow, history
  <2>. QED
    BY <1>0, <2>1, FreshFrame DEF Others, Asks, Loading, HasBlob
<1>10. CASE DeleteItem(u)
  <2>1. /\ UNCHANGED <<row, kept>> /\ memory' = None
        /\ user' = [user EXCEPT ![u] = Resting]
    BY <1>10 DEF DeleteItem
  <2>2. Others(u) /\ user'[u].at = "idle" /\ user'[u].value = None
    BY <1>0, <2>1 DEF UsersOK, Others, Resting
  <2>. QED
    BY <1>0, <2>1, <2>2, FreshFrame DEF Others, Asks, Loading, HasBlob
<1>. QED
  BY <1>1, <1>2, <1>3, <1>4, <1>5, <1>6, <1>7, <1>8, <1>9, <1>10, Zenon
     DEF UserStep, Load, Set, Delete

\* ... and so does every step.
LEMMA FreshStep ==
    TypeInv /\ MigrationInv /\ CopiesInv /\ FreshInv /\ [Next]_vars => FreshInv'
<1>. SUFFICES ASSUME TypeInv, MigrationInv, CopiesInv, FreshInv, [Next]_vars PROVE FreshInv'
  OBVIOUS
<1>. SchemaOK /\ CacheOK /\ HoldsOK /\ OffOK
  BY DEF TypeInv
<1>1. ASSUME UNCHANGED <<user, kind>>, kept' \in {kept, None},
             memory' \in {memory, None}, row' \in {row, None}
      PROVE  FreshInv'
  BY <1>1, FreshFrame DEF Asks, Loading, HasBlob
<1>2. CASE Start \/ Upgrade
  BY <1>1, <1>2, OpeningStep, CacheKeptMeans
<1>3. CASE Stop
  <2>1. /\ UNCHANGED <<kind, row>> /\ memory' = None /\ kept' \in {kept, None}
        /\ \A v \in Users : user'[v] = Resting
    BY <1>3, StopEffect DEF key
  <2>. QED
    BY <2>1, FreshFrame DEF Asks, Loading, HasBlob, Resting
<1>4. CASE CleanUp \/ Publish \/ Tick
  <2>1. UNCHANGED user /\ UNCHANGED <<kind, kept>>
    BY <1>4, AmbientTypeStep, CacheStepKeeps
       DEF CacheStep, key, CleanUp, CleanUpRow, CleanUpFind, CleanUpItem, Publish, Tick, history
  <2>2. memory' \in {memory, None} /\ row' \in {row, None}
    BY <1>4 DEF CleanUp, CleanUpRow, CleanUpFind, CleanUpItem, Publish, Tick, items
  <2>. QED
    BY <1>1, <2>1, <2>2
<1>5. ASSUME NEW u \in Users, UserStep(u) PROVE FreshInv'
  BY <1>5, UserFreshStep
<1>6. CASE UNCHANGED vars
  BY <1>1, <1>6 DEF vars, key, items, history
<1>. QED
  BY <1>2, <1>3, <1>4, <1>5, <1>6, Zenon DEF Next, UserStep

\* However many goroutines ask for an image, fetch it and set it, nobody gets a
\* version that is older than the one that was set when he asked.
THEOREM AnswersStayFresh == Spec => []AnswersAreLatest
<1>1. Init => CopiesInv /\ FreshInv
  <2>. SUFFICES ASSUME Init PROVE CopiesInv /\ FreshInv
    OBVIOUS
  <2>1. \A v \in Users : /\ ~Setting(v) /\ ~Removing(v) /\ ~Loading(v) /\ ~HasBlob(v)
                         /\ user[v].at = "idle" /\ user[v].value = None
    BY DEF Init, Setting, Removing, Loading, HasBlob, Resting
  <2>. QED
    BY <2>1 DEF Init, CopiesInv, Alone, KeptIsThere, RemovedIsNot, FreshInv
<1>2. FreshInv => AnswersAreLatest
  BY DEF FreshInv, AnswersAreLatest
<1>. QED
  BY <1>1, <1>2, TypeInit, MigrationInit, TypeStep, CopiesStep, FreshStep, PTL DEF Spec

=============================================================================
