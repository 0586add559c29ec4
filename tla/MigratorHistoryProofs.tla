------------------------ MODULE MigratorHistoryProofs ------------------------
(***************************************************************************)
(* Theorems about the histories Migrator leaves in the ledger, whatever    *)
(* the processes bring, where the probe of the column fails only when      *)
(* there is none, the ledger an older release has left is not empty, and   *)
(* no fragment brings a migration twice.                                   *)
(***************************************************************************)
EXTENDS MigratorProofs

-----------------------------------------------------------------------------
(* Ledgers that hold the beginning of a history *)

\* An entry of such a ledger.
LEMMA LineIs ==
  ASSUME NEW name, NEW h, NEW m \in Nat
  PROVE  /\ \A i \in 1 .. m : [namespace |-> name, id |-> i - 1, hash |-> h[i]] \in Lines(name, h, m)
         /\ \A r \in Lines(name, h, m) :
              \E i \in 1 .. m : /\ r = [namespace |-> name, id |-> i - 1, hash |-> h[i]]
                                /\ r.namespace = name /\ r.id = i - 1 /\ r.hash = h[i]
BY DEF Lines

\* The key of an entry tells its hash.
LEMMA LineKey ==
  ASSUME NEW name, NEW h, NEW m \in Nat,
         NEW r \in Lines(name, h, m)
  PROVE  /\ r.namespace = name /\ r.id \in 0 .. m - 1 /\ r.hash = h[r.id + 1]
         /\ r = [namespace |-> name, id |-> r.id, hash |-> h[r.id + 1]]
<1>1. PICK i \in 1 .. m : /\ r = [namespace |-> name, id |-> i - 1, hash |-> h[i]]
                          /\ r.namespace = name /\ r.id = i - 1 /\ r.hash = h[i]
  BY LineIs
<1>2. r.id + 1 = i
  BY <1>1
<1> QED
  BY <1>1, <1>2

\* How many entries there are.
LEMMA LinesCount ==
  ASSUME NEW name, NEW h, NEW m \in Nat
  PROVE  IsFiniteSet(Lines(name, h, m)) /\ Cardinality(Lines(name, h, m)) = m
<1> DEFINE entry == [i \in 1 .. m |-> [namespace |-> name, id |-> i - 1, hash |-> h[i]]]
<1>1. IsFiniteSet(1 .. m) /\ Cardinality(1 .. m) = m
  BY FS_Interval
<1>2. entry \in Surjection(1 .. m, Lines(name, h, m))
  BY DEF Surjection, Lines
<1>3. entry \in Injection(1 .. m, Lines(name, h, m))
  <2>1. \A i \in 1 .. m : entry[i].id = i - 1
    OBVIOUS
  <2>2. \A i, j \in 1 .. m : entry[i] = entry[j] => i = j
    <3> SUFFICES ASSUME NEW i \in 1 .. m, NEW j \in 1 .. m, entry[i] = entry[j] PROVE i = j
      OBVIOUS
    <3> HIDE DEF entry
    <3>1. i - 1 = j - 1
      BY <2>1
    <3> QED
      BY <3>1
  <2>3. entry \in [1 .. m -> Lines(name, h, m)]
    BY DEF Lines
  <2> HIDE DEF entry
  <2> QED
    BY <2>2, <2>3 DEF Injection, IsInjective
<1> HIDE DEF entry
<1> QED
  BY <1>1, <1>2, <1>3, FS_Surjection

\* What Ledger reads from it.
LEMMA LedgerIs ==
  ASSUME NEW rows, NEW name, NEW h, NEW m \in Nat, Of(rows, name) = Lines(name, h, m)
  PROVE  /\ Ledger(rows, name) = [n \in 1 .. m |-> h[n]]
         /\ DOMAIN Ledger(rows, name) = 1 .. m
         /\ Len(Ledger(rows, name)) = m
         /\ \A n \in 1 .. m : Ledger(rows, name)[n] = h[n]
<1> DEFINE mine == Of(rows, name)
           Nth(n) == CHOOSE r \in mine : Cardinality({t \in mine : t.id < r.id}) = n - 1
<1>1. Cardinality(mine) = m
  BY LinesCount
<1>2. \A r \in mine : Cardinality({t \in mine : t.id < r.id}) = r.id
  <2> TAKE r \in mine
  <2>1. r.id \in 0 .. m - 1
    BY LineKey
  <2>2. {t \in mine : t.id < r.id} = Lines(name, h, r.id)
    <3>1. ASSUME NEW t \in mine, t.id < r.id PROVE t \in Lines(name, h, r.id)
      <4>1. t.id \in 0 .. m - 1 /\ t = [namespace |-> name, id |-> t.id, hash |-> h[t.id + 1]]
        BY LineKey
      <4>2. t.id + 1 \in 1 .. r.id /\ (t.id + 1) - 1 = t.id
        BY <2>1, <3>1, <4>1
      <4> QED
        BY <2>1, <4>1, <4>2, LineIs
    <3>2. ASSUME NEW t \in Lines(name, h, r.id) PROVE t \in mine /\ t.id < r.id
      <4>1. t.id \in 0 .. r.id - 1 /\ t = [namespace |-> name, id |-> t.id, hash |-> h[t.id + 1]]
        BY <2>1, LineKey
      <4>2. t.id + 1 \in 1 .. m /\ (t.id + 1) - 1 = t.id /\ t.id < r.id
        BY <2>1, <4>1
      <4> QED
        BY <4>1, <4>2, LineIs
    <3> QED
      BY <3>1, <3>2
  <2> QED
    BY <2>1, <2>2, LinesCount
<1>3. \A n \in 1 .. m : Nth(n).hash = h[n]
  <2> TAKE n \in 1 .. m
  <2> DEFINE r == [namespace |-> name, id |-> n - 1, hash |-> h[n]]
  <2>1. r \in mine /\ r.id = n - 1
    BY LineIs
  <2>2. \E s \in mine : Cardinality({t \in mine : t.id < s.id}) = n - 1
    <3> HIDE DEF r, mine
    <3> QED
      BY <1>2, <2>1
  <2>3. Nth(n) \in mine /\ Cardinality({t \in mine : t.id < Nth(n).id}) = n - 1
    BY <2>2
  <2> HIDE DEF Nth
  <2>4. Nth(n).id = n - 1
    BY <1>2, <2>3
  <2>5. Nth(n).hash = h[Nth(n).id + 1]
    BY <2>3, LineKey
  <2> QED
    BY <2>4, <2>5
<1>4. Ledger(rows, name) = [n \in 1 .. m |-> h[n]]
  <2>1. Ledger(rows, name) = [n \in 1 .. Cardinality(mine) |-> Nth(n).hash]
    BY DEF Ledger
  <2> HIDE DEF Nth, mine
  <2> QED
    BY <1>1, <1>3, <2>1
<1> QED
  BY <1>4

\* Of two such ledgers, where one holds the other and has an entry more in a namespace,
\* that entry's key or an earlier one continues the shorter history.
LEMMA LinesGrow ==
  ASSUME NEW rows, NEW more, rows \subseteq more, NEW name,
         NEW h, NEW n \in Nat, Of(rows, name) = Lines(name, h, n),
         NEW g, NEW m \in Nat, Of(more, name) = Lines(name, g, m),
         NEW r \in more \ rows, r.namespace = name
  PROVE  \E t \in more \ rows : t.namespace = name /\ t.id = n
<1>1. r \in Lines(name, g, m) /\ r \notin Lines(name, h, n)
  BY DEF Of
<1>2. r.id \in 0 .. m - 1 /\ r = [namespace |-> name, id |-> r.id, hash |-> g[r.id + 1]]
  BY <1>1, LineKey
<1>3. r.id >= n
  <2> SUFFICES ASSUME r.id < n PROVE FALSE
    BY <1>2
  <2>1. r.id + 1 \in 1 .. n /\ (r.id + 1) - 1 = r.id
    BY <1>2
  <2> DEFINE t == [namespace |-> name, id |-> r.id, hash |-> h[r.id + 1]]
  <2>2. t \in Lines(name, h, n) /\ t.id = r.id
    BY <2>1, LineIs
  <2>3. t \in Lines(name, g, m)
    <3> HIDE DEF t
    <3> QED
      BY <2>2 DEF Of
  <2>4. t.hash = g[r.id + 1]
    <3> HIDE DEF t
    <3> QED
      BY <2>2, <2>3, LineKey
  <2>5. t = r
    BY <1>2, <2>4
  <2> QED
    BY <1>1, <2>2, <2>5
<1>4. n + 1 \in 1 .. m /\ (n + 1) - 1 = n
  BY <1>2, <1>3
<1> DEFINE t == [namespace |-> name, id |-> n, hash |-> g[n + 1]]
<1>5. t \in Lines(name, g, m) /\ t.namespace = name /\ t.id = n
  BY <1>4, LineIs
<1> HIDE DEF t
<1>6. t \in more
  BY <1>5 DEF Of
<1>7. t \notin rows
  <2> SUFFICES ASSUME t \in rows PROVE FALSE
    OBVIOUS
  <2>1. t \in Lines(name, h, n)
    BY <1>5 DEF Of
  <2> QED
    BY <1>5, <2>1, LineKey
<1> QED
  BY <1>5, <1>6, <1>7

\* A history that is there in full is a prefix of the ledger.
LEMMA ArrivedPrefix ==
  ASSUME NEW f, f.migrations \in Seq(Range(f.migrations)), NEW rows, Arrived(f, rows),
         NEW h, NEW m \in Nat, Of(rows, f.name) = Lines(f.name, h, m)
  PROVE  IsPrefix(f.migrations, Ledger(rows, f.name))
<1> DEFINE s == f.migrations
           l == Ledger(rows, f.name)
<1>1. Len(s) \in Nat /\ DOMAIN s = 1 .. Len(s)
  OBVIOUS
<1>2. \A i \in 1 .. Len(s) : i <= m /\ s[i] = h[i]
  <2> TAKE i \in 1 .. Len(s)
  <2> DEFINE r == [namespace |-> f.name, id |-> i - 1, hash |-> s[i]]
  <2>1. r \in Lines(f.name, s, Len(s)) /\ r.namespace = f.name /\ r.id = i - 1 /\ r.hash = s[i]
    BY <1>1, LineIs
  <2> HIDE DEF r
  <2>2. r \in Lines(f.name, h, m)
    BY <2>1 DEF Arrived, Of
  <2>3. r.id \in 0 .. m - 1 /\ r.hash = h[r.id + 1]
    BY <2>2, LineKey
  <2> QED
    BY <1>1, <2>1, <2>3
<1>3. DOMAIN l = 1 .. m /\ Len(l) = m /\ \A n \in 1 .. m : l[n] = h[n]
  BY LedgerIs
<1>4. Len(s) <= Len(l)
  BY <1>1, <1>2, <1>3
<1>5. \A i \in 1 .. Len(s) : l[i] = s[i]
  BY <1>1, <1>2, <1>3
<1> HIDE DEF l, s
<1>6. SubSeq(s, 1, Len(s)) = [i \in 1 .. Len(s) |-> s[i]]
  BY <1>1
<1>7. SubSeq(l, 1, Len(s)) = [i \in 1 .. Len(s) |-> l[i]]
  BY <1>1
<1> QED
  BY <1>4, <1>5, <1>6, <1>7 DEF IsPrefix, l, s

\* What the ledger holds of a namespace is a beginning of the history of a fragment that
\* was compared with it (Mismatched).
LEMMA ComparedLines ==
  ASSUME NEW rows, NEW name, NEW h, NEW m \in Nat, Of(rows, name) = Lines(name, h, m),
         NEW s, s \in Seq(Range(s)), ~Mismatched(Ledger(rows, name), s)
  PROVE  /\ Len(Ledger(rows, name)) = m
         /\ m <= Len(s) => Of(rows, name) = Lines(name, s, m)
         /\ m >= Len(s) => Lines(name, s, Len(s)) \subseteq rows
<1>1. Len(s) \in Nat /\ DOMAIN s = 1 .. Len(s)
  OBVIOUS
<1>2. /\ DOMAIN Ledger(rows, name) = 1 .. m /\ Len(Ledger(rows, name)) = m
      /\ \A n \in 1 .. m : Ledger(rows, name)[n] = h[n]
  BY LedgerIs
<1>3. \A n \in 1 .. m : n \in 1 .. Len(s) => h[n] = s[n]
  BY <1>1, <1>2 DEF Mismatched
<1>4. ASSUME m <= Len(s) PROVE Lines(name, h, m) = Lines(name, s, m)
  <2>1. \A n \in 1 .. m : h[n] = s[n]
    BY <1>1, <1>3, <1>4
  <2> QED
    BY <2>1 DEF Lines
<1>5. ASSUME m >= Len(s) PROVE Lines(name, s, Len(s)) \subseteq rows
  <2>1. \A n \in 1 .. Len(s) : n \in 1 .. m /\ h[n] = s[n]
    BY <1>1, <1>3, <1>5
  <2>2. Lines(name, s, Len(s)) \subseteq Lines(name, h, m)
    BY <2>1 DEF Lines
  <2> QED
    BY <2>2 DEF Of
<1> QED
  BY <1>2, <1>4, <1>5

-----------------------------------------------------------------------------
(* Ledgers that are histories, and two of them merged *)

\* In each namespace there is the beginning of some history.
LEMMA LaidLines ==
  ASSUME WellFormed(scenario), NEW rows \in SUBSET Row, Laid(rows), NEW name
  PROVE  \E h : \E m \in Nat : Of(rows, name) = Lines(name, h, m)
<1>0. name \notin Names => Of(rows, name) = {}
  BY DEF Of, Row
<1>1. CASE Of(rows, name) = {}
  <2>1. Lines(name, <<>>, 0) = {}
    BY DEF Lines
  <2> QED
    BY <1>1, <2>1
<1>2. CASE name = "" /\ Of(rows, name) = LegacyRows
  <2>1. Len(scenario.legacy) \in Nat
    BY DEF WellFormed
  <2> QED
    BY <1>2, <2>1 DEF LegacyRows
<1>3. CASE \E f \in Fragments : \E n \in DOMAIN f.migrations :
             f.name = name /\ Of(rows, name) = Lines(name, f.migrations, n)
  <2>1. PICK f \in Fragments : \E n \in DOMAIN f.migrations :
             f.name = name /\ Of(rows, name) = Lines(name, f.migrations, n)
    BY <1>3
  <2>2. f.migrations \in Seq(Range(f.migrations))
    BY DEF Fragments, WellFormed, Plan
  <2>3. DOMAIN f.migrations \subseteq Nat
    BY <2>2
  <2> QED
    BY <2>1, <2>3
<1> QED
  BY <1>0, <1>1, <1>2, <1>3 DEF Laid, Begun

\* What two transactions have added belongs to different namespaces.
Separate(rows, more, base) ==
  \A r \in rows \ base, t \in more \ base : r.namespace # t.namespace

\* Two transactions that have added entries to different namespaces leave a ledger of
\* histories together.
LEMMA MergedLaid ==
  ASSUME NEW base, NEW rows, NEW more, base \subseteq rows, base \subseteq more,
         Laid(rows), Laid(more), Separate(rows, more, base)
  PROVE  Laid(rows \cup (more \ base))
<1> DEFINE both == rows \cup (more \ base)
<1>1. ASSUME NEW name \in Names
      PROVE  Of(both, name) = Of(rows, name) \/ Of(both, name) = Of(more, name)
  <2>1. CASE \E t \in more \ base : t.namespace = name
    <3>1. \A r \in rows \ base : r.namespace # name
      BY <2>1 DEF Separate
    <3> QED
      BY <3>1 DEF Of
  <2>2. CASE \A t \in more \ base : t.namespace # name
    BY <2>2 DEF Of
  <2> QED
    BY <2>1, <2>2
<1> HIDE DEF both
<1>2. Laid(both)
  BY <1>1 DEF Laid
<1> QED
  BY <1>2 DEF both

One(b) == IF b THEN 1 ELSE 0

\* What they record adds up.
LEMMA MergedRecorded ==
  ASSUME NEW base, NEW rows, NEW more, base \subseteq rows, base \subseteq more,
         Separate(rows, more, base), NEW m
  PROVE  One(Recorded(rows \cup (more \ base), m)) =
           One(Recorded(rows, m)) + (One(Recorded(more, m)) - One(Recorded(base, m)))
<1>1. CASE Recorded(base, m)
  <2>1. Recorded(rows, m) /\ Recorded(more, m) /\ Recorded(rows \cup (more \ base), m)
    BY <1>1 DEF Recorded
  <2> QED
    BY <1>1, <2>1 DEF One
<1>2. CASE ~Recorded(base, m)
  <2>1. ~(Recorded(rows, m) /\ Recorded(more, m))
    BY <1>2 DEF Recorded, Separate
  <2>2. Recorded(rows \cup (more \ base), m) <=> Recorded(rows, m) \/ Recorded(more, m)
    BY <1>2 DEF Recorded
  <2> QED
    BY <1>2, <2>1, <2>2 DEF One
<1> QED
  BY <1>1, <1>2

\* A transaction goes on with its history, or the other one has taken the key of its
\* next entry.
LEMMA MergedContinues ==
  ASSUME NEW base, NEW rows, NEW more, NEW both, NEW e, NEW h,
         WellFormed(scenario), rows \in SUBSET Row, base \subseteq rows, base \subseteq more,
         Laid(rows), Separate(rows, more, base), both = rows \cup (more \ base),
         e.id \in Nat, Of(more, e.namespace) = Lines(e.namespace, h, e.id)
  PROVE  Of(both, e.namespace) = Lines(e.namespace, h, e.id) \/ KeyTaken(rows, e)
<1> DEFINE name == e.namespace
           n == e.id
<1>1. CASE \A r \in rows \ base : r.namespace # name
  <2>1. Of(both, name) = Of(more, name)
    BY <1>1 DEF Of
  <2> QED
    BY <2>1
<1>2. CASE \E r \in rows \ base : r.namespace = name
  <2>1. PICK r \in rows \ base : r.namespace = name
    BY <1>2
  <2>2. Of(base, name) = Lines(name, h, n)
    BY <2>1 DEF Of, Separate
  <2>3. PICK g : \E m \in Nat : Of(rows, name) = Lines(name, g, m)
    BY LaidLines
  <2>4. \E t \in rows \ base : t.namespace = name /\ t.id = n
    <3> HIDE DEF name, n
    <3>1. n \in Nat
      BY DEF n
    <3> QED
      BY <2>1, <2>2, <2>3, <3>1, LinesGrow
  <2> QED
    BY <2>4 DEF KeyTaken
<1> QED
  BY <1>1, <1>2

-----------------------------------------------------------------------------
(* The invariant, one process at a time *)

ProcessHistory(p) ==
  /\ conn[p].lock = "written" => Laid(conn[p].view.rows)
  /\ UpgradeSound(p)
  /\ MigrationSound(p)

Apart(p, q) ==
  conn[p].lock = "written" /\ conn[q].lock = "written" =>
    \A r \in Own(p), t \in Own(q) : r.namespace # t.namespace

HistoryParts ==
  /\ SessionsInv
  /\ Regular(scenario)
  /\ DatabaseSound
  /\ \A p \in Processes : ProcessHistory(p)
  /\ \A p, q \in Processes : p # q => Apart(p, q)

\* HistoryInv, one process and one pair of processes at a time.
LEMMA HistoryInvIs == HistoryParts <=> HistoryInv
BY DEF HistoryParts, HistoryInv, ProcessHistory, NamespacesApart, Apart

\* What belongs to the scenario stays.
LEMMA SameScenario ==
  ASSUME scenario' = scenario
  PROVE  /\ Names' = Names /\ Fragments' = Fragments /\ LegacyRows' = LegacyRows
         /\ Migration' = Migration /\ Steps' = Steps /\ Plan' = Plan
         /\ \A q : Brought(q)' = Brought(q)
         /\ \A rows : Laid(rows)' <=> Laid(rows)
<1>1. /\ Names' = Names /\ Fragments' = Fragments /\ LegacyRows' = LegacyRows
      /\ Migration' = Migration /\ Steps' = Steps /\ Plan' = Plan
  BY DEF Names, Fragments, LegacyRows, Migration, Steps, Plan, Known, Brought
<1>2. \A q : Brought(q)' = Brought(q)
  BY DEF Brought, Plan
<1>3. \A rows : Laid(rows)' <=> Laid(rows)
  BY <1>1 DEF Laid, Begun
<1> QED
  BY <1>1, <1>2, <1>3

\* The same for the view of a connection, and the database.
LEMMA LaidNext ==
  ASSUME scenario' = scenario, NEW rows, Laid(rows)
  PROVE  /\ \A p : rows = conn'[p].view.rows => Laid(conn[p].view.rows)'
         /\ rows = db'.rows => Laid(db.rows)'
<1>1. Laid(rows)'
  BY SameScenario
<1>2. ASSUME NEW p, rows = conn'[p].view.rows PROVE Laid(conn[p].view.rows)'
  BY <1>1, <1>2 DEF Laid, Begun
<1>3. ASSUME rows = db'.rows PROVE Laid(db.rows)'
  BY <1>1, <1>3 DEF Laid, Begun
<1> QED
  BY <1>2, <1>3

\* A process that has not moved, with what it had.
LEMMA SameProcess ==
  ASSUME NEW q \in Processes, ProcessHistory(q), scenario' = scenario, db' = db,
         conn'[q] = conn[q], pc'[q] = pc[q], set'[q] = set[q], idx'[q] = idx[q], step'[q] = step[q]
  PROVE  ProcessHistory(q)'
<1>1. /\ Names' = Names /\ Fragments' = Fragments /\ LegacyRows' = LegacyRows
      /\ Migration' = Migration /\ Steps' = Steps /\ Plan' = Plan /\ Brought(q)' = Brought(q)
  BY SameScenario
<1>2. Fragment(q)' = Fragment(q)
  BY <1>1 DEF Fragment
<1>3. Hash(q)' = Hash(q)
  BY <1>2 DEF Hash
<1>4. Entry(q)' = Entry(q)
  BY <1>2, <1>3 DEF Entry
<1>5. ASSUME conn'[q].lock = "written" PROVE Laid(conn[q].view.rows)'
  BY <1>5, LaidNext DEF ProcessHistory
<1>6. UpgradeSound(q)'
  BY DEF ProcessHistory, UpgradeSound
<1>7. Counts(q) => Counts(q)'
  BY <1>1, <1>2, <1>3 DEF Counts, Half
<1>8. Own(q)' = Own(q)
  BY DEF Own
<1>9. MigrationSound(q)'
  BY <1>1, <1>2, <1>4, <1>7, <1>8 DEF ProcessHistory, MigrationSound, Arrived, KeyTaken
<1> QED
  BY <1>5, <1>6, <1>9 DEF ProcessHistory

\* A pair of processes that have what they had, or less.
LEMMA SameApart ==
  ASSUME NEW p \in Processes, NEW q \in Processes, Apart(p, q),
         conn'[p].lock = "written" => conn[p].lock = "written" /\ Own(p)' \subseteq Own(p),
         conn'[q].lock = "written" => conn[q].lock = "written" /\ Own(q)' \subseteq Own(q)
  PROVE  Apart(p, q)'
BY DEF Apart

\* The database, when a step adds nothing to the ledger.
LEMMA SameDatabase ==
  ASSUME DatabaseSound, scenario' = scenario,
         db'.rows = db.rows, db'.applied = db.applied, db'.renamed = {},
         scenario.ledger # "legacy" => db'.ledger # "legacy",
         \A q \in Processes :
           result'[q] = "ok" => \A f \in Range(Plan[q]) : Arrived(f, db.rows)
  PROVE  DatabaseSound'
<1>1. /\ Names' = Names /\ Fragments' = Fragments /\ LegacyRows' = LegacyRows
      /\ Migration' = Migration /\ Steps' = Steps /\ Plan' = Plan
  BY SameScenario
<1>2. Laid(db.rows)'
  BY LaidNext DEF DatabaseSound
<1>3. AppliedOnceAndRecorded'
  BY <1>1 DEF DatabaseSound, AppliedOnceAndRecorded
<1> QED
  BY <1>1, <1>2, <1>3 DEF DatabaseSound, Arrived

\* When nothing becomes durable it is enough to look at the process that has moved.
LEMMA UnmovedParts ==
  ASSUME HistoryInv, NEW p \in Processes, Elsewhere(p), Unmoved(p), SessionsInv', DatabaseSound',
         ProcessHistory(p)',
         \A q \in Others(p) : Apart(p, q)'
  PROVE  HistoryInv'
<1>1. HistoryParts
  BY HistoryInvIs
<1>2. Regular(scenario)'
  BY <1>1 DEF HistoryParts, Elsewhere, Regular
<1>3. \A q \in Others(p) : ProcessHistory(q)'
  BY <1>1, SameProcess DEF HistoryParts, Unmoved, Elsewhere, Others
<1>4. \A q \in Others(p) : conn'[q] = conn[q] /\ Own(q)' = Own(q)
  BY DEF Unmoved, Own
<1>5. \A q, r \in Processes : q # r => Apart(q, r)'
  <2>1. ASSUME NEW q \in Others(p), NEW r \in Others(p), q # r PROVE Apart(q, r)'
    BY <1>1, <1>4, <2>1, SameApart DEF HistoryParts, Others
  <2>2. ASSUME NEW q \in Others(p) PROVE Apart(q, p)'
    BY DEF Apart
  <2> QED
    BY <2>1, <2>2 DEF Others
<1>6. HistoryParts'
  BY <1>2, <1>3, <1>5 DEF HistoryParts, Others
<1> QED
  BY <1>6, HistoryInvIs, PTL

\* The same for a step that does not end a run well.
LEMMA UnmovedHistory ==
  ASSUME HistoryInv, NEW p \in Processes, Elsewhere(p), Unmoved(p), SessionsInv',
         result'[p] = "ok" => result[p] = "ok",
         ProcessHistory(p)',
         \A q \in Others(p) : Apart(p, q)'
  PROVE  HistoryInv'
<1>1. DatabaseSound /\ scenario' = scenario /\ db' = db
  BY DEF HistoryInv, Elsewhere, Unmoved
<1>2. \A q \in Processes : result'[q] = "ok" => result[q] = "ok"
  BY DEF Elsewhere, Others
<1>3. DatabaseSound'
  BY <1>1, <1>2, SameDatabase DEF DatabaseSound
<1> QED
  BY <1>3, UnmovedParts

\* A process without a transaction.
LEMMA QuietHistory ==
  ASSUME HistoryInv, NEW p \in Processes, Elsewhere(p), Unmoved(p), SessionsInv',
         conn'[p] = Link("none", "none", db),
         result'[p] = "ok" => result[p] = "ok",
         pc'[p] \notin Upgrading \cup Migrating,
         pc'[p] = "begin_upgrade" => scenario.ledger = "legacy"
  PROVE  HistoryInv'
<1>1. conn'[p].lock = "none" /\ scenario' = scenario
  BY DEF Link, Elsewhere
<1>2. UpgradeSound(p)' /\ MigrationSound(p)'
  BY <1>1 DEF UpgradeSound, MigrationSound, Upgrading, Migrating
<1>3. ProcessHistory(p)'
  BY <1>1, <1>2 DEF ProcessHistory
<1>4. \A q \in Others(p) : Apart(p, q)'
  BY <1>1 DEF Apart
<1> QED
  BY <1>3, <1>4, UnmovedHistory

\* A run that has failed: what its transaction has added it can not commit any more.
LEMMA FailedHistory ==
  ASSUME HistoryInv, NEW p \in Processes, Elsewhere(p), Hurt(p), SessionsInv',
         pc'[p] = "drop", result'[p] \in {"err", "panic"}
  PROVE  HistoryInv'
<1>1. Unmoved(p) /\ scenario' = scenario /\ db' = db /\ HistoryParts
  BY HistoryInvIs DEF Hurt, Elsewhere, Unmoved
<1>2. conn'[p].lock = "written" =>
        conn[p].lock = "written" /\ conn'[p].view = conn[p].view
  BY DEF Hurt, Link
<1>3. UpgradeSound(p)' /\ MigrationSound(p)'
  BY DEF UpgradeSound, MigrationSound, Upgrading, Migrating
<1>4. ASSUME conn'[p].lock = "written" PROVE Laid(conn[p].view.rows)'
  BY <1>1, <1>2, <1>4, LaidNext DEF HistoryParts, ProcessHistory
<1>5. ProcessHistory(p)'
  BY <1>3, <1>4 DEF ProcessHistory
<1>6. \A q \in Others(p) : Apart(p, q)'
  <2> TAKE q \in Others(p)
  <2>1. Apart(p, q) /\ q \in Processes
    BY <1>1 DEF HistoryParts, Others
  <2>2. conn'[q] = conn[q]
    BY <1>1 DEF Unmoved
  <2> QED
    BY <1>1, <1>2, <2>1, <2>2, SameApart DEF Own
<1> QED
  BY <1>1, <1>5, <1>6, UnmovedHistory

\* The steps of a process without a transaction keep the invariant, the probe included,
\* which finds a column missing only where there is a legacy ledger.
LEMMA QuietStepHistory ==
  ASSUME HistoryInv, ProbeReliable, NEW p \in Processes, SessionsInv',
         Start(p) \/ Probe(p) \/ EndUpgrade(p) \/ Drop(p) \/ Crash(p)
  PROVE  HistoryInv'
<1>1. SessionsInv /\ TypeOK /\ DatabaseSound
  BY DEF HistoryInv, SessionsInv
<1>2. Elsewhere(p) /\ Unmoved(p) /\ conn'[p] = Link("none", "none", db)
  BY <1>1, QuietStep
<1>3. CASE Start(p) \/ EndUpgrade(p) \/ Drop(p) \/ Crash(p)
  <2>1. /\ pc'[p] \in {"create_ledger", "begin", "idle"}
        /\ result'[p] \in {"none", "crashed", result[p]}
    BY <1>1, <1>3 DEF Start, EndUpgrade, Drop, Crash, TypeOK
  <2> QED
    BY <1>2, <2>1, QuietHistory DEF Upgrading, Migrating
<1>4. CASE Probe(p)
  <2>1. pc[p] = "probe" /\ result' = result
    BY <1>4 DEF Probe, At
  <2>2. View(p) = db /\ db.ledger \in {"absent", "legacy", "current"} /\ db.ledger # "absent"
    BY <1>1, <2>1, HereSound DEF HoldsSound, ViewsSound, TypeOK, Database
  <2>3. pc'[p] \in {"begin_upgrade", "begin"} /\ (pc'[p] = "begin_upgrade" => db.ledger # "current")
    BY <1>1, <1>4, <2>2 DEF Probe, TypeOK
  <2>4. pc'[p] = "begin_upgrade" => scenario.ledger = "legacy"
    BY <1>1, <2>2, <2>3 DEF DatabaseSound
  <2> QED
    BY <1>2, <2>1, <2>3, <2>4, QuietHistory DEF Upgrading, Migrating
<1> QED
  BY <1>3, <1>4

\* The two BEGINs: the transaction has added nothing.
LEMMA BeginsHistory ==
  ASSUME HistoryInv, NEW p \in Processes, SessionsInv', BeginUpgrade(p) \/ Begin(p)
  PROVE  HistoryInv'
<1>1. SessionsInv /\ TypeOK /\ DatabaseSound /\ UpgradeSound(p) /\ PlaceSound(p) /\ WellFormed(scenario)
  BY HereSound DEF HistoryInv, SessionsInv
<1>2. /\ Elsewhere(p)
      /\ set' = set /\ idx' = idx /\ step' = step /\ runs' = runs /\ result' = result
      /\ BeginUpgrade(p) => Worked(p, "none", db, "rename") /\ pc[p] = "begin_upgrade"
      /\ Begin(p) =>
           Worked(p, "none", db, IF Plan[p] = <<>> THEN "commit" ELSE "read") /\ pc[p] = "begin"
  BY <1>1, BeginsStep
<1>3. /\ Unmoved(p) /\ conn'[p] = Link("open", "none", db) /\ scenario' = scenario /\ db' = db
      /\ pc'[p] = IF BeginUpgrade(p) THEN "rename" ELSE IF Plan[p] = <<>> THEN "commit" ELSE "read"
  BY <1>1, <1>2 DEF Worked, Unmoved, Elsewhere, TypeOK
<1>4. conn'[p].lock = "none" /\ conn'[p].view = db
  BY <1>3 DEF Link
<1>5. UpgradeSound(p)'
  BY <1>1, <1>2, <1>3, <1>4 DEF UpgradeSound, Upgrading
<1>6. ASSUME pc'[p] \in Migrating PROVE MigrationSound(p)'
  <2>1. pc'[p] \in {"read", "commit"} /\ ~BeginUpgrade(p) /\ Begin(p) /\ pc[p] = "begin"
    BY <1>2, <1>3, <1>6 DEF Migrating
  <2>2. Migration' = Migration /\ Steps' = Steps /\ Plan' = Plan
    BY <1>3, SameScenario
  <2>3. \A m, k : ~Half(p, m, k)'
    BY <2>1 DEF Half
  <2>4. Counts(p)'
    <3> SUFFICES ASSUME NEW m \in Migration, NEW k \in Steps
                 PROVE  db.applied[<<m, k>>] = (IF Recorded(db.rows, m) THEN 1 ELSE 0) + 0
      BY <1>3, <1>4, <2>2, <2>3 DEF Counts, Recorded
    <3> QED
      BY <1>1 DEF DatabaseSound, AppliedOnceAndRecorded
  <2>5. set'[p] = 1
    BY <1>1, <1>2, <2>1 DEF PlaceSound, Migrating
  <2>6. Own(p)' = {}
    BY <1>3, <1>4 DEF Own
  <2>7. pc'[p] = "commit" => Plan[p] = <<>> /\ Len(Plan[p]) = 0
    BY <1>3, <2>1
  <2> QED
    BY <2>1, <2>2, <2>4, <2>5, <2>6, <2>7 DEF MigrationSound
<1>7. ProcessHistory(p)'
  BY <1>4, <1>5, <1>6 DEF ProcessHistory, MigrationSound
<1>8. \A q \in Others(p) : Apart(p, q)'
  BY <1>4 DEF Apart
<1> QED
  BY <1>2, <1>3, <1>7, <1>8, UnmovedHistory

\* What the view of the upgrade is at its places.
Rebuilt(label, v) ==
  /\ v.applied = db.applied
  /\ label \in {"create", "copy"} => v.rows = {}
  /\ label \in {"create", "copy", "drop_legacy"} => v.renamed = db.rows
  /\ label \in {"drop_legacy", "commit_upgrade"} =>
       UniqueIds(db.rows) /\ v.rows = Flattened(db.rows)
  /\ label = "commit_upgrade" => v.renamed = {}

\* A statement of the upgrade.
LEMMA UpgradeStepHistory ==
  ASSUME HistoryInv, NEW p \in Processes, SessionsInv', pc[p] \in Upgrading,
         NEW after, NEW next \in Upgrading, UpgradeStep(p, "exclusive", after, next),
         Failed(p) \/ Rebuilt(next, after)
  PROVE  HistoryInv'
<1>1. TypeOK /\ scenario.ledger = "legacy"
  BY DEF HistoryInv, SessionsInv, UpgradeSound
<1>2. Elsewhere(p) /\ scenario' = scenario
  BY DEF UpgradeStep, Elsewhere
<1>3. CASE Failed(p)
  <2>1. Hurt(p) /\ pc'[p] = "drop" /\ result'[p] = "err"
    BY <1>1, <1>3 DEF Failed, TypeOK
  <2> QED
    BY <1>2, <2>1, FailedHistory
<1>4. CASE ~Failed(p)
  <2>1. Worked(p, "exclusive", after, next) /\ Rebuilt(next, after)
    BY <1>4 DEF UpgradeStep
  <2>2. /\ Unmoved(p) /\ conn'[p] = Link("open", "exclusive", after) /\ pc'[p] = next
        /\ result'[p] = result[p] /\ db' = db
    BY <1>1, <2>1 DEF Worked, Unmoved, TypeOK
  <2>3. conn'[p].lock = "exclusive" /\ conn'[p].view = after
    BY <2>2 DEF Link
  <2>4. UpgradeSound(p)'
    BY <1>1, <1>2, <2>1, <2>2, <2>3 DEF UpgradeSound, Rebuilt, UniqueIds, Flattened
  <2>5. MigrationSound(p)'
    BY <2>2 DEF MigrationSound, Upgrading, Migrating
  <2>6. ProcessHistory(p)'
    BY <2>3, <2>4, <2>5 DEF ProcessHistory
  <2>7. \A q \in Others(p) : Apart(p, q)'
    BY <2>3 DEF Apart
  <2> QED
    BY <1>2, <2>2, <2>6, <2>7, UnmovedHistory
<1> QED
  BY <1>3, <1>4

\* Rename, CreateCurrent, CopyRows and DropLegacy.
LEMMA RebuildHistory ==
  ASSUME HistoryInv, NEW p \in Processes, SessionsInv',
         Rename(p) \/ CreateCurrent(p) \/ CopyRows(p) \/ DropLegacy(p)
  PROVE  HistoryInv'
<1> DEFINE v == conn[p].view
<1>1. SessionsInv /\ UpgradeSound(p)
  BY DEF HistoryInv
<1>2. CASE Rename(p)
  <2>1. pc[p] = "rename" /\ UpgradeStep(p, "exclusive", Renamed(db), "create")
    BY <1>1, <1>2, RenameStep
  <2>2. Rebuilt("create", Renamed(db))
    BY DEF Rebuilt, Renamed, Data
  <2> QED
    BY <2>1, <2>2, UpgradeStepHistory DEF Upgrading
<1>3. CASE CreateCurrent(p)
  <2>1. pc[p] = "create" /\ UpgradeStep(p, "exclusive", Created(v), "copy")
    BY <1>1, <1>3, CreateCurrentStep
  <2>2. Rebuilt("copy", Created(v))
    BY <1>1, <2>1 DEF Rebuilt, Created, Data, UpgradeSound, Upgrading
  <2> QED
    BY <2>1, <2>2, UpgradeStepHistory DEF Upgrading
<1>4. CASE CopyRows(p)
  <2>1. /\ pc[p] = "copy" /\ UpgradeStep(p, "exclusive", Copied(v), "drop_legacy")
        /\ Failed(p) \/ UniqueIds(v.renamed)
    BY <1>1, <1>4, CopyRowsStep
  <2>2. Failed(p) \/ Rebuilt("drop_legacy", Copied(v))
    BY <1>1, <2>1 DEF Rebuilt, Copied, Data, UpgradeSound, Upgrading
  <2> QED
    BY <2>1, <2>2, UpgradeStepHistory DEF Upgrading
<1>5. CASE DropLegacy(p)
  <2>1. pc[p] = "drop_legacy" /\ UpgradeStep(p, "exclusive", Emptied(v), "commit_upgrade")
    BY <1>1, <1>5, DropLegacyStep
  <2>2. Rebuilt("commit_upgrade", Emptied(v))
    BY <1>1, <2>1 DEF Rebuilt, Emptied, Data, UpgradeSound, Upgrading
  <2> QED
    BY <2>1, <2>2, UpgradeStepHistory DEF Upgrading
<1> QED
  BY <1>2, <1>3, <1>4, <1>5

-----------------------------------------------------------------------------
(* The steps of apply_pending *)

\* What a process reads of the ledger are histories.
LEMMA ViewLaid ==
  ASSUME HistoryInv, NEW p \in Processes, conn[p].lock # "exclusive"
  PROVE  Laid(conn[p].view.rows)
<1>1. conn[p].lock \in {"none", "shared", "written"} /\ ViewsSound
  BY DEF HistoryInv, SessionsInv, TypeOK
<1>2. CASE conn[p].lock = "written"
  BY <1>2, HistoryInvIs DEF HistoryParts, ProcessHistory
<1>3. CASE conn[p].lock \in {"none", "shared"}
  BY <1>1, <1>3 DEF HistoryInv, DatabaseSound, ViewsSound
<1> QED
  BY <1>1, <1>2, <1>3

\* The comparison: what p was at is there, or p knows where to go on.
LEMMA ComparedHistory ==
  ASSUME HistoryInv, NEW p \in Processes, pc[p] = "read", Compared(p)
  PROVE  /\ UpToDate(Existing(p), Fragment(p).migrations) =>
              Arrived(Fragment(p), conn[p].view.rows)
         /\ ~UpToDate(Existing(p), Fragment(p).migrations) =>
              Of(conn[p].view.rows, Fragment(p).name) =
                Lines(Fragment(p).name, Fragment(p).migrations, Len(Existing(p)))
<1> DEFINE rows == conn[p].view.rows
           f == Fragment(p)
<1>1. /\ WellFormed(scenario) /\ set[p] \in DOMAIN Plan[p] /\ conn[p].lock # "exclusive"
      /\ ~Mismatched(Ledger(rows, f.name), f.migrations)
  BY HereSound DEF HistoryInv, SessionsInv, PlaceSound, HoldsSound, Compared, Existing, Migrating
<1>2. f \in Range(Plan[p]) /\ f.migrations \in Seq(Range(f.migrations)) /\ Len(f.migrations) \in Nat
  BY <1>1, FragmentIs
<1>3. rows \in SUBSET Row /\ Laid(rows)
  BY <1>1, HereSound, ViewLaid DEF HistoryInv, Database
<1>4. PICK h : \E m \in Nat : Of(rows, f.name) = Lines(f.name, h, m)
  BY <1>1, <1>3, LaidLines
<1>5. PICK m \in Nat : Of(rows, f.name) = Lines(f.name, h, m)
  BY <1>4
<1> DEFINE l == Ledger(rows, f.name)
<1>6. /\ Len(l) = m
      /\ m <= Len(f.migrations) => Of(rows, f.name) = Lines(f.name, f.migrations, m)
      /\ m >= Len(f.migrations) => Lines(f.name, f.migrations, Len(f.migrations)) \subseteq rows
  <2> HIDE DEF rows, f
  <2> QED
    BY <1>1, <1>2, <1>5, ComparedLines
<1>7. UpToDate(l, f.migrations) <=> m >= Len(f.migrations)
  BY <1>2, <1>6 DEF UpToDate
<1> QED
  BY <1>2, <1>6, <1>7 DEF Existing, Arrived

\* The step keeps the invariant.
LEMMA ReadLedgerHistory ==
  ASSUME HistoryInv, NEW p \in Processes, SessionsInv', ReadLedger(p)
  PROVE  HistoryInv'
<1>1. /\ pc[p] = "read" /\ Elsewhere(p) /\ runs' = runs
      /\ \/ Panicked(p)
         \/ Failed(p) /\ Compared(p)
         \/ Worked(p, Seen(p), conn[p].view, ComparedNext(p)) /\ Compared(p) /\ ~LedgerLocked(p)
  BY ReadLedgerStep DEF HistoryInv
<1>2. /\ TypeOK /\ scenario' = scenario /\ conn[p].lock # "exclusive" /\ MigrationSound(p)
      /\ WellFormed(scenario) /\ set[p] \in DOMAIN Plan[p] /\ set[p] \in Nat \ {0}
  BY <1>1, HereSound DEF HistoryInv, SessionsInv, Elsewhere, HoldsSound, PlaceSound, Migrating
<1>3. CASE Panicked(p) \/ Failed(p)
  <2>1. Hurt(p) /\ pc'[p] = "drop" /\ result'[p] \in {"err", "panic"}
    BY <1>2, <1>3 DEF Failed, Panicked, TypeOK
  <2> QED
    BY <1>1, <2>1, FailedHistory
<1>4. CASE Worked(p, Seen(p), conn[p].view, ComparedNext(p)) /\ Compared(p)
  <2> DEFINE f == Fragment(p)
             rows == conn[p].view.rows
             done == UpToDate(Existing(p), f.migrations)
  <2>1. /\ Unmoved(p) /\ db' = db /\ conn'[p] = Link("open", Seen(p), conn[p].view)
        /\ pc'[p] = ComparedNext(p) /\ result'[p] = result[p]
    BY <1>2, <1>4 DEF Worked, Unmoved, TypeOK
  <2>2. /\ conn'[p].lock = Seen(p) /\ conn'[p].view = conn[p].view /\ Own(p)' = Own(p)
        /\ Seen(p) = "written" => conn[p].lock = "written"
        /\ Seen(p) # "exclusive"
    BY <2>1 DEF Link, Own, Seen
  <2>3. /\ Migration' = Migration /\ Steps' = Steps /\ Plan' = Plan /\ Brought(p)' = Brought(p)
        /\ \A rs : Laid(rs)' <=> Laid(rs)
    BY <1>2, SameScenario
  <2>4. /\ done => Arrived(f, rows)
        /\ ~done => Of(rows, f.name) = Lines(f.name, f.migrations, Len(Existing(p)))
    BY <1>1, <1>4, ComparedHistory
  <2>5. DOMAIN Plan[p] = 1 .. Len(Plan[p]) /\ Len(Plan[p]) \in Nat
    BY <1>2, FragmentIs
  <2>6. /\ done => /\ set'[p] = set[p] + 1
                   /\ pc'[p] = IF set[p] < Len(Plan[p]) THEN "read" ELSE "commit"
        /\ ~done => set'[p] = set[p] /\ idx'[p] = Len(Existing(p)) /\ step'[p] = 1 /\ pc'[p] = "apply"
    BY <1>2, <1>4, <2>1 DEF Compared, ComparedNext, SetAfter, TypeOK
  <2>7. Counts(p)'
    <3>1. \A m \in Migration, k \in Steps : ~Half(p, m, k)
      BY <1>1 DEF Half
    <3>2. \A m \in Migration, k \in Steps : ~Half(p, m, k)'
      BY <2>6 DEF Half, Steps
    <3>3. Counts(p)
      BY <1>1, <1>2 DEF MigrationSound, Migrating
    <3> QED
      BY <2>2, <2>3, <3>1, <3>2, <3>3 DEF Counts
  <2>8. \A n \in 1 .. set'[p] - 1 : n \in DOMAIN Plan[p] /\ Arrived(Plan[p][n], rows)
    <3>1. \A n \in 1 .. set[p] - 1 : n \in DOMAIN Plan[p] /\ Arrived(Plan[p][n], rows)
      BY <1>1, <1>2 DEF MigrationSound, Migrating
    <3>2. done => Arrived(Plan[p][set[p]], rows)
      BY <2>4 DEF Fragment
    <3> HIDE DEF done, rows
    <3> QED
      BY <1>2, <2>6, <3>1, <3>2
  <2>9. ~done => Of(rows, f.name) = Lines(f.name, f.migrations, idx'[p]) /\ Fragment(p)' = f
    BY <2>3, <2>4, <2>6 DEF Fragment
  <2>10. MigrationSound(p)'
    <3>1. pc'[p] \in {"apply", "record"} =>
            (Of(conn[p].view.rows, Fragment(p).name) = Lines(Fragment(p).name, Fragment(p).migrations, idx[p]))'
      <4> SUFFICES ASSUME ~done
                   PROVE (Of(conn[p].view.rows, Fragment(p).name) =
                            Lines(Fragment(p).name, Fragment(p).migrations, idx[p]))'
        BY <2>6
      <4> QED
        BY <2>2, <2>9
    <3>2. pc'[p] = "commit" => set'[p] = Len(Plan[p]) + 1
      BY <1>2, <2>5, <2>6
    <3>3. \A r \in Own(p)' : <<r.namespace, r.hash>> \in Brought(p)'
      BY <1>1, <1>2, <2>2, <2>3 DEF MigrationSound, Migrating
    <3>4. (\A n \in 1 .. set[p] - 1 : n \in DOMAIN Plan[p] /\ Arrived(Plan[p][n], conn[p].view.rows))'
      BY <2>2, <2>3, <2>8 DEF Arrived
    <3> QED
      BY <2>3, <2>7, <3>1, <3>2, <3>3, <3>4 DEF MigrationSound
  <2>11. conn'[p].lock = "written" => Laid(conn[p].view.rows)'
    <3>1. PICK rs : rs = conn[p].view.rows
      OBVIOUS
    <3>2. Laid(rs)'
      BY <1>2, <2>3, <3>1, ViewLaid
    <3> QED
      BY <2>2, <3>1, <3>2 DEF Laid, Begun
  <2>12. UpgradeSound(p)'
    BY <2>6 DEF UpgradeSound, Upgrading
  <2>13. ProcessHistory(p)'
    BY <2>10, <2>11, <2>12 DEF ProcessHistory
  <2>14. \A q \in Others(p) : Apart(p, q)'
    <3> TAKE q \in Others(p)
    <3>1. Apart(p, q) /\ q \in Processes /\ conn'[q] = conn[q]
      BY <2>1, HistoryInvIs DEF HistoryParts, Others, Unmoved
    <3> QED
      BY <2>1, <2>2, <3>1, SameApart DEF Own
  <2> QED
    BY <1>1, <2>1, <2>13, <2>14, UnmovedHistory
<1> QED
  BY <1>1, <1>3, <1>4

\* A statement of the migration: it is counted, and p is a statement further.
LEMMA ApplyHistory ==
  ASSUME HistoryInv, NEW p \in Processes, SessionsInv', Apply(p)
  PROVE  HistoryInv'
<1> DEFINE after == Advanced(conn[p].view, Current(p))
<1>1. /\ pc[p] = "apply" /\ Elsewhere(p) /\ set' = set /\ idx' = idx /\ runs' = runs
      /\ step' = [step EXCEPT ![p] = IF step[p] < scenario.statements THEN step[p] + 1 ELSE 1]
      /\ \/ Failed(p)
         \/ Worked(p, "written", after, ApplyNext(p))
  BY ApplyStep DEF HistoryInv
<1>2. /\ TypeOK /\ scenario' = scenario /\ conn[p].lock \in {"shared", "written"}
      /\ MigrationSound(p) /\ Counts(p) /\ ViewsSound
      /\ conn[p].view \in Database /\ scenario.statements \in Nat \ {0} /\ step[p] \in Steps
  BY <1>1, HereSound DEF HistoryInv, SessionsInv, Elsewhere, HoldsSound, PlaceSound, Migrating,
     TypeOK, WellFormed, MigrationSound
<1>3. CASE Failed(p)
  <2>1. Hurt(p) /\ pc'[p] = "drop" /\ result'[p] \in {"err", "panic"}
    BY <1>2, <1>3 DEF Failed, TypeOK
  <2> QED
    BY <1>1, <2>1, FailedHistory
<1>4. CASE Worked(p, "written", after, ApplyNext(p))
  <2>1. /\ Unmoved(p) /\ db' = db /\ conn'[p] = Link("open", "written", after)
        /\ pc'[p] = ApplyNext(p) /\ result'[p] = result[p]
    BY <1>2, <1>4 DEF Worked, Unmoved, TypeOK
  <2>2. /\ conn'[p].lock = "written" /\ conn'[p].view.rows = conn[p].view.rows
        /\ conn'[p].view.applied = [conn[p].view.applied EXCEPT ![Current(p)] = @ + 1]
        /\ Own(p)' = Own(p)
    BY <2>1 DEF Link, Own, Advanced, Data
  <2>3. /\ Migration' = Migration /\ Steps' = Steps /\ Plan' = Plan /\ Brought(p)' = Brought(p)
        /\ \A rs : Laid(rs)' <=> Laid(rs)
    BY <1>2, SameScenario
  <2>4. set'[p] = set[p] /\ idx'[p] = idx[p]
    BY <1>1
  <2>5. Fragment(p)' = Fragment(p)
    BY <2>3, <2>4 DEF Fragment
  <2>6. Hash(p)' = Hash(p)
    BY <2>4, <2>5 DEF Hash
  <2>7. Entry(p)' = Entry(p)
    BY <2>4, <2>5, <2>6 DEF Entry
  <2>8. Counts(p)'
    <3> DEFINE D == Migration \X Steps
               f == conn[p].view.applied
               m0 == <<Fragment(p).name, Hash(p)>>
    <3>1. f \in [D -> Nat]
      BY <1>2 DEF Database
    <3>2. \A d \in D : conn'[p].view.applied[d] = IF d = Current(p) THEN f[d] + 1 ELSE f[d]
      <4> HIDE DEF D, f
      <4>1. \A d \in D : [f EXCEPT ![Current(p)] = @ + 1][d] = IF d = Current(p) THEN f[d] + 1 ELSE f[d]
        BY <3>1, CountedOnce
      <4> USE DEF f
      <4> QED
        BY <2>2, <4>1
    <3>3. step'[p] = IF step[p] < scenario.statements THEN step[p] + 1 ELSE 1
      BY <1>1, <1>2 DEF TypeOK
    <3>4. \A m \in Migration, k \in Steps : Half(p, m, k)' <=> m = m0 /\ k <= step[p]
      <4> TAKE m \in Migration, k \in Steps
      <4>1. k \in Nat /\ step[p] \in Nat /\ k <= scenario.statements /\ step[p] <= scenario.statements
        BY <1>2 DEF Steps
      <4>2. CASE step[p] < scenario.statements
        BY <2>1, <2>5, <2>6, <3>3, <4>1, <4>2 DEF Half, ApplyNext
      <4>3. CASE step[p] = scenario.statements
        BY <2>1, <2>5, <2>6, <3>3, <4>1, <4>3 DEF Half, ApplyNext
      <4> QED
        BY <1>2, <4>1, <4>2, <4>3
    <3>5. \A m \in Migration, k \in Steps : Half(p, m, k) <=> m = m0 /\ k < step[p]
      BY <1>1 DEF Half
    <3>6. \A m \in Migration, k \in Steps :
            conn'[p].view.applied[<<m, k>>] =
              (IF Recorded(conn[p].view.rows, m) THEN 1 ELSE 0) + (IF Half(p, m, k)' THEN 1 ELSE 0)
      <4> TAKE m \in Migration, k \in Steps
      <4>1. f[<<m, k>>] = (IF Recorded(conn[p].view.rows, m) THEN 1 ELSE 0) + (IF Half(p, m, k) THEN 1 ELSE 0)
        BY <1>2 DEF Counts
      <4>2. <<m, k>> = Current(p) <=> m = m0 /\ k = step[p]
        BY DEF Current
      <4>3. conn'[p].view.applied[<<m, k>>] =
              f[<<m, k>>] + IF m = m0 /\ k = step[p] THEN 1 ELSE 0
        <5> HIDE DEF f, m0
        <5>1. <<m, k>> \in D /\ f[<<m, k>>] \in Nat
          BY <4>1
        <5> HIDE DEF D
        <5> QED
          BY <3>2, <4>2, <5>1
      <4>4. k \in Nat /\ step[p] \in Nat
        BY <1>2 DEF Steps
      <4>5. \/ m = m0 /\ k = step[p] /\ Half(p, m, k)' /\ ~Half(p, m, k)
            \/ ~(m = m0 /\ k = step[p]) /\ (Half(p, m, k)' <=> Half(p, m, k))
        <5> HIDE DEF m0
        <5>1. Half(p, m, k)' <=> m = m0 /\ k <= step[p]
          BY <3>4
        <5>2. Half(p, m, k) <=> m = m0 /\ k < step[p]
          BY <3>5
        <5> QED
          BY <4>4, <5>1, <5>2
      <4> HIDE DEF f, m0
      <4> QED
        BY <4>1, <4>3, <4>5
    <3> QED
      BY <2>2, <2>3, <3>6 DEF Counts, Recorded
  <2>9. pc'[p] \in {"apply", "record"}
    BY <2>1 DEF ApplyNext
  <2>10. MigrationSound(p)'
    <3>1. /\ \A n \in 1 .. set[p] - 1 : n \in DOMAIN Plan[p] /\ Arrived(Plan[p][n], conn[p].view.rows)
          /\ \A r \in Own(p) : <<r.namespace, r.hash>> \in Brought(p)
          /\ \/ Of(conn[p].view.rows, Fragment(p).name) =
                  Lines(Fragment(p).name, Fragment(p).migrations, idx[p])
             \/ KeyTaken(db.rows, Entry(p))
      BY <1>1, <1>2 DEF MigrationSound, Migrating
    <3>2. (\A n \in 1 .. set[p] - 1 : n \in DOMAIN Plan[p] /\ Arrived(Plan[p][n], conn[p].view.rows))'
      BY <2>2, <2>3, <2>4, <3>1 DEF Arrived
    <3>3. (\/ Of(conn[p].view.rows, Fragment(p).name) =
                  Lines(Fragment(p).name, Fragment(p).migrations, idx[p])
           \/ KeyTaken(db.rows, Entry(p)))'
      BY <2>1, <2>2, <2>4, <2>5, <2>7, <3>1 DEF KeyTaken
    <3>4. (\A r \in Own(p) : <<r.namespace, r.hash>> \in Brought(p))'
      BY <2>2, <2>3, <3>1
    <3> QED
      BY <2>8, <2>9, <3>2, <3>3, <3>4 DEF MigrationSound
  <2>11. Laid(conn[p].view.rows)'
    <3>1. Laid(conn[p].view.rows)
      BY <1>2, ViewLaid
    <3> QED
      BY <1>2, <2>2, <3>1, LaidNext
  <2>12. UpgradeSound(p)'
    BY <2>9 DEF UpgradeSound, Upgrading
  <2>13. ProcessHistory(p)'
    BY <2>10, <2>11, <2>12 DEF ProcessHistory
  <2>14. \A q \in Others(p) : Apart(p, q)'
    <3> TAKE q \in Others(p)
    <3>1. Apart(p, q) /\ q \in Processes /\ conn'[q] = conn[q]
      BY <2>1, HistoryInvIs DEF HistoryParts, Others, Unmoved
    <3>2. CASE conn[p].lock = "written"
      BY <2>1, <2>2, <3>1, <3>2, SameApart DEF Own
    <3>3. CASE conn[p].lock = "shared"
      <4>1. Own(p)' = {}
        BY <1>2, <2>2, <3>3 DEF ViewsSound, Own
      <4> QED
        BY <4>1 DEF Apart
    <3> QED
      BY <1>2, <3>2, <3>3
  <2> QED
    BY <1>1, <2>1, <2>13, <2>14, UnmovedHistory
<1> QED
  BY <1>1, <1>3, <1>4

\* A history that gets its next entry.
LEMMA LinesNext ==
  ASSUME NEW name, NEW h, NEW n \in Nat
  PROVE  Lines(name, h, n + 1) =
           Lines(name, h, n) \cup {[namespace |-> name, id |-> n, hash |-> h[n + 1]]}
<1>1. 1 .. n + 1 = (1 .. n) \cup {n + 1} /\ (n + 1) - 1 = n
  OBVIOUS
<1> QED
  BY <1>1 DEF Lines

\* What p has seen goes on where its next entry belongs, when that is not refused.
LEMMA RecordGround ==
  ASSUME HistoryInv, NEW p \in Processes, pc[p] = "record",
         ~KeyTaken(conn[p].view.rows, Entry(p))
  PROVE  /\ Of(conn[p].view.rows, Fragment(p).name) =
              Lines(Fragment(p).name, Fragment(p).migrations, idx[p])
         /\ ~Recorded(conn[p].view.rows, <<Fragment(p).name, Hash(p)>>)
         /\ Of(conn[p].view.rows \cup {Entry(p)}, Fragment(p).name) =
              Lines(Fragment(p).name, Fragment(p).migrations, idx[p] + 1)
<1> DEFINE f == Fragment(p)
           rows == conn[p].view.rows
<1>1. /\ MigrationSound(p) /\ conn[p].lock = "written" /\ db.rows \subseteq rows
      /\ WellFormed(scenario) /\ set[p] \in DOMAIN Plan[p]
      /\ idx[p] \in Nat /\ idx[p] + 1 \in DOMAIN f.migrations
  BY HereSound DEF HistoryInv, SessionsInv, HoldsSound, PlaceSound, ViewsSound
<1>2. ~KeyTaken(db.rows, Entry(p))
  BY <1>1 DEF KeyTaken
<1>3. Of(rows, f.name) = Lines(f.name, f.migrations, idx[p])
  BY <1>1, <1>2 DEF MigrationSound, Migrating
<1>4. IsInjective(f.migrations)
  BY <1>1, FragmentIs DEF HistoryInv, Regular, Plan
<1>5. ~Recorded(rows, <<f.name, Hash(p)>>)
  <2> SUFFICES ASSUME NEW r \in rows, r.namespace = f.name, r.hash = Hash(p) PROVE FALSE
    BY DEF Recorded
  <2>1. r \in Lines(f.name, f.migrations, idx[p])
    BY <1>3 DEF Of
  <2>2. r.id \in 0 .. idx[p] - 1 /\ r.hash = f.migrations[r.id + 1]
    BY <1>1, <2>1, LineKey
  <2>3. r.id + 1 \in DOMAIN f.migrations
    BY <1>1, <2>2, FragmentIs
  <2>4. r.id + 1 = idx[p] + 1
    BY <1>1, <1>4, <2>2, <2>3 DEF IsInjective, Hash
  <2> QED
    BY <1>1, <2>2, <2>4
<1>6. Of(rows \cup {Entry(p)}, f.name) = Lines(f.name, f.migrations, idx[p] + 1)
  <2>1. Of(rows \cup {Entry(p)}, f.name) = Of(rows, f.name) \cup {Entry(p)}
    BY DEF Of, Entry
  <2>2. Entry(p) = [namespace |-> f.name, id |-> idx[p], hash |-> f.migrations[idx[p] + 1]]
    BY DEF Entry, Hash
  <2> HIDE DEF f, rows
  <2>3. Lines(f.name, f.migrations, idx[p] + 1) =
          Lines(f.name, f.migrations, idx[p])
            \cup {[namespace |-> f.name, id |-> idx[p], hash |-> f.migrations[idx[p] + 1]]}
    <3> DEFINE h == f.migrations
               n == idx[p]
    <3>1. n \in Nat
      BY <1>1
    <3> HIDE DEF h, n
    <3>2. Lines(f.name, h, n + 1) =
            Lines(f.name, h, n) \cup {[namespace |-> f.name, id |-> n, hash |-> h[n + 1]]}
      BY <3>1, LinesNext
    <3> QED
      BY <3>2 DEF h, n
  <2> QED
    BY <1>3, <2>1, <2>2, <2>3
<1> QED
  BY <1>3, <1>5, <1>6

\* With the entry what p has seen are histories still.
LEMMA RecordLaid ==
  ASSUME HistoryInv, NEW p \in Processes, pc[p] = "record",
         ~KeyTaken(conn[p].view.rows, Entry(p))
  PROVE  Laid(conn[p].view.rows \cup {Entry(p)})
<1> DEFINE f == Fragment(p)
           rows == conn[p].view.rows
           more == rows \cup {Entry(p)}
<1>1. /\ conn[p].lock = "written" /\ WellFormed(scenario) /\ set[p] \in DOMAIN Plan[p]
      /\ idx[p] \in Nat /\ idx[p] + 1 \in DOMAIN f.migrations
  BY HereSound DEF HistoryInv, SessionsInv, HoldsSound, PlaceSound
<1>2. Laid(rows)
  BY <1>1, ViewLaid
<1>3. Of(more, f.name) = Lines(f.name, f.migrations, idx[p] + 1)
  BY RecordGround
<1>4. f \in Fragments
  BY <1>1, FragmentIs DEF Fragments
<1>5. \A name : name # f.name => Of(more, name) = Of(rows, name)
  BY DEF Of, Entry
<1> HIDE DEF f, rows, more
<1>6. ASSUME NEW name \in Names PROVE Begun(Of(more, name), name)
  <2>1. CASE name = f.name
    BY <1>1, <1>3, <1>4, <2>1 DEF Begun
  <2>2. CASE name # f.name
    BY <1>2, <1>5, <2>2 DEF Laid
  <2> QED
    BY <2>1, <2>2
<1>7. Laid(more)
  BY <1>6 DEF Laid
<1> QED
  BY <1>7 DEF more, rows

\* Another process that has written has nothing in the namespace of the entry: it would
\* have taken its key.
LEMMA RecordApart ==
  ASSUME HistoryInv, NEW p \in Processes, pc[p] = "record", NEW q \in Others(p),
         conn[q].lock = "written", ~FileBusy(p), ~KeyPending(p, Entry(p)),
         ~KeyTaken(conn[p].view.rows, Entry(p))
  PROVE  \A t \in Own(q) : t.namespace # Fragment(p).name
<1> DEFINE f == Fragment(p)
           rows == conn[p].view.rows
           more == conn[q].view.rows
<1>1. /\ WellFormed(scenario) /\ conn[p].lock = "written" /\ q \in Processes /\ p # q
      /\ scenario.dialect \in {"sqlite", "postgres"} /\ SessionsInv /\ idx[p] \in Nat
      /\ db.rows \subseteq rows /\ db.rows \subseteq more
  BY HereSound DEF HistoryInv, SessionsInv, HoldsSound, PlaceSound, ViewsSound, Others
<1>2. scenario.dialect = "postgres"
  BY <1>1 DEF FileBusy, Wrote
<1>3. ~KeyTaken(more \ db.rows, Entry(p))
  BY <1>1, <1>2, HereSound DEF KeyPending
<1> SUFFICES ASSUME NEW t \in Own(q), t.namespace = f.name PROVE FALSE
  OBVIOUS
<1>4. t \in more \ db.rows
  BY DEF Own
<1>5. \A r \in rows \ db.rows : r.namespace # f.name
  <2>1. Apart(p, q)
    BY <1>1, HistoryInvIs DEF HistoryParts
  <2> QED
    BY <1>1, <2>1 DEF Apart, Own
<1>6. Of(db.rows, f.name) = Of(rows, f.name)
  BY <1>1, <1>5 DEF Of
<1>7. Of(db.rows, f.name) = Lines(f.name, f.migrations, idx[p])
  BY <1>6, RecordGround
<1>8. more \in SUBSET Row /\ Laid(more)
  BY <1>1, HereSound, ViewLaid DEF Database
<1>9. PICK h : \E m \in Nat : Of(more, f.name) = Lines(f.name, h, m)
  BY <1>1, <1>8, LaidLines
<1>10. PICK u \in more \ db.rows : u.namespace = f.name /\ u.id = idx[p]
  <2> HIDE DEF f, more, rows
  <2> QED
    BY <1>1, <1>4, <1>7, <1>9, LinesGrow
<1> QED
  BY <1>3, <1>10 DEF KeyTaken, Entry

\* What p has seen, with its entry, after the step.
LEMMA RecordCounts ==
  ASSUME HistoryInv, NEW p \in Processes, SessionsInv', pc[p] = "record", scenario' = scenario,
         ~KeyTaken(conn[p].view.rows, Entry(p)),
         pc'[p] \in Migrating, pc'[p] # "record", step'[p] = 1,
         conn'[p].view = Enlarged(conn[p].view, Entry(p))
  PROVE  Counts(p)'
<1> DEFINE m0 == <<Fragment(p).name, Hash(p)>>
           rows == conn[p].view.rows
<1>1. Counts(p)
  BY DEF HistoryInv, MigrationSound, Migrating
<1>2. Migration' = Migration /\ Steps' = Steps
  BY SameScenario
<1>3. conn'[p].view.rows = rows \cup {Entry(p)} /\ conn'[p].view.applied = conn[p].view.applied
  BY DEF Enlarged, Data
<1>4. \A m : Recorded(rows \cup {Entry(p)}, m) <=>
               Recorded(rows, m) \/ (m[1] = Fragment(p).name /\ m[2] = Hash(p))
  BY DEF Recorded, Entry
<1>5. \A m \in Migration : m = <<m[1], m[2]>>
  <2> SUFFICES ASSUME NEW m \in Migration PROVE m = <<m[1], m[2]>>
    OBVIOUS
  <2>1. \E name, h : m = <<name, h>>
    <3>1. CASE m \in {<<"", h>> : h \in Range(scenario.legacy)}
      BY <3>1
    <3>2. CASE m \in Known
      <4>1. PICK q \in Processes : m \in Brought(q)
        BY <3>2 DEF Known
      <4>2. PICK f \in Range(Plan[q]) : m \in {<<f.name, h>> : h \in Range(f.migrations)}
        BY <4>1 DEF Brought
      <4> QED
        BY <4>2
    <3> QED
      BY <3>1, <3>2 DEF Migration
  <2> QED
    BY <2>1
<1>6. ~Recorded(rows, m0)
  BY RecordGround
<1>7. \A m \in Migration, k \in Steps : ~Half(p, m, k)'
  BY DEF Half, Steps
<1>8. \A m \in Migration, k \in Steps : Half(p, m, k) <=> m = m0
  BY DEF Half
<1>9. ASSUME NEW m \in Migration, NEW k \in Steps
      PROVE  conn[p].view.applied[<<m, k>>] =
               (IF Recorded(rows \cup {Entry(p)}, m) THEN 1 ELSE 0) + 0
  <2>1. conn[p].view.applied[<<m, k>>] =
          (IF Recorded(rows, m) THEN 1 ELSE 0) + (IF m = m0 THEN 1 ELSE 0)
    BY <1>1, <1>8 DEF Counts
  <2>2. Recorded(rows \cup {Entry(p)}, m) <=> Recorded(rows, m) \/ m = m0
    BY <1>4, <1>5
  <2>3. ~(Recorded(rows, m) /\ m = m0)
    BY <1>6
  <2> HIDE DEF m0, rows
  <2> QED
    BY <2>1, <2>2, <2>3
<1> QED
  BY <1>2, <1>3, <1>7, <1>9 DEF Counts, Recorded

\* The entry: it is the next one of its history, and nobody else has it.
LEMMA RecordHistory ==
  ASSUME HistoryInv, NEW p \in Processes, SessionsInv', Record(p)
  PROVE  HistoryInv'
<1> DEFINE after == Enlarged(conn[p].view, Entry(p))
           f == Fragment(p)
           rows == conn[p].view.rows
           more == rows \cup {Entry(p)}
<1>1. /\ pc[p] = "record" /\ Elsewhere(p) /\ step' = step /\ runs' = runs
      /\ set' = IF AtLast(p) THEN [set EXCEPT ![p] = set[p] + 1] ELSE set
      /\ idx' = [idx EXCEPT ![p] = idx[p] + 1]
      /\ \/ Failed(p)
         \/ /\ Worked(p, "written", after, RecordNext(p))
            /\ ~FileBusy(p)
            /\ ~KeyPending(p, Entry(p))
            /\ ~KeyTaken(rows, Entry(p))
  BY RecordStep DEF HistoryInv
<1>2. /\ TypeOK /\ scenario' = scenario /\ conn[p].lock = "written" /\ MigrationSound(p)
      /\ WellFormed(scenario) /\ set[p] \in DOMAIN Plan[p] /\ set[p] \in Nat \ {0}
      /\ idx[p] \in Nat /\ idx[p] + 1 \in DOMAIN f.migrations /\ step[p] = 1
  BY <1>1, HereSound DEF HistoryInv, SessionsInv, Elsewhere, HoldsSound, PlaceSound
<1>3. CASE Failed(p)
  <2>1. Hurt(p) /\ pc'[p] = "drop" /\ result'[p] \in {"err", "panic"}
    BY <1>2, <1>3 DEF Failed, TypeOK
  <2> QED
    BY <1>1, <2>1, FailedHistory
<1>4. CASE /\ Worked(p, "written", after, RecordNext(p))
           /\ ~FileBusy(p)
           /\ ~KeyPending(p, Entry(p))
           /\ ~KeyTaken(rows, Entry(p))
  <2>1. /\ Unmoved(p) /\ db' = db /\ conn'[p] = Link("open", "written", after)
        /\ pc'[p] = RecordNext(p) /\ result'[p] = result[p]
    BY <1>2, <1>4 DEF Worked, Unmoved, TypeOK
  <2>2. /\ conn'[p].lock = "written" /\ conn'[p].view = after
        /\ conn'[p].view.rows = more
        /\ Own(p)' \subseteq Own(p) \cup {Entry(p)}
    BY <2>1 DEF Link, Own, Enlarged, Data
  <2>3. /\ Migration' = Migration /\ Steps' = Steps /\ Plan' = Plan /\ Brought(p)' = Brought(p)
    BY <1>2, SameScenario
  <2>4. /\ DOMAIN Plan[p] = 1 .. Len(Plan[p]) /\ Len(Plan[p]) \in Nat
        /\ DOMAIN f.migrations = 1 .. Len(f.migrations)
    BY <1>2, FragmentIs
  <2>5. /\ set'[p] = (IF AtLast(p) THEN set[p] + 1 ELSE set[p])
        /\ idx'[p] = idx[p] + 1 /\ step'[p] = 1
    BY <1>1, <1>2 DEF TypeOK
  <2>6. pc'[p] = IF AtLast(p) THEN (IF set[p] < Len(Plan[p]) THEN "read" ELSE "commit") ELSE "apply"
    BY <2>1 DEF RecordNext, SetAfter
  <2>7. Counts(p)'
    BY <1>1, <1>2, <1>4, <2>2, <2>5, <2>6, RecordCounts DEF Migrating
  <2>8. Of(more, f.name) = Lines(f.name, f.migrations, idx[p] + 1)
    BY <1>1, <1>4, RecordGround
  <2>9. AtLast(p) => Arrived(Plan[p][set[p]], more)
    <3>1. AtLast(p) => Lines(f.name, f.migrations, Len(f.migrations)) \subseteq more
      <4> HIDE DEF more
      <4> QED
        BY <2>8 DEF AtLast, Of
    <3> QED
      BY <3>1 DEF Arrived, Fragment
  <2>10. \A n \in 1 .. set'[p] - 1 : n \in DOMAIN Plan[p] /\ Arrived(Plan[p][n], more)
    <3>1. \A n \in 1 .. set[p] - 1 : n \in DOMAIN Plan[p] /\ Arrived(Plan[p][n], more)
      BY <1>1, <1>2 DEF MigrationSound, Migrating, Arrived
    <3> HIDE DEF more
    <3> QED
      BY <1>2, <2>5, <2>9, <3>1
  <2>11. MigrationSound(p)'
    <3>1. pc'[p] \in {"apply", "record"} =>
            (Of(conn[p].view.rows, Fragment(p).name) = Lines(Fragment(p).name, Fragment(p).migrations, idx[p]))'
      <4> SUFFICES ASSUME ~AtLast(p)
                   PROVE (Of(conn[p].view.rows, Fragment(p).name) =
                            Lines(Fragment(p).name, Fragment(p).migrations, idx[p]))'
        BY <2>6
      <4>1. Fragment(p)' = f
        BY <2>3, <2>5 DEF Fragment
      <4> QED
        BY <2>2, <2>5, <2>8, <4>1
    <3>2. pc'[p] = "commit" => set'[p] = Len(Plan[p]) + 1
      BY <1>2, <2>4, <2>5, <2>6
    <3>3. \A r \in Own(p)' : <<r.namespace, r.hash>> \in Brought(p)'
      <4>1. \A r \in Own(p) : <<r.namespace, r.hash>> \in Brought(p)
        BY <1>1, <1>2 DEF MigrationSound, Migrating
      <4>2. <<Entry(p).namespace, Entry(p).hash>> \in Brought(p)
        BY <1>2, EntryIs DEF Entry
      <4> QED
        BY <2>2, <2>3, <4>1, <4>2
    <3>4. (\A n \in 1 .. set[p] - 1 : n \in DOMAIN Plan[p] /\ Arrived(Plan[p][n], conn[p].view.rows))'
      BY <2>2, <2>3, <2>10 DEF Arrived
    <3> QED
      BY <2>3, <2>7, <3>1, <3>2, <3>3, <3>4 DEF MigrationSound
  <2>12. Laid(conn[p].view.rows)'
    <3>1. Laid(more)
      BY <1>1, <1>4, RecordLaid
    <3> HIDE DEF more
    <3> QED
      BY <1>2, <2>2, <3>1, LaidNext
  <2>13. UpgradeSound(p)'
    BY <2>6 DEF UpgradeSound, Upgrading
  <2>14. ProcessHistory(p)'
    BY <2>11, <2>12, <2>13 DEF ProcessHistory
  <2>15. \A q \in Others(p) : Apart(p, q)'
    <3> SUFFICES ASSUME NEW q \in Others(p), conn[q].lock = "written"
                 PROVE  \A r \in Own(p) \cup {Entry(p)}, t \in Own(q) : r.namespace # t.namespace
      BY <2>1, <2>2 DEF Apart, Unmoved, Own
    <3>1. Apart(p, q)
      BY HistoryInvIs DEF HistoryParts, Others
    <3>2. \A t \in Own(q) : t.namespace # f.name
      BY <1>1, <1>4, RecordApart
    <3> QED
      BY <1>2, <3>1, <3>2 DEF Apart, Entry
  <2> QED
    BY <1>1, <2>1, <2>14, <2>15, UnmovedHistory
<1> QED
  BY <1>1, <1>3, <1>4

-----------------------------------------------------------------------------
(* The steps that make something durable *)

\* What everybody finds after such a step.
LEMMA SettledViews ==
  ASSUME NEW p \in Processes, NEW after, Settled(p, after)
  PROVE  /\ db' = after /\ conn'[p].lock = "none"
         /\ \A q \in Others(p) : conn'[q].lock = conn[q].lock /\ conn'[q].view = RebasedView(q, after)
<1>1. db' = after /\ conn'[p] = Link("none", "none", after)
  BY Zenon DEF Settled
<1>2. \A q \in Others(p) : conn'[q] = Link(conn[q].txn, conn[q].lock, RebasedView(q, after))
  BY Zenon DEF Settled
<1>3. \A txn, lock, view : Link(txn, lock, view).lock = lock /\ Link(txn, lock, view).view = view
  BY DEF Link
<1> QED
  BY <1>1, <1>2, <1>3

\* It is enough to look at the database and at the other processes.
LEMMA SettledHistory ==
  ASSUME HistoryInv, NEW p \in Processes, Elsewhere(p), NEW after, Settled(p, after),
         SessionsInv', DatabaseSound',
         pc'[p] \notin Upgrading \cup Migrating \cup {"begin_upgrade"},
         \A q \in Others(p) :
           ProcessHistory(q)' /\ (conn[q].lock = "written" => Own(q)' \subseteq Own(q))
  PROVE  HistoryInv'
<1>1. HistoryParts
  BY HistoryInvIs
<1>2. Regular(scenario)'
  BY <1>1 DEF HistoryParts, Elsewhere, Regular
<1>3. conn'[p].lock = "none" /\ \A q \in Others(p) : conn'[q].lock = conn[q].lock
  BY SettledViews
<1>4. ProcessHistory(p)'
  <2>1. UpgradeSound(p)' /\ MigrationSound(p)'
    BY DEF UpgradeSound, MigrationSound, Upgrading, Migrating
  <2> QED
    BY <1>3, <2>1 DEF ProcessHistory
<1>5. \A q, r \in Processes : q # r => Apart(q, r)'
  <2>1. ASSUME NEW q \in Others(p), NEW r \in Others(p), q # r PROVE Apart(q, r)'
    BY <1>1, <1>3, <2>1, SameApart DEF HistoryParts, Others
  <2>2. ASSUME NEW q \in Others(p) PROVE Apart(q, p)' /\ Apart(p, q)'
    BY <1>3 DEF Apart
  <2> QED
    BY <2>1, <2>2 DEF Others
<1>6. HistoryParts'
  BY <1>2, <1>4, <1>5 DEF HistoryParts, Others
<1> QED
  BY <1>6, HistoryInvIs, PTL

\* Another process that holds no lock finds what is durable then.
LEMMA WithoutLock ==
  ASSUME HistoryInv, NEW p \in Processes, Elsewhere(p), NEW after, Settled(p, after),
         DatabaseSound', db.rows \subseteq after.rows, NEW q \in Others(p), conn[q].lock = "none"
  PROVE  ProcessHistory(q)'
<1>1. /\ q \in Processes /\ scenario' = scenario /\ db' = after
      /\ pc'[q] = pc[q] /\ set'[q] = set[q] /\ idx'[q] = idx[q] /\ step'[q] = step[q]
      /\ UpgradeSound(q) /\ MigrationSound(q) /\ HoldsSound(q) /\ conn[q].view = db
  BY HereSound DEF HistoryInv, SessionsInv, ViewsSound, Others, Elsewhere, Settled
<1>2. conn'[q].lock = "none" /\ conn'[q].view = after
  BY SettledViews DEF RebasedView
<1>3. Migration' = Migration /\ Steps' = Steps /\ Plan' = Plan /\ Brought(q)' = Brought(q)
  BY <1>1, SameScenario
<1>4. pc[q] \notin {"apply", "record"} /\ (pc[q] \in Upgrading => pc[q] = "rename")
  BY <1>1 DEF HoldsSound, Upgrading, Migrating
<1>5. UpgradeSound(q)'
  BY <1>1, <1>2, <1>4 DEF UpgradeSound, Upgrading
<1>6. ASSUME pc[q] \in Migrating PROVE MigrationSound(q)'
  <2>1. \A m, k : ~Half(q, m, k)'
    BY <1>1, <1>4 DEF Half
  <2>2. Counts(q)'
    <3> SUFFICES ASSUME NEW m \in Migration, NEW k \in Steps
                 PROVE  db'.applied[<<m, k>>] = (IF Recorded(db'.rows, m) THEN 1 ELSE 0) + 0
      BY <1>1, <1>2, <1>3, <2>1 DEF Counts, Recorded
    <3>1. m \in Migration' /\ k \in Steps'
      BY <1>3
    <3>2. AppliedOnceAndRecorded'
      BY DEF DatabaseSound
    <3>3. db'.applied[<<m, k>>] = IF Recorded(db.rows, m)' THEN 1 ELSE 0
      BY <3>1, <3>2 DEF AppliedOnceAndRecorded, Recorded
    <3> QED
      BY <3>3 DEF Recorded
  <2>3. Own(q)' = {}
    BY <1>1, <1>2 DEF Own
  <2>4. \A n \in 1 .. set[q] - 1 : n \in DOMAIN Plan[q] /\ Arrived(Plan[q][n], after.rows)
    BY <1>1, <1>6 DEF MigrationSound, Arrived
  <2>5. (\A n \in 1 .. set[q] - 1 : n \in DOMAIN Plan[q] /\ Arrived(Plan[q][n], conn[q].view.rows))'
    BY <1>1, <1>2, <1>3, <2>4 DEF Arrived
  <2>6. (pc[q] = "commit" => set[q] = Len(Plan[q]) + 1)'
    BY <1>1, <1>3, <1>6 DEF MigrationSound
  <2>7. pc'[q] \notin {"apply", "record"}
    BY <1>1, <1>4
  <2> QED
    BY <2>2, <2>3, <2>5, <2>6, <2>7 DEF MigrationSound
<1>7. MigrationSound(q)'
  BY <1>1, <1>6 DEF MigrationSound, Migrating
<1> QED
  BY <1>2, <1>5, <1>7 DEF ProcessHistory

\* The ledger is created where it is missing.
LEMMA CreateHistory ==
  ASSUME HistoryInv, NEW p \in Processes, SessionsInv', CreateLedger(p)
  PROVE  HistoryInv'
<1> DEFINE after == Data("current", db.rows, db.renamed, db.applied)
<1>1. /\ Elsewhere(p) /\ result'[p] \in {result[p], "err"}
      /\ \/ /\ Unmoved(p) /\ conn'[p] = Link("none", "none", db)
            /\ pc'[p] = "idle" \/ (pc'[p] = "probe" /\ db.ledger # "absent")
         \/ db.ledger = "absent" /\ pc'[p] = "probe" /\ Settled(p, after)
  BY CreateStep DEF HistoryInv
<1>2. CASE /\ Unmoved(p) /\ conn'[p] = Link("none", "none", db)
           /\ pc'[p] = "idle" \/ (pc'[p] = "probe" /\ db.ledger # "absent")
  BY <1>1, <1>2, QuietHistory DEF Upgrading, Migrating
<1>3. CASE db.ledger = "absent" /\ pc'[p] = "probe" /\ Settled(p, after)
  <2>1. DatabaseSound /\ scenario' = scenario /\ db' = after
    BY <1>1, <1>3 DEF HistoryInv, Elsewhere, Settled
  <2>2. /\ db'.rows = db.rows /\ db'.applied = db.applied /\ db'.renamed = {}
        /\ db'.ledger # "legacy"
    BY <2>1 DEF Data, DatabaseSound
  <2>3. \A q \in Processes : result'[q] = "ok" => result[q] = "ok"
    BY <1>1 DEF Elsewhere, Others
  <2>4. DatabaseSound'
    BY <2>1, <2>2, <2>3, SameDatabase DEF DatabaseSound
  <2>5. \A q \in Others(p) : conn[q].lock = "none"
    BY <1>3 DEF HistoryInv, SessionsInv, LedgerThere, Others
  <2>6. db.rows \subseteq after.rows
    BY DEF Data
  <2> HIDE DEF after
  <2>7. \A q \in Others(p) : ProcessHistory(q)'
    BY <1>1, <1>3, <2>4, <2>5, <2>6, WithoutLock
  <2>8. pc'[p] \notin Upgrading \cup Migrating \cup {"begin_upgrade"}
    BY <1>3 DEF Upgrading, Migrating
  <2> QED
    BY <1>1, <1>3, <2>4, <2>5, <2>7, <2>8, SettledHistory
<1> QED
  BY <1>1, <1>2, <1>3

\* A legacy ledger in which no id is there twice has the default namespace only: its
\* first row has the id 0, and so would any other history.
LEMMA FlattenedSame ==
  ASSUME HistoryInv, scenario.ledger = "legacy", UniqueIds(db.rows)
  PROVE  Flattened(db.rows) = db.rows
<1>1. /\ WellFormed(scenario) /\ db.rows \in SUBSET Row /\ Laid(db.rows)
      /\ LegacyRows \subseteq db.rows /\ scenario.legacy # <<>>
  BY DEF HistoryInv, SessionsInv, TypeOK, Database, DatabaseSound, Regular
<1>2. PICK n \in Nat : n = Len(scenario.legacy) /\ n >= 1
  BY <1>1 DEF WellFormed
<1> DEFINE first == [namespace |-> "", id |-> 0, hash |-> scenario.legacy[1]]
<1>3. first \in db.rows
  <2>1. 1 \in 1 .. n /\ 1 - 1 = 0
    BY <1>2
  <2> QED
    BY <1>1, <1>2, <2>1, LineIs DEF LegacyRows
<1>4. ASSUME NEW r \in db.rows PROVE r.namespace = ""
  <2> DEFINE name == r.namespace
  <2>1. PICK h : \E m \in Nat : Of(db.rows, name) = Lines(name, h, m)
    BY <1>1, LaidLines
  <2>2. PICK m \in Nat : Of(db.rows, name) = Lines(name, h, m)
    BY <2>1
  <2>3. r \in Lines(name, h, m)
    BY <2>2 DEF Of
  <2>4. r.id \in 0 .. m - 1
    <3> HIDE DEF name
    <3> QED
      BY <2>3, LineKey
  <2>5. 1 \in 1 .. m /\ 1 - 1 = 0
    BY <2>4
  <2> DEFINE t == [namespace |-> name, id |-> 0, hash |-> h[1]]
  <2>6. t \in Lines(name, h, m)
    BY <2>5, LineIs
  <2>7. t \in db.rows
    <3> HIDE DEF t
    <3> QED
      BY <2>2, <2>6 DEF Of
  <2>8. t = first
    BY <1>3, <2>7 DEF UniqueIds
  <2> QED
    BY <2>8
<1>5. \A r \in db.rows : [r EXCEPT !.namespace = ""] = r
  BY <1>1, <1>4 DEF Row
<1> QED
  BY <1>5 DEF Flattened

\* The commit of the upgrade: it has changed the form of the ledger, and was alone.
LEMMA CommitUpgradeHistory ==
  ASSUME HistoryInv, NEW p \in Processes, SessionsInv', CommitUpgrade(p)
  PROVE  HistoryInv'
<1> DEFINE v == conn[p].view
<1>1. /\ Elsewhere(p) /\ scenario' = scenario
      /\ \/ Hurt(p) /\ pc'[p] = "drop" /\ result'[p] = "err"
         \/ /\ Settled(p, v) /\ ~CommitBusy(p)
            /\ \/ pc'[p] = "end_upgrade" /\ result'[p] = result[p]
               \/ Commit(p)
  BY CommitsStep DEF HistoryInv, Elsewhere
<1>2. pc[p] = "commit_upgrade" /\ ~Commit(p)
  BY DEF CommitUpgrade, Commit, At
<1>3. /\ SessionsInv /\ DatabaseSound /\ UpgradeSound(p)
      /\ conn[p].lock = "exclusive" /\ scenario.dialect \in {"sqlite", "postgres"}
  BY <1>2, HereSound DEF HistoryInv, SessionsInv, HoldsSound, Upgrading
<1>4. CASE Hurt(p) /\ pc'[p] = "drop" /\ result'[p] = "err"
  BY <1>1, <1>4, FailedHistory
<1>5. CASE Settled(p, v) /\ ~CommitBusy(p) /\ pc'[p] = "end_upgrade" /\ result'[p] = result[p]
  <2>1. \A q \in Others(p) : conn[q].lock = "none"
    BY <1>3, <1>5 DEF CommitBusy, Wrote, SessionsInv, LocksSound, Others
  <2>2. /\ scenario.ledger = "legacy" /\ v.applied = db.applied /\ v.renamed = {}
        /\ UniqueIds(db.rows) /\ v.rows = Flattened(db.rows)
    BY <1>2, <1>3 DEF UpgradeSound, Upgrading
  <2>3. v.rows = db.rows
    BY <2>2, FlattenedSame
  <2>4. db' = v
    BY <1>5, SettledViews
  <2>5. \A q \in Processes : result'[q] = "ok" => result[q] = "ok"
    BY <1>1, <1>5 DEF Elsewhere, Others
  <2>6. DatabaseSound'
    BY <1>1, <1>3, <2>2, <2>3, <2>4, <2>5, SameDatabase DEF DatabaseSound
  <2>7. \A q \in Others(p) : ProcessHistory(q)'
    BY <1>1, <1>5, <2>1, <2>3, <2>6, WithoutLock
  <2>8. pc'[p] \notin Upgrading \cup Migrating \cup {"begin_upgrade"}
    BY <1>5 DEF Upgrading, Migrating
  <2> HIDE DEF v
  <2> QED
    BY <1>1, <1>5, <2>1, <2>6, <2>7, <2>8, SettledHistory
<1> QED
  BY <1>1, <1>2, <1>4, <1>5

\* A transaction of PostgreSQL that goes on while p commits: what it has done itself
\* stays on top of what p has made durable, in other namespaces.
LEMMA Overtaken ==
  ASSUME HistoryInv, NEW p \in Processes, pc[p] = "commit", Elsewhere(p), SessionsInv',
         Settled(p, conn[p].view), conn[p].lock = "written",
         NEW q \in Others(p), conn[q].lock \in {"shared", "written"}
  PROVE  ProcessHistory(q)' /\ Own(q)' \subseteq Own(q)
<1> DEFINE base == db.rows
           rows == conn[p].view.rows
           more == conn[q].view.rows
           both == rows \cup (more \ base)
<1>1. /\ q \in Processes /\ q # p /\ SessionsInv /\ WellFormed(scenario) /\ scenario' = scenario
      /\ pc'[q] = pc[q] /\ set'[q] = set[q] /\ idx'[q] = idx[q] /\ step'[q] = step[q]
      /\ ProcessHistory(q) /\ Apart(p, q) /\ MigrationSound(p) /\ DatabaseSound
  BY HistoryInvIs DEF HistoryInv, HistoryParts, SessionsInv, Elsewhere, Others
<1>2. /\ HoldsSound(q) /\ PlaceSound(q)
      /\ conn[q].view \in Database /\ conn[p].view \in Database /\ db \in Database
      /\ base \subseteq rows /\ base \subseteq more
      /\ conn[q].lock = "shared" => more = base
  BY <1>1, HereSound DEF LinkSound, Extends
<1>3. /\ db' = conn[p].view /\ conn'[q].lock = conn[q].lock
      /\ conn'[q].view = Merged(conn[q].view, db, conn[p].view)
  BY SettledViews DEF RebasedView
<1>4. db'.rows = rows /\ conn'[q].view.rows = both
  BY <1>3 DEF Merged, Data
<1>5. Separate(rows, more, base)
  <2>1. CASE conn[q].lock = "shared"
    BY <1>2, <2>1 DEF Separate
  <2>2. CASE conn[q].lock = "written"
    BY <1>1, <2>2 DEF Apart, Own, Separate
  <2> QED
    BY <2>1, <2>2
<1>6. Own(q)' \subseteq Own(q)
  BY <1>4 DEF Own
<1>7. rows \in SUBSET Row /\ Laid(rows)
  BY <1>2, ViewLaid DEF Database
<1>8. ASSUME conn'[q].lock = "written" PROVE Laid(conn[q].view.rows)'
  <2>1. Laid(more)
    BY <1>1, <1>3, <1>8 DEF ProcessHistory
  <2>2. Laid(both)
    <3> HIDE DEF base, rows, more
    <3> QED
      BY <1>2, <1>5, <1>7, <2>1, MergedLaid
  <2> HIDE DEF both
  <2> QED
    BY <1>1, <1>4, <2>2, LaidNext
<1>9. pc[q] \notin Upgrading \cup {"begin_upgrade"}
  BY <1>2 DEF HoldsSound, Upgrading
<1>10. UpgradeSound(q)'
  BY <1>1, <1>9 DEF UpgradeSound, Upgrading
<1>11. ASSUME pc[q] \in Migrating PROVE MigrationSound(q)'
  <2>1. /\ Migration' = Migration /\ Steps' = Steps /\ Plan' = Plan /\ Brought(q)' = Brought(q)
    BY <1>1, SameScenario
  <2>2. Fragment(q)' = Fragment(q)
    BY <1>1, <2>1 DEF Fragment
  <2>3. Hash(q)' = Hash(q) /\ Entry(q)' = Entry(q)
    BY <1>1, <2>2 DEF Hash, Entry
  <2>4. Counts(q)'
    <3>1. Counts(q) /\ Counts(p) /\ AppliedOnceAndRecorded
      BY <1>1, <1>11 DEF ProcessHistory, MigrationSound, DatabaseSound, Migrating
    <3>2. \A m, k : Half(q, m, k)' <=> Half(q, m, k)
      BY <1>1, <2>2, <2>3 DEF Half
    <3>3. \A m, k : ~Half(p, m, k)
      BY DEF Half
    <3>4. ASSUME NEW m \in Migration, NEW k \in Steps
          PROVE  conn'[q].view.applied[<<m, k>>] = One(Recorded(both, m)) + One(Half(q, m, k))
      <4> DEFINE e == <<m, k>>
      <4>1. conn[q].view.applied[e] = One(Recorded(more, m)) + One(Half(q, m, k))
        BY <3>1 DEF Counts, One
      <4>2. conn[p].view.applied[e] = One(Recorded(rows, m))
        BY <3>1, <3>3 DEF Counts, One
      <4>3. db.applied[e] = One(Recorded(base, m))
        BY <3>1 DEF AppliedOnceAndRecorded, One
      <4>4. conn'[q].view.applied[e] =
              conn[p].view.applied[e] + (conn[q].view.applied[e] - db.applied[e])
        BY <1>3 DEF Merged, Data
      <4>5. One(Recorded(both, m)) =
              One(Recorded(rows, m)) + (One(Recorded(more, m)) - One(Recorded(base, m)))
        <5> HIDE DEF base, rows, more
        <5> QED
          BY <1>2, <1>5, MergedRecorded
      <4>6. \A b : One(b) \in {0, 1}
        BY DEF One
      <4>7. conn'[q].view.applied[e] = One(Recorded(both, m)) + One(Half(q, m, k))
        <5> HIDE DEF e, base, rows, more, both
        <5> QED
          BY <4>1, <4>2, <4>3, <4>4, <4>5, <4>6
      <4> QED
        BY <4>7
    <3> HIDE DEF both
    <3> QED
      BY <1>4, <2>1, <3>2, <3>4 DEF Counts, Recorded, One
  <2>5. \A n \in 1 .. set[q] - 1 : n \in DOMAIN Plan[q] /\ Arrived(Plan[q][n], both)
    BY <1>1, <1>2, <1>11 DEF ProcessHistory, MigrationSound, Arrived
  <2>6. (\A n \in 1 .. set[q] - 1 : n \in DOMAIN Plan[q] /\ Arrived(Plan[q][n], conn[q].view.rows))'
    BY <1>1, <1>4, <2>1, <2>5 DEF Arrived
  <2>7. \A r \in Own(q)' : <<r.namespace, r.hash>> \in Brought(q)'
    BY <1>1, <1>6, <1>11, <2>1 DEF ProcessHistory, MigrationSound
  <2>8. ASSUME pc[q] \in {"apply", "record"}
        PROVE  \/ Of(both, Fragment(q).name) = Lines(Fragment(q).name, Fragment(q).migrations, idx[q])
               \/ KeyTaken(rows, Entry(q))
    <3> DEFINE e == Entry(q)
               h == Fragment(q).migrations
    <3>1. Of(more, e.namespace) = Lines(e.namespace, h, e.id) \/ KeyTaken(base, e)
      BY <1>1, <1>11, <2>8 DEF ProcessHistory, MigrationSound, Entry
    <3>2. KeyTaken(base, e) => KeyTaken(rows, e)
      BY <1>2 DEF KeyTaken
    <3>3. e.id \in Nat /\ e.id = idx[q] /\ e.namespace = Fragment(q).name
      BY <1>2 DEF PlaceSound, Entry
    <3>4. ASSUME Of(more, e.namespace) = Lines(e.namespace, h, e.id)
          PROVE  Of(both, e.namespace) = Lines(e.namespace, h, e.id) \/ KeyTaken(rows, e)
      <4>1. both = rows \cup (more \ base)
        OBVIOUS
      <4> HIDE DEF base, rows, more, both, e, h
      <4> QED
        BY <1>1, <1>2, <1>5, <1>7, <3>3, <3>4, <4>1, MergedContinues
    <3> QED
      BY <3>1, <3>2, <3>3, <3>4
  <2>9. (pc[q] \in {"apply", "record"} =>
          \/ Of(conn[q].view.rows, Fragment(q).name) =
               Lines(Fragment(q).name, Fragment(q).migrations, idx[q])
          \/ KeyTaken(db.rows, Entry(q)))'
    <3> HIDE DEF both
    <3> QED
      BY <1>1, <1>4, <2>2, <2>3, <2>8 DEF KeyTaken
  <2>10. (pc[q] = "commit" => set[q] = Len(Plan[q]) + 1)'
    BY <1>1, <1>11, <2>1 DEF ProcessHistory, MigrationSound
  <2> QED
    BY <2>4, <2>6, <2>7, <2>9, <2>10 DEF MigrationSound
<1>12. MigrationSound(q)'
  BY <1>1, <1>11 DEF MigrationSound, Migrating
<1> QED
  BY <1>6, <1>8, <1>10, <1>12 DEF ProcessHistory

\* A run that is to commit has seen or written all that it brings.
LEMMA RunArrived ==
  ASSUME HistoryInv, NEW p \in Processes, pc[p] = "commit", NEW f \in Range(Plan[p])
  PROVE  Arrived(f, conn[p].view.rows)
<1>1. WellFormed(scenario) /\ MigrationSound(p)
  BY DEF HistoryInv, SessionsInv
<1>2. PICK n \in DOMAIN Plan[p] : f = Plan[p][n]
  BY DEF Range
<1>3. Plan[p] \in Seq(Range(Plan[p]))
  BY <1>1 DEF WellFormed, Plan
<1>4. n \in 1 .. Len(Plan[p]) /\ Len(Plan[p]) \in Nat
  BY <1>2, <1>3
<1>5. set[p] = Len(Plan[p]) + 1
  BY <1>1 DEF MigrationSound, Migrating
<1>6. n \in 1 .. set[p] - 1
  BY <1>4, <1>5
<1> QED
  BY <1>1, <1>2, <1>6 DEF MigrationSound, Migrating

\* The database after the commit of a run: with what the run has recorded.
LEMMA CommittedDatabase ==
  ASSUME HistoryInv, NEW p \in Processes, pc[p] = "commit", Elsewhere(p),
         Settled(p, conn[p].view), result'[p] = "ok"
  PROVE  DatabaseSound'
<1> DEFINE v == conn[p].view
<1>1. /\ SessionsInv /\ WellFormed(scenario) /\ scenario' = scenario /\ DatabaseSound
      /\ MigrationSound(p) /\ conn[p].lock # "exclusive" /\ db' = v
      /\ LinkSound(conn[p], db) /\ conn[p].lock \in {"none", "shared", "written"} /\ v \in Database
  BY HereSound, SettledViews DEF HistoryInv, SessionsInv, Elsewhere, HoldsSound, Migrating, TypeOK
<1>2. v = db \/ Extends(v, db)
  BY <1>1 DEF LinkSound
<1>3. /\ db.rows \subseteq v.rows /\ v.renamed = {} /\ LegacyRows \subseteq v.rows
      /\ scenario.ledger # "legacy" => v.ledger # "legacy"
  BY <1>1, <1>2 DEF Extends, DatabaseSound
<1>4. /\ LegacyRows' = LegacyRows /\ Migration' = Migration /\ Steps' = Steps /\ Plan' = Plan
  BY <1>1, SameScenario
<1>5. Laid(db.rows)'
  <2>1. Laid(v.rows)
    BY <1>1, ViewLaid
  <2> QED
    BY <1>1, <2>1, LaidNext
<1>6. AppliedOnceAndRecorded'
  <2>1. \A m, k : ~Half(p, m, k)
    BY DEF Half
  <2>2. Counts(p)
    BY <1>1 DEF MigrationSound, Migrating
  <2>3. ASSUME NEW m \in Migration, NEW k \in Steps
        PROVE  v.applied[<<m, k>>] = One(Recorded(v.rows, m))
    BY <2>1, <2>2 DEF Counts, One
  <2>4. \A m \in Migration, k \in Steps : db'.applied[<<m, k>>] = One(Recorded(db'.rows, m))
    <3> HIDE DEF v
    <3> QED
      BY <1>1, <2>3
  <2> QED
    BY <1>4, <2>4 DEF AppliedOnceAndRecorded, Recorded, One
<1>7. \A f \in Range(Plan[p]) : Arrived(f, v.rows)
  BY RunArrived
<1>8. ASSUME NEW q \in Processes, result'[q] = "ok", NEW f \in Range(Plan[q])
      PROVE  Arrived(f, v.rows)
  <2>1. CASE q = p
    BY <1>7, <2>1
  <2>2. CASE q # p
    <3>1. result[q] = "ok"
      BY <1>8, <2>2 DEF Elsewhere, Others
    <3>2. Arrived(f, db.rows)
      BY <1>1, <1>8, <3>1 DEF DatabaseSound
    <3> QED
      BY <1>3, <3>2 DEF Arrived
  <2> QED
    BY <2>1, <2>2
<1>9. (\A q \in Processes : result[q] = "ok" => \A f \in Range(Plan[q]) : Arrived(f, db.rows))'
  <2> HIDE DEF v
  <2> QED
    BY <1>1, <1>4, <1>8 DEF Arrived
<1> HIDE DEF v
<1> QED
  BY <1>1, <1>3, <1>4, <1>5, <1>6, <1>9 DEF DatabaseSound

\* The commit of a run.
LEMMA CommitHistory ==
  ASSUME HistoryInv, NEW p \in Processes, SessionsInv', Commit(p)
  PROVE  HistoryInv'
<1> DEFINE v == conn[p].view
<1>1. /\ Elsewhere(p)
      /\ \/ Hurt(p) /\ pc'[p] = "drop" /\ result'[p] = "err"
         \/ /\ Settled(p, v) /\ ~CommitBusy(p)
            /\ CommitUpgrade(p) \/ (pc'[p] = "drop" /\ result'[p] = "ok")
  BY CommitsStep DEF HistoryInv
<1>2. pc[p] = "commit" /\ ~CommitUpgrade(p)
  BY DEF CommitUpgrade, Commit, At
<1>3. /\ SessionsInv /\ TypeOK /\ ViewsSound
      /\ conn[p].lock \in {"none", "shared", "written"} /\ LinkSound(conn[p], db)
      /\ scenario.dialect \in {"sqlite", "postgres"}
  BY <1>2, HereSound DEF HistoryInv, HoldsSound, Migrating, TypeOK
<1>4. CASE Hurt(p) /\ pc'[p] = "drop" /\ result'[p] = "err"
  BY <1>1, <1>4, FailedHistory
<1>5. CASE Settled(p, v) /\ ~CommitBusy(p) /\ pc'[p] = "drop" /\ result'[p] = "ok"
  <2>1. DatabaseSound'
    BY <1>1, <1>2, <1>5, CommittedDatabase
  <2>2. pc'[p] \notin Upgrading \cup Migrating \cup {"begin_upgrade"}
    BY <1>5 DEF Upgrading, Migrating
  <2>3. CASE v = db
    <3>1. \A q \in Others(p) : conn'[q] = conn[q]
      <4> TAKE q \in Others(p)
      <4>1. q \in Processes
        BY DEF Others
      <4>2. conn'[q] = Link(conn[q].txn, conn[q].lock, RebasedView(q, v))
        BY <1>5 DEF Settled
      <4> QED
        BY <1>3, <2>3, <4>1, <4>2, RebasedViewSame, Typed
    <3>2. Unmoved(p) /\ conn'[p].lock = "none"
      BY <1>5, <2>3, <3>1, SettledViews DEF Settled, Unmoved
    <3>3. UpgradeSound(p)' /\ MigrationSound(p)'
      BY <2>2 DEF UpgradeSound, MigrationSound, Upgrading, Migrating
    <3>4. ProcessHistory(p)' /\ \A q \in Others(p) : Apart(p, q)'
      BY <3>2, <3>3 DEF ProcessHistory, Apart
    <3> QED
      BY <1>1, <2>1, <3>2, <3>4, UnmovedParts
  <2>4. CASE v # db
    <3>1. conn[p].lock = "written" /\ db.rows \subseteq v.rows
      BY <1>3, <2>4 DEF LinkSound, Extends
    <3>2. ASSUME NEW q \in Others(p)
          PROVE  ProcessHistory(q)' /\ (conn[q].lock = "written" => Own(q)' \subseteq Own(q))
      <4>1. q \in Processes /\ q # p /\ conn[q].lock \in {"none", "shared", "written", "exclusive"}
        BY <1>3 DEF Others, TypeOK
      <4>2. conn[q].lock # "exclusive"
        BY <1>3, <1>5, <3>1, <4>1 DEF SessionsInv, LocksSound, CommitBusy, Wrote
      <4>3. CASE conn[q].lock = "none"
        BY <1>1, <1>5, <2>1, <3>1, <4>3, WithoutLock
      <4>4. CASE conn[q].lock \in {"shared", "written"}
        BY <1>1, <1>2, <1>5, <3>1, <4>4, Overtaken
      <4> QED
        BY <4>1, <4>2, <4>3, <4>4
    <3> HIDE DEF v
    <3> QED
      BY <1>1, <1>5, <2>1, <2>2, <3>2, SettledHistory
  <2> QED
    BY <2>3, <2>4
<1> QED
  BY <1>1, <1>2, <1>4, <1>5

-----------------------------------------------------------------------------
(* The theorems *)

\* What a process brings and finds is regular (Regular), and the probe is reliable.
Regularity == ProbeReliable /\ \A s \in Scenarios : Regular(s)

\* A step that changes nothing.
LEMMA UnchangedHistory ==
  ASSUME HistoryInv, UNCHANGED vars
  PROVE  HistoryInv'
<1>1. /\ scenario' = scenario /\ db' = db /\ conn' = conn /\ pc' = pc /\ set' = set
      /\ idx' = idx /\ step' = step /\ result' = result
  BY DEF vars
<1>2. HistoryParts
  BY HistoryInvIs
<1>3. SessionsInv' /\ Regular(scenario)'
  BY <1>1, <1>2, Unchanged DEF HistoryParts, Regular
<1>4. DatabaseSound'
  BY <1>1, <1>2, SameDatabase DEF HistoryParts, DatabaseSound
<1>5. \A q \in Processes : ProcessHistory(q)'
  BY <1>1, <1>2, SameProcess DEF HistoryParts
<1>6. \A q, r \in Processes : q # r => Apart(q, r)'
  BY <1>1, <1>2 DEF HistoryParts, Apart, Own
<1>7. HistoryParts'
  BY <1>3, <1>4, <1>5, <1>6 DEF HistoryParts
<1> QED
  BY <1>7, HistoryInvIs, PTL

\* Every step of a process keeps the invariant.
LEMMA HistoryNext ==
  ASSUME HistoryInv, ProbeReliable, SessionsInv', Next
  PROVE  HistoryInv'
<1>1. CASE Finished
  BY <1>1, UnchangedHistory DEF Finished
<1>2. ASSUME NEW p \in Processes, Start(p) \/ Ensure(p) \/ Run(p) \/ Crash(p)
      PROVE  HistoryInv'
  <2>1. CASE Start(p) \/ Probe(p) \/ EndUpgrade(p) \/ Drop(p) \/ Crash(p)
    BY <2>1, QuietStepHistory
  <2>2. CASE CreateLedger(p)
    BY <2>2, CreateHistory
  <2>3. CASE BeginUpgrade(p) \/ Begin(p)
    BY <2>3, BeginsHistory
  <2>4. CASE Rename(p) \/ CreateCurrent(p) \/ CopyRows(p) \/ DropLegacy(p)
    BY <2>4, RebuildHistory
  <2>5. CASE CommitUpgrade(p)
    BY <2>5, CommitUpgradeHistory
  <2>6. CASE Commit(p)
    BY <2>6, CommitHistory
  <2>7. CASE ReadLedger(p)
    BY <2>7, ReadLedgerHistory
  <2>8. CASE Apply(p)
    BY <2>8, ApplyHistory
  <2>9. CASE Record(p)
    BY <2>9, RecordHistory
  <2> QED
    BY <1>2, <2>1, <2>2, <2>3, <2>4, <2>5, <2>6, <2>7, <2>8, <2>9 DEF Ensure, Run
<1> QED
  BY <1>1, <1>2 DEF Next

\* The database a scenario begins with holds the legacy history, and nobody has begun.
LEMMA HistoryInit ==
  ASSUME Init, Regularity
  PROVE  HistoryInv
<1>1. PICK chosen \in Scenarios, dialect \in Dialects :
        scenario = [plan |-> chosen.plan, statements |-> chosen.statements, ledger |-> chosen.ledger,
                    legacy |-> chosen.legacy, dialect |-> dialect]
  BY DEF Init
<1>2. SessionsInv /\ WellFormed(scenario)
  BY InitSound DEF SessionsInv
<1>3. Regular(scenario)
  <2>1. /\ scenario.plan = chosen.plan /\ scenario.ledger = chosen.ledger
        /\ scenario.legacy = chosen.legacy /\ Regular(chosen)
    BY <1>1 DEF Regularity
  <2> QED
    BY <2>1 DEF Regular
<1>4. /\ db.ledger = scenario.ledger /\ db.rows = LegacyRows /\ db.renamed = {}
      /\ \A e \in Migration \X Steps : db.applied[e] =
           IF e[1][1] = "" /\ e[1][2] \in Range(scenario.legacy) THEN 1 ELSE 0
  BY DEF Init
<1>5. \A p \in Processes : pc[p] = "idle" /\ conn[p].lock = "none" /\ result[p] = "none"
  BY DEF Init
<1>6. \A r \in LegacyRows : r.namespace = "" /\ r.hash \in Range(scenario.legacy)
  <2> TAKE r \in LegacyRows
  <2>1. Len(scenario.legacy) \in Nat /\ DOMAIN scenario.legacy = 1 .. Len(scenario.legacy)
    BY <1>2 DEF WellFormed
  <2>2. PICK i \in 1 .. Len(scenario.legacy) : r.namespace = "" /\ r.hash = scenario.legacy[i]
    <3> DEFINE name == ""
               h == scenario.legacy
    <3>1. r \in Lines(name, h, Len(h)) /\ Len(h) \in Nat
      BY <2>1 DEF LegacyRows
    <3>2. \E i \in 1 .. Len(h) : r.namespace = name /\ r.hash = h[i]
      <4> HIDE DEF name, h
      <4> QED
        BY <3>1, LineIs
    <3> QED
      BY <3>2
  <2> QED
    BY <2>1, <2>2 DEF Range
<1>7. \A h \in Range(scenario.legacy) : \E r \in LegacyRows : r.namespace = "" /\ r.hash = h
  <2> TAKE h \in Range(scenario.legacy)
  <2>1. Len(scenario.legacy) \in Nat /\ DOMAIN scenario.legacy = 1 .. Len(scenario.legacy)
    BY <1>2 DEF WellFormed
  <2>2. PICK i \in 1 .. Len(scenario.legacy) : h = scenario.legacy[i]
    BY <2>1 DEF Range
  <2> DEFINE r == [namespace |-> "", id |-> i - 1, hash |-> scenario.legacy[i]]
  <2>3. r \in LegacyRows
    BY <2>1, LineIs DEF LegacyRows
  <2>4. r.namespace = "" /\ r.hash = h
    BY <2>2
  <2> HIDE DEF r
  <2> QED
    BY <2>3, <2>4
<1>8. Laid(db.rows)
  <2> SUFFICES ASSUME NEW name \in Names PROVE Begun(Of(LegacyRows, name), name)
    BY <1>4 DEF Laid
  <2>1. CASE name = ""
    BY <1>6, <2>1 DEF Begun, Of
  <2>2. CASE name # ""
    BY <1>6, <2>2 DEF Begun, Of
  <2> QED
    BY <2>1, <2>2
<1>9. AppliedOnceAndRecorded
  <2> SUFFICES ASSUME NEW m \in Migration, NEW k \in Steps
               PROVE  db.applied[<<m, k>>] = IF Recorded(db.rows, m) THEN 1 ELSE 0
    BY DEF AppliedOnceAndRecorded
  <2>1. Recorded(LegacyRows, m) <=> m[1] = "" /\ m[2] \in Range(scenario.legacy)
    BY <1>6, <1>7 DEF Recorded
  <2>2. <<m, k>> \in Migration \X Steps
    OBVIOUS
  <2>3. db.applied[<<m, k>>] = IF m[1] = "" /\ m[2] \in Range(scenario.legacy) THEN 1 ELSE 0
    <3> DEFINE e == <<m, k>>
    <3>1. e[1] = m
      OBVIOUS
    <3> HIDE DEF e
    <3>2. db.applied[e] = IF m[1] = "" /\ m[2] \in Range(scenario.legacy) THEN 1 ELSE 0
      BY <1>4, <2>2, <3>1 DEF e
    <3> QED
      BY <3>2 DEF e
  <2> QED
    BY <1>4, <2>1, <2>3
<1>10. DatabaseSound
  BY <1>4, <1>5, <1>8, <1>9 DEF DatabaseSound
<1>11. \A p \in Processes : ProcessHistory(p)
  BY <1>5 DEF ProcessHistory, UpgradeSound, MigrationSound, Upgrading, Migrating
<1>12. \A p, q \in Processes : Apart(p, q)
  BY <1>5 DEF Apart
<1>13. HistoryParts
  BY <1>2, <1>3, <1>10, <1>11, <1>12 DEF HistoryParts
<1> QED
  BY <1>13, HistoryInvIs

\* The invariant: at every moment each namespace of the database, and of what a run has
\* seen and written, holds the beginning of a history; what is executed and what is
\* recorded agree up to the migration a run is in the middle of; what two runs have
\* written is in different namespaces; and the upgrade keeps the rows.
THEOREM HistoryInvariant == Regularity => (Spec => []HistoryInv)
<1>1. Regularity /\ Init => HistoryInv
  BY HistoryInit
<1>2. Regularity /\ HistoryInv /\ SessionsInv' /\ [Next]_vars => HistoryInv'
  <2> SUFFICES ASSUME Regularity, HistoryInv, SessionsInv', [Next]_vars PROVE HistoryInv'
    OBVIOUS
  <2>1. CASE Next
    BY <2>1, HistoryNext DEF Regularity
  <2>2. CASE UNCHANGED vars
    BY <2>2, UnchangedHistory
  <2> QED
    BY <2>1, <2>2
<1>3. SUFFICES ASSUME Regularity PROVE Spec => []HistoryInv
  OBVIOUS
<1>4. Init => HistoryInv
  BY <1>1, <1>3
<1>5. HistoryInv /\ SessionsInv' /\ [Next]_vars => HistoryInv'
  BY <1>2, <1>3
<1> QED
  BY <1>4, <1>5, SessionsInvariant, PTL DEF Spec

\* A migration is recorded in the ledger exactly when each of its statements has been
\* executed, once, whatever fails and whoever is faster (apply_pending).
THEOREM RecordedOnceApplied == Regularity => (Spec => []AppliedOnceAndRecorded)
<1>1. HistoryInv => AppliedOnceAndRecorded
  BY DEF HistoryInv, DatabaseSound
<1>2. SUFFICES ASSUME Regularity PROVE Spec => []AppliedOnceAndRecorded
  OBVIOUS
<1>3. Spec => []HistoryInv
  BY <1>2, HistoryInvariant
<1> QED
  BY <1>1, <1>3, PTL

\* What a ledger that holds the beginning of a history tells its reader.
LEMMA LinesRead ==
  ASSUME NEW rows, NEW name, NEW h, NEW m \in Nat, Of(rows, name) = Lines(name, h, m)
  PROVE  /\ {r.id : r \in Of(rows, name)} = {i - 1 : i \in DOMAIN Ledger(rows, name)}
         /\ h \in Seq(Range(h)) /\ m <= Len(h) => IsPrefix(Ledger(rows, name), h)
         /\ h \in Seq(Range(h)) /\ m = Len(h) => Ledger(rows, name) = h
         /\ m = 0 => Ledger(rows, name) = <<>>
<1> DEFINE l == Ledger(rows, name)
<1>1. /\ l = [n \in 1 .. m |-> h[n]]
      /\ DOMAIN l = 1 .. m /\ Len(l) = m /\ \A n \in 1 .. m : l[n] = h[n]
  BY LedgerIs
<1>2. {r.id : r \in Of(rows, name)} = {i - 1 : i \in 1 .. m}
  <2>1. ASSUME NEW r \in Of(rows, name) PROVE \E i \in 1 .. m : r.id = i - 1
    BY LineIs
  <2>2. ASSUME NEW i \in 1 .. m PROVE \E r \in Of(rows, name) : r.id = i - 1
    <3> DEFINE r == [namespace |-> name, id |-> i - 1, hash |-> h[i]]
    <3>1. r \in Of(rows, name) /\ r.id = i - 1
      BY LineIs
    <3> HIDE DEF r
    <3> QED
      BY <3>1
  <2> QED
    BY <2>1, <2>2
<1>3. ASSUME h \in Seq(Range(h)), m <= Len(h) PROVE IsPrefix(l, h)
  <2>1. SubSeq(h, 1, m) = [n \in 1 .. m |-> h[n]]
    BY <1>3
  <2>2. SubSeq(l, 1, m) = [n \in 1 .. m |-> l[n]]
    <3> HIDE DEF l
    <3> QED
      BY <1>1
  <2> HIDE DEF l
  <2> QED
    BY <1>1, <1>3, <2>1, <2>2 DEF IsPrefix
<1>4. ASSUME h \in Seq(Range(h)), m = Len(h) PROVE l = h
  <2>1. h = [n \in 1 .. m |-> h[n]]
    BY <1>4
  <2> HIDE DEF l
  <2> QED
    BY <1>1, <2>1
<1>5. ASSUME m = 0 PROVE l = <<>>
  <2> HIDE DEF l
  <2> QED
    BY <1>1, <1>5
<1> HIDE DEF l
<1> QED
  BY <1>1, <1>2, <1>3, <1>4, <1>5 DEF l

\* The ledger of each namespace is a beginning of the history of a fragment, or the legacy
\* one, under the ids 0, 1, 2, ...: what apply_pending compares position by position.
THEOREM LedgerStaysHistory == Regularity => (Spec => []LedgerIsHistory)
<1>1. HistoryInv => LedgerIsHistory
  <2> SUFFICES ASSUME HistoryInv, NEW name \in Names
               PROVE  /\ {r.id : r \in Of(db.rows, name)} = {i - 1 : i \in DOMAIN Ledger(db.rows, name)}
                      /\ \/ name = "" /\ Ledger(db.rows, name) = scenario.legacy
                         \/ \E f \in Fragments :
                              f.name = name /\ IsPrefix(Ledger(db.rows, name), f.migrations)
                         \/ Ledger(db.rows, name) = <<>>
    BY DEF LedgerIsHistory
  <2>1. WellFormed(scenario) /\ Begun(Of(db.rows, name), name)
    BY DEF HistoryInv, SessionsInv, DatabaseSound, Laid
  <2>2. CASE Of(db.rows, name) = {}
    <3>1. Of(db.rows, name) = Lines(name, <<>>, 0)
      BY <2>2 DEF Lines
    <3> QED
      BY <3>1, LinesRead
  <2>3. CASE name = "" /\ Of(db.rows, name) = LegacyRows
    <3> DEFINE h == scenario.legacy
    <3>1. h \in Seq(Range(h)) /\ Len(h) \in Nat
      BY <2>1 DEF WellFormed
    <3>2. Of(db.rows, name) = Lines(name, h, Len(h))
      BY <2>3 DEF LegacyRows
    <3>3. /\ {r.id : r \in Of(db.rows, name)} = {i - 1 : i \in DOMAIN Ledger(db.rows, name)}
          /\ Ledger(db.rows, name) = h
      <4> HIDE DEF h
      <4> QED
        BY <3>1, <3>2, LinesRead
    <3> QED
      BY <2>3, <3>3
  <2>4. CASE \E f \in Fragments : \E n \in DOMAIN f.migrations :
               f.name = name /\ Of(db.rows, name) = Lines(name, f.migrations, n)
    <3>1. PICK f \in Fragments : \E n \in DOMAIN f.migrations :
               f.name = name /\ Of(db.rows, name) = Lines(name, f.migrations, n)
      BY <2>4
    <3>2. PICK n \in DOMAIN f.migrations :
               f.name = name /\ Of(db.rows, name) = Lines(name, f.migrations, n)
      BY <3>1
    <3>3. f.migrations \in Seq(Range(f.migrations))
      BY <2>1 DEF Fragments, WellFormed, Plan
    <3>4. n \in Nat /\ n <= Len(f.migrations)
      BY <3>3
    <3>5. /\ {r.id : r \in Of(db.rows, name)} = {i - 1 : i \in DOMAIN Ledger(db.rows, name)}
          /\ IsPrefix(Ledger(db.rows, name), f.migrations)
      BY <3>2, <3>3, <3>4, LinesRead
    <3> QED
      BY <3>2, <3>5
  <2> QED
    BY <2>1, <2>2, <2>3, <2>4 DEF Begun
<1>2. SUFFICES ASSUME Regularity PROVE Spec => []LedgerIsHistory
  OBVIOUS
<1>3. Spec => []HistoryInv
  BY <1>2, HistoryInvariant
<1> QED
  BY <1>1, <1>3, PTL

\* After run has returned Ok everything the process brought is in the ledger, and stays.
THEOREM OkIsApplied == Regularity => (Spec => []OkMeansApplied)
<1>1. HistoryInv => OkMeansApplied
  <2> SUFFICES ASSUME HistoryInv, NEW p \in Processes, result[p] = "ok", NEW f \in Range(Plan[p])
               PROVE  IsPrefix(f.migrations, Ledger(db.rows, f.name))
    BY DEF OkMeansApplied
  <2>1. /\ WellFormed(scenario) /\ Laid(db.rows) /\ db.rows \in SUBSET Row
        /\ Arrived(f, db.rows)
    BY DEF HistoryInv, SessionsInv, DatabaseSound, TypeOK, Database
  <2>2. f.migrations \in Seq(Range(f.migrations))
    BY <2>1 DEF WellFormed, Plan
  <2>3. \E h : \E m \in Nat : Of(db.rows, f.name) = Lines(f.name, h, m)
    BY <2>1, LaidLines
  <2> QED
    BY <2>1, <2>2, <2>3, ArrivedPrefix
<1>2. SUFFICES ASSUME Regularity PROVE Spec => []OkMeansApplied
  OBVIOUS
<1>3. Spec => []HistoryInv
  BY <1>2, HistoryInvariant
<1> QED
  BY <1>1, <1>3, PTL

\* Nothing but the commit of a run adds to the ledger of the database; it adds what the
\* run has written.
LEMMA LedgerGrows ==
  ASSUME HistoryInv, Next
  PROVE  \/ db'.rows = db.rows
         \/ \E p \in Processes : pc[p] = "commit" /\ db' = conn[p].view
<1>1. SessionsInv
  BY DEF HistoryInv
<1>2. CASE Finished
  BY <1>2 DEF Finished, vars
<1>3. ASSUME NEW p \in Processes, Start(p) \/ Ensure(p) \/ Run(p) \/ Crash(p)
      PROVE  \/ db'.rows = db.rows
             \/ pc[p] = "commit" /\ db' = conn[p].view
  <2>1. CASE Start(p) \/ Probe(p) \/ EndUpgrade(p) \/ Drop(p) \/ Crash(p)
    BY <1>1, <2>1, QuietStep DEF Unmoved
  <2>2. CASE CreateLedger(p)
    <3>1. Unmoved(p) \/ Settled(p, Data("current", db.rows, db.renamed, db.applied))
      BY <1>1, <2>2, CreateStep
    <3>2. db' = db \/ db' = Data("current", db.rows, db.renamed, db.applied)
      BY <3>1, SettledViews DEF Unmoved
    <3> QED
      BY <3>2 DEF Data
  <2>3. CASE BeginUpgrade(p) \/ Begin(p)
    BY <1>1, <2>3, BeginsStep DEF Worked, Unmoved
  <2>4. CASE Rename(p)
    BY <1>1, <2>4, RenameStep DEF UpgradeStep, Failed, Hurt, Worked, Unmoved
  <2>5. CASE CreateCurrent(p)
    BY <1>1, <2>5, CreateCurrentStep DEF UpgradeStep, Failed, Hurt, Worked, Unmoved
  <2>6. CASE CopyRows(p)
    BY <1>1, <2>6, CopyRowsStep DEF UpgradeStep, Failed, Hurt, Worked, Unmoved
  <2>7. CASE DropLegacy(p)
    BY <1>1, <2>7, DropLegacyStep DEF UpgradeStep, Failed, Hurt, Worked, Unmoved
  <2>8. CASE CommitUpgrade(p)
    <3>1. pc[p] = "commit_upgrade" /\ UpgradeSound(p)
      BY <2>8 DEF CommitUpgrade, At, HistoryInv
    <3>2. conn[p].view.rows = db.rows
      BY <3>1, FlattenedSame DEF UpgradeSound, Upgrading
    <3>3. Hurt(p) \/ Settled(p, conn[p].view)
      BY <1>1, <2>8, CommitsStep
    <3> QED
      BY <3>2, <3>3, SettledViews DEF Hurt, Unmoved
  <2>9. CASE Commit(p)
    <3>1. Hurt(p) \/ Settled(p, conn[p].view)
      BY <1>1, <2>9, CommitsStep
    <3> QED
      BY <2>9, <3>1, SettledViews DEF Hurt, Unmoved, Commit, At
  <2>10. CASE ReadLedger(p)
    BY <1>1, <2>10, ReadLedgerStep DEF Panicked, Failed, Hurt, Worked, Unmoved
  <2>11. CASE Apply(p)
    BY <1>1, <2>11, ApplyStep DEF Failed, Hurt, Worked, Unmoved
  <2>12. CASE Record(p)
    BY <1>1, <2>12, RecordStep DEF Failed, Hurt, Worked, Unmoved
  <2> QED
    BY <1>3, <2>1, <2>2, <2>3, <2>4, <2>5, <2>6, <2>7, <2>8, <2>9, <2>10, <2>11, <2>12
       DEF Ensure, Run
<1> QED
  BY <1>2, <1>3 DEF Next

\* No step loses an entry of a history, the upgrade of a legacy ledger and the crash of a
\* process included.
THEOREM HistoryIsKept == Regularity => (Spec => HistoryKept)
<1>1. ASSUME HistoryInv, [Next]_vars PROVE [db.rows \subseteq db'.rows]_vars
  <2>1. CASE Next
    <3>1. ASSUME NEW p \in Processes, pc[p] = "commit" PROVE db.rows \subseteq conn[p].view.rows
      <4>1. LinkSound(conn[p], db) /\ conn[p].lock \in {"none", "shared", "written"}
        BY <1>1, <3>1, HereSound DEF HistoryInv, HoldsSound, Migrating, TypeOK
      <4> QED
        BY <4>1 DEF LinkSound, Extends
    <3> QED
      BY <1>1, <2>1, <3>1, LedgerGrows
  <2>2. CASE UNCHANGED vars
    BY <2>2
  <2> QED
    BY <1>1, <2>1, <2>2
<1>2. SUFFICES ASSUME Regularity PROVE Spec => HistoryKept
  OBVIOUS
<1>3. Spec => []HistoryInv
  BY <1>2, HistoryInvariant
<1> QED
  BY <1>1, <1>3, PTL DEF Spec, HistoryKept

\* The fragments of a process arrive together: a step that adds to the ledger adds entries
\* of one process, and everything that process brings is there afterwards.
THEOREM SetsArriveTogether == Regularity => (Spec => AllSetsTogether)
<1> DEFINE Together ==
             LET added == db'.rows \ db.rows
             IN  added # {} =>
                   \E p \in Processes :
                     /\ \A r \in added : <<r.namespace, r.hash>> \in Brought(p)
                     /\ \A f \in Range(Plan[p]) : IsPrefix(f.migrations, Ledger(db'.rows, f.name))
<1>1. ASSUME HistoryInv, [Next]_vars PROVE [Together]_vars
  <2>1. CASE Next /\ db'.rows \ db.rows # {}
    <3>1. PICK p \in Processes : pc[p] = "commit" /\ db' = conn[p].view
      BY <1>1, <2>1, LedgerGrows
    <3> DEFINE rows == conn[p].view.rows
    <3>2. /\ WellFormed(scenario) /\ MigrationSound(p) /\ conn[p].lock # "exclusive"
          /\ rows \in SUBSET Row
      BY <1>1, <3>1, HereSound DEF HistoryInv, SessionsInv, HoldsSound, Migrating, Database
    <3>3. \A r \in rows \ db.rows : <<r.namespace, r.hash>> \in Brought(p)
      BY <3>1, <3>2 DEF MigrationSound, Migrating, Own
    <3>4. Laid(rows)
      BY <1>1, <3>1, <3>2, ViewLaid
    <3>5. ASSUME NEW f \in Range(Plan[p]) PROVE IsPrefix(f.migrations, Ledger(rows, f.name))
      <4>1. f.migrations \in Seq(Range(f.migrations))
        BY <3>2 DEF WellFormed, Plan
      <4>2. Arrived(f, rows)
        BY <1>1, <3>1, RunArrived
      <4> HIDE DEF rows
      <4>3. \E h : \E m \in Nat : Of(rows, f.name) = Lines(f.name, h, m)
        BY <3>2, <3>4, LaidLines
      <4> QED
        BY <4>1, <4>2, <4>3, ArrivedPrefix
    <3> QED
      BY <3>1, <3>3, <3>5
  <2>2. CASE db'.rows \ db.rows = {}
    BY <2>2
  <2>3. CASE UNCHANGED vars
    BY <2>3
  <2> QED
    BY <1>1, <2>1, <2>2, <2>3
<1>2. SUFFICES ASSUME Regularity PROVE Spec => AllSetsTogether
  OBVIOUS
<1>3. Spec => []HistoryInv
  BY <1>2, HistoryInvariant
<1> QED
  BY <1>1, <1>3, PTL DEF Spec, AllSetsTogether
=============================================================================
