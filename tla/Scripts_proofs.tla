---------------------------- MODULE Scripts_proofs ----------------------------
(***************************************************************************)
(* The two scripts of the repository.                                      *)
(*                                                                         *)
(*  - sim-seed.py: one user and one gateway whatever happens, and one row  *)
(*    of each kind if no two runs overlapped and nobody else made a row    *)
(*    that they look for.  The invariant follows the one open transaction: *)
(*    what it sees has at most one row of each kind, and at the INSERT of  *)
(*    a table without a unique key it knows that there is none.  A run     *)
(*    that commits the gateway or a channel leaves everything there: each  *)
(*    statement that is done has left its row, the rows of other           *)
(*    transactions go only with the gateway or by a DELETE of the channel, *)
(*    which is remembered, and an id is not made twice.                    *)
(*  - build_plan_hwpx.py: no id occurs twice in the document, whatever     *)
(*    script is run: every id that has been used, also by the table under  *)
(*    construction, is below the counter.  The columns of every table fill *)
(*    the width of the text: what rounding loses is less than one unit per *)
(*    column, and the last column gets it back.                            *)
(***************************************************************************)
EXTENDS Provision, PlanDocument, Functions, FiniteSetTheorems, SequenceTheorems,
        WellFoundedInduction, TLAPS
-------------------------------------------------------------------------------
(* sim-seed.py: the invariant *)

IdTables == {"companies", "sites", "users", "gateways", "sensor_profiles"}

\* Tables whose SELECT matches a constant name.
NamedTables == {"companies", "users", "gateways", "sensor_profiles"}

\* A row is a record; what it belongs to is a pair.
RowOK(r) ==
    /\ DOMAIN r = {"table", "of", "id"}
    /\ r.of = <<r.of[1], r.of[2]>>
    /\ r.table \in NamedTables => r.of = <<0, 0>>
    /\ r.table = "sites" => r.of[2] = 0

SeedOK(s) ==
    /\ DOMAIN s = {"at", "n", "pending", "ids"}
    /\ s.n \in 1..(Len(Statements) + 1)
    /\ s.at = "select" => s.n <= Len(Statements)
    /\ DOMAIN s.ids = IdTables
    /\ \A r \in s.pending : RowOK(r)

\* What the transaction of run i sees, and what is inserted by anyone.
Seen(i) == rows \cup seed[i].pending
Inserted == rows \cup UNION {seed[i].pending : i \in {j \in Runs : Active(j)}}

Shapes ==
    /\ revision \in 0..HeadRevision
    /\ DOMAIN seed = Runs
    /\ \A i \in Runs : Active(i) => SeedOK(seed[i])
    /\ \A r \in rows : RowOK(r)
    /\ overlapped \in BOOLEAN /\ slugsLost \in BOOLEAN

AtMostOne(t, set) == \A r, s \in set : r.table = t /\ s.table = t => r = s

\* The unique keys: the waiting of InsertRow keeps two transactions apart.
OneEach == AtMostOne("users", Inserted) /\ AtMostOne("gateways", Inserted)

\* The runs did not overlap and nobody else has made what they look for.
Undisturbed ==
    ~overlapped /\ ~slugsLost /\ \A t \in UnkeyedTables : \A r \in Made(t) : r.id # 0

\* A site belongs to a company of the set, a channel to a gateway.
Belongs(set) ==
    /\ \A r \in set : r.table = "sites" => \E c \in set : c.table = "companies" /\ c.id = r.of[1]
    /\ \A r \in set : r.table \in SlugTables => \E g \in set : g.table = "gateways" /\ g.id = r.of[1]

OneOfEach(set) ==
    /\ \A t \in UnkeyedTables : AtMostOne(t, set)
    /\ \A r, s \in set : r.table \in SlugTables /\ r.table = s.table /\ r.of[2] = s.of[2] => r = s

NoChannels(set) == \A r \in set : r.table \notin SlugTables

\* What an undisturbed run has done so far.
RunOK(i) ==
    /\ Belongs(Seen(i)) /\ OneOfEach(Seen(i))
    /\ seed[i].n < 8 => NoChannels(seed[i].pending)
    /\ revision # HeadRevision => NoChannels(Seen(i))
    /\ seed[i].n > 1 => \E c \in Seen(i) : c.table = "companies" /\ c.id = seed[i].ids.companies
    /\ seed[i].at = "insert" /\ seed[i].n \in {1, 2, 7} => Matches(Seen(i), i) = {}

Orderly ==
    /\ ~overlapped => \A i, j \in Runs : Active(i) /\ Active(j) => i = j
    /\ Undisturbed =>
         /\ Belongs(rows) /\ OneOfEach(rows)
         /\ revision # HeadRevision => NoChannels(rows)
         /\ \A i \in Runs : Active(i) => RunOK(i)

SeedInv == Shapes /\ OneEach /\ Orderly

\* The statements of the script, by their number.
LEMMA StatementFacts ==
    /\ Len(Statements) = 10
    /\ \A n \in 1..10 :
         LET t == Statements[n].table IN
         /\ t = "companies" <=> n = 1
         /\ t = "sites" <=> n = 2
         /\ t = "users" <=> n = 3
         /\ t = "user_company_roles" <=> n = 4
         /\ t = "user_gateway_permissions" <=> n = 6
         /\ t = "gateways" <=> n = 5
         /\ t = "sensor_profiles" <=> n = 7
         /\ t \in SlugTables <=> n >= 8
         /\ t \in OnConflict <=> n \in {4, 6}
<1>1. Len(Statements) = 10
  BY DEF Statements
<1>2. ASSUME NEW n \in 1..10
      PROVE  LET t == Statements[n].table IN
             /\ t = "companies" <=> n = 1
             /\ t = "sites" <=> n = 2
             /\ t = "users" <=> n = 3
             /\ t = "user_company_roles" <=> n = 4
             /\ t = "user_gateway_permissions" <=> n = 6
             /\ t = "gateways" <=> n = 5
             /\ t = "sensor_profiles" <=> n = 7
             /\ t \in SlugTables <=> n >= 8
             /\ t \in OnConflict <=> n \in {4, 6}
  <2>1. n \in {1, 2, 3, 4, 5, 6, 7, 8, 9, 10}
    OBVIOUS
  <2>2. CASE n \in {1, 2, 3}
    BY <2>2 DEF Statements, SlugTables, OnConflict
  <2>3. CASE n \in {4, 5, 6}
    BY <2>3 DEF Statements, SlugTables, OnConflict
  <2>4. CASE n \in {7, 8, 9, 10}
    BY <2>4 DEF Statements, SlugTables, OnConflict
  <2> QED
    BY <2>1, <2>2, <2>3, <2>4
<1> QED
  BY <1>1, <1>2

\* What a statement matches.
LEMMA OfFacts ==
    ASSUME NEW i \in Runs, seed[i].n \in 1..10
    PROVE  LET t == Statements[seed[i].n].table IN
           /\ Of(i) = <<Of(i)[1], Of(i)[2]>>
           /\ t \in NamedTables => Of(i) = <<0, 0>>
           /\ t = "sites" => Of(i) = <<seed[i].ids.companies, 0>>
           /\ t \in SlugTables => Of(i) = <<seed[i].ids.gateways, Statements[seed[i].n].slug>>
<1> DEFINE st == Statements[seed[i].n]
<1>1. CASE st.table \in NamedTables
  BY <1>1 DEF Of, NamedTables, SlugTables
<1>2. CASE st.table = "sites"
  BY <1>2 DEF Of, NamedTables, SlugTables
<1>3. CASE st.table \in SlugTables
  BY <1>3 DEF Of, NamedTables, SlugTables
<1>4. CASE st.table \notin NamedTables \cup SlugTables \cup {"sites"}
  BY <1>4 DEF Of, NamedTables, SlugTables
<1> QED
  BY <1>1, <1>2, <1>3, <1>4 DEF NamedTables, SlugTables

\* The record of a run after a statement.
LEMMA NextFacts ==
    ASSUME NEW i \in Runs, SeedOK(seed[i]), seed[i].n \in 1..10, NEW id, NEW pending
    PROVE  LET s == NextStatement(i, id, pending) IN
           /\ DOMAIN s = {"at", "n", "pending", "ids"} /\ DOMAIN s.ids = IdTables
           /\ s.n = seed[i].n + 1 /\ s.pending = pending
           /\ s.at \in {"select", "insert"}
           /\ s.at = "insert" => s.n \notin {1, 2, 7}
           /\ s.at = "select" => s.n <= 10
           /\ s.ids.companies = IF seed[i].n = 1 THEN id ELSE seed[i].ids.companies
           /\ \A t \in IdTables :
                s.ids[t] = IF t = Statements[seed[i].n].table THEN id ELSE seed[i].ids[t]
<1> DEFINE n == seed[i].n
           t == Statements[n].table
           s == NextStatement(i, id, pending)
<1>1. /\ DOMAIN s = {"at", "n", "pending", "ids"} /\ s.n = n + 1 /\ s.pending = pending
      /\ s.ids = IF t \in DOMAIN seed[i].ids THEN [seed[i].ids EXCEPT ![t] = id]
                 ELSE seed[i].ids
  BY DEF NextStatement
<1>2. /\ s.at \in {"select", "insert"} /\ (s.at = "select" => n < 10)
      /\ n < 10 /\ Statements[n + 1].table \notin OnConflict => s.at = "select"
  <2>1. Len(Statements) = 10
    BY StatementFacts
  <2>2. s.at = IF n < 10 /\ (IF n < 10 THEN Statements[n + 1].table ELSE "") \notin OnConflict
               THEN "select" ELSE "insert"
    BY <2>1 DEF NextStatement
  <2> QED
    BY <2>2, Zenon
<1>3. s.at = "insert" => s.n \notin {1, 2, 7}
  <2>1. n \in {1, 6} => Statements[n + 1].table \notin OnConflict
    BY StatementFacts
  <2>2. n \in {1, 6} => s.at = "select"
    BY <1>2, <2>1
  <2> HIDE DEF s
  <2>3. s.n \in {1, 2, 7} => n \in {1, 6}
    BY <1>1
  <2> QED
    BY <2>2, <2>3
<1>4. /\ DOMAIN s.ids = IdTables
      /\ \A u \in IdTables : s.ids[u] = IF u = t THEN id ELSE seed[i].ids[u]
  <2>1. DOMAIN seed[i].ids = IdTables
    BY DEF SeedOK
  <2> HIDE DEF s, t
  <2> QED
    BY <1>1, <2>1
<1>5. s.ids.companies = IF n = 1 THEN id ELSE seed[i].ids.companies
  <2>1. "companies" \in IdTables /\ (t = "companies" <=> n = 1)
    BY StatementFacts DEF IdTables
  <2> HIDE DEF s, t
  <2> QED
    BY <1>4, <2>1
<1> QED
  BY <1>1, <1>2, <1>3, <1>4, <1>5

\* Before 0002 the tables of the channels have no column slug.
LEMMA SlugNeedsHead ==
    ASSUME NEW i \in Runs, Understood(i), Statements[seed[i].n].table \in SlugTables,
           revision \in 0..HeadRevision
    PROVE  revision = HeadRevision
<1> DEFINE t == Statements[seed[i].n].table
<1>1. t \in DOMAIN SchemaAt(revision) /\ "slug" \in Columns(SchemaAt(revision)[t])
  BY DEF Understood
<1>2. revision # 0
  BY <1>1 DEF SchemaAt
<1>3. ASSUME revision = 1 PROVE FALSE
  <2>1. "slug" \in Columns(Upgrade0001[t])
    BY <1>1, <1>3 DEF SchemaAt
  <2>2. t \notin DOMAIN CreateIdentity /\ t \notin DOMAIN CreateGateways
    BY DEF CreateIdentity, CreateGateways, SlugTables
  <2>3. t \in DOMAIN CreateChannels
    BY DEF CreateChannels, SlugTables
  <2>4. Upgrade0001[t] = CreateChannels[t]
    BY <2>2, <2>3 DEF Upgrade0001, Merge
  <2>5. "slug" \notin Columns(CreateChannels[t])
    BY DEF CreateChannels, SlugTables, Columns, Table
  <2> QED
    BY <2>1, <2>4, <2>5
<1> QED
  BY <1>2, <1>3 DEF HeadRevision

\* A run's step within its own transaction.
LEMMA OwnStep ==
    ASSUME SeedInv, NEW i \in Runs, Active(i), NEW x,
           seed' = [seed EXCEPT ![i] = x],
           UNCHANGED <<revision, rows, overlapped, slugsLost>>,
           x.at \in {"select", "insert"}, SeedOK(x),
           AtMostOne("users", Inserted \cup x.pending),
           AtMostOne("gateways", Inserted \cup x.pending),
           Undisturbed => RunOK(i)'
    PROVE  SeedInv'
<1>1. /\ DOMAIN seed' = Runs /\ seed'[i] = x
      /\ \A j \in Runs \ {i} : seed'[j] = seed[j] /\ (Active(j)' <=> Active(j))
      /\ Active(i)'
  BY DEF SeedInv, Shapes, Active
<1>2. Shapes'
  BY <1>1 DEF SeedInv, Shapes
<1>3. Inserted' \subseteq Inserted \cup x.pending
  <2> SUFFICES ASSUME NEW j \in Runs, Active(j)' PROVE seed'[j].pending \subseteq Inserted \cup x.pending
    BY DEF Inserted
  <2> QED
    BY <1>1 DEF Inserted
<1>4. OneEach'
  BY <1>3 DEF OneEach, AtMostOne
<1>5. Undisturbed' <=> Undisturbed
  BY DEF Undisturbed, Made
<1>6. ~overlapped => \A j, m \in Runs : Active(j)' /\ Active(m)' => j = m
  BY <1>1 DEF SeedInv, Orderly
<1>7. ASSUME Undisturbed
      PROVE  /\ Belongs(rows') /\ OneOfEach(rows')
             /\ revision' # HeadRevision => NoChannels(rows')
             /\ \A j \in Runs : Active(j)' => RunOK(j)'
  <2>1. \A j \in Runs : Active(j)' => j = i
    BY <1>1, <1>6, <1>7 DEF Undisturbed
  <2> QED
    BY <1>7, <2>1 DEF SeedInv, Orderly
<1>8. Orderly'
  BY <1>5, <1>6, <1>7 DEF Orderly
<1> QED
  BY <1>2, <1>4, <1>8 DEF SeedInv

\* What is known of a run at a statement.
LEMMA AtStatement ==
    ASSUME SeedInv, NEW i \in Runs, Active(i)
    PROVE  /\ SeedOK(seed[i]) /\ seed[i].n \in 1..11
           /\ Seen(i) \subseteq Inserted /\ rows \subseteq Inserted
           /\ seed[i].pending \subseteq Inserted
           /\ \A r \in Seen(i) : RowOK(r)
           /\ Undisturbed => RunOK(i)
<1>1. SeedOK(seed[i]) /\ seed[i].n \in 1..11
  BY StatementFacts DEF SeedInv, Shapes, SeedOK
<1>2. seed[i].pending \subseteq Inserted /\ rows \subseteq Inserted
  BY DEF Inserted
<1> QED
  BY <1>1, <1>2 DEF SeedInv, Shapes, SeedOK, Seen, Orderly

\* SELECT: the run goes on with the row it found, or knows that there is none.
LEMMA SelectStep ==
    ASSUME SeedInv, NEW i \in Runs, SelectRow(i)
    PROVE  SeedInv'
<1> DEFINE n == seed[i].n
<1>1. /\ seed[i].at = "select" /\ Active(i) /\ Understood(i)
      /\ UNCHANGED <<revision, rows, overlapped, slugsLost>>
  BY DEF SelectRow, Active, histVars
<1>2. /\ SeedOK(seed[i]) /\ n \in 1..11 /\ seed[i].pending \subseteq Inserted
      /\ Undisturbed => RunOK(i)
  BY <1>1, AtStatement
<1>3. AtMostOne("users", Inserted \cup seed[i].pending)
      /\ AtMostOne("gateways", Inserted \cup seed[i].pending)
  <2>1. Inserted \cup seed[i].pending = Inserted
    BY <1>2
  <2> QED
    BY <2>1 DEF SeedInv, OneEach
<1>4. ASSUME NEW r \in Matches(rows \cup seed[i].pending, i), n \in 1..10,
             seed' = [seed EXCEPT ![i] = NextStatement(i, r.id, @.pending)]
      PROVE  SeedInv'
  <2>1. PICK x : x = NextStatement(i, r.id, seed[i].pending)
    OBVIOUS
  <2>2. /\ DOMAIN x = {"at", "n", "pending", "ids"} /\ DOMAIN x.ids = IdTables
        /\ x.n = n + 1 /\ x.pending = seed[i].pending
        /\ x.at \in {"select", "insert"} /\ (x.at = "insert" => x.n \notin {1, 2, 7})
        /\ x.at = "select" => x.n <= 10
        /\ x.ids.companies = IF n = 1 THEN r.id ELSE seed[i].ids.companies
    BY <1>2, <1>4, <2>1, NextFacts
  <2>3. SeedOK(x)
    BY <1>2, <1>4, <2>2, StatementFacts DEF SeedOK
  <2>4. seed' = [seed EXCEPT ![i] = x] /\ seed'[i] = x
    BY <1>4, <2>1 DEF SeedInv, Shapes
  <2>5. ASSUME Undisturbed PROVE RunOK(i)'
    <3>1. Seen(i)' = Seen(i) /\ r \in Seen(i) /\ RunOK(i)
      BY <1>1, <1>2, <1>4, <2>2, <2>4, <2>5 DEF Seen, Matches
    <3>2. x.n > 1 => \E c \in Seen(i) : c.table = "companies" /\ c.id = x.ids.companies
      <4>1. CASE n = 1
        BY <1>4, <2>2, <3>1, <4>1, StatementFacts DEF Matches
      <4>2. CASE n # 1
        BY <1>4, <2>2, <3>1, <4>2 DEF RunOK
      <4> QED
        BY <4>1, <4>2
    <3>3. x.n < 8 => NoChannels(x.pending)
      BY <1>4, <2>2, <3>1 DEF RunOK
    <3> QED
      BY <1>1, <2>2, <2>4, <3>1, <3>2, <3>3 DEF RunOK
  <2> QED
    BY <1>1, <1>3, <2>2, <2>3, <2>4, <2>5, OwnStep
<1>5. ASSUME Matches(rows \cup seed[i].pending, i) = {},
             seed' = [seed EXCEPT ![i].at = "insert"]
      PROVE  SeedInv'
  <2>1. PICK x : x = [seed[i] EXCEPT !.at = "insert"]
    OBVIOUS
  <2>2. /\ x.at = "insert" /\ x.n = n /\ x.pending = seed[i].pending /\ x.ids = seed[i].ids
        /\ SeedOK(x)
    BY <1>2, <2>1 DEF SeedOK
  <2>3. seed' = [seed EXCEPT ![i] = x] /\ seed'[i] = x
    BY <1>5, <2>1 DEF SeedInv, Shapes
  <2>4. ASSUME Undisturbed PROVE RunOK(i)'
    <3>1. Seen(i)' = Seen(i) /\ RunOK(i)
      BY <1>1, <1>2, <2>2, <2>3, <2>4 DEF Seen
    <3>2. Of(i)' = Of(i)
      BY <2>2, <2>3 DEF Of
    <3>3. Matches(Seen(i), i)' = {}
      BY <1>5, <2>2, <2>3, <3>1, <3>2 DEF Matches, Seen
    <3> QED
      BY <1>1, <2>2, <2>3, <3>1, <3>3 DEF RunOK
  <2> QED
    BY <1>1, <1>3, <2>2, <2>3, <2>4, OwnStep
<1>6. n \in 1..10
  BY <1>1, <1>2, StatementFacts DEF SeedOK
<1> QED
  BY <1>4, <1>5, <1>6 DEF SelectRow

\* A row may join the ones that everybody has inserted: the key is nobody else's.
LEMMA KeyFree ==
    ASSUME SeedInv, NEW i \in Runs, Active(i), seed[i].n \in 1..10, ~MustWait(i),
           NEW t \in {"users", "gateways"}, t = Statements[seed[i].n].table,
           Matches(Seen(i), i) = {}
    PROVE  \A r \in Inserted : r.table # t
<1> SUFFICES ASSUME NEW r \in Inserted, r.table = t PROVE FALSE
  OBVIOUS
<1>1. t \in UniqueTables /\ t \in NamedTables
  BY DEF UniqueTables, NamedTables
<1>2. Of(i) = <<0, 0>>
  BY <1>1, OfFacts
<1>3. CASE r \in Seen(i)
  <2>1. r.of = <<0, 0>>
    BY <1>1, <1>3, AtStatement DEF RowOK
  <2> QED
    BY <1>2, <1>3, <2>1 DEF Matches
<1>4. CASE r \notin Seen(i)
  <2>1. PICK j \in Runs \ {i} : Active(j) /\ r \in seed[j].pending
    BY <1>4 DEF Inserted, Seen
  <2>2. r.of = <<0, 0>>
    BY <1>1, <2>1 DEF SeedInv, Shapes, SeedOK, RowOK
  <2>3. r \in Matches(seed[j].pending, i)
    BY <1>2, <2>1, <2>2 DEF Matches
  <2> QED
    BY <1>1, <2>1, <2>3 DEF MustWait
<1> QED
  BY <1>3, <1>4

\* The row that an undisturbed run inserts is the first of its kind.
LEMMA FirstOfItsKind ==
    ASSUME SeedInv, Undisturbed, NEW i \in Runs, Active(i), seed[i].n \in 1..10,
           seed[i].at = "insert", ReferenceHolds(i),
           NEW t, t = Statements[seed[i].n].table,
           Matches(Seen(i), i) = {} \/ t \notin UniqueTables,
           NEW r \in Seen(i), r.table = t
    PROVE  /\ t \notin UnkeyedTables
           /\ t \in SlugTables => r.of[2] # Of(i)[2]
<1> DEFINE n == seed[i].n
<1>1. RunOK(i) /\ RowOK(r)
  BY AtStatement
<1>2. CASE t \in {"companies", "sensor_profiles"}
  <2>1. n \in {1, 7} /\ t \in NamedTables
    BY <1>2, StatementFacts DEF NamedTables
  <2>2. Of(i) = <<0, 0>> /\ r.of = <<0, 0>>
    BY <1>1, <2>1, OfFacts DEF RowOK
  <2>3. r \in Matches(Seen(i), i)
    BY <2>2 DEF Matches
  <2> QED
    BY <1>1, <2>1, <2>3 DEF RunOK
<1>3. CASE t = "sites"
  <2>1. n = 2
    BY <1>3, StatementFacts
  <2>2. Of(i) = <<seed[i].ids.companies, 0>>
    BY <1>3, OfFacts
  <2>3. PICK c \in Seen(i) : c.table = "companies" /\ c.id = seed[i].ids.companies
    BY <1>1, <2>1 DEF RunOK
  <2>4. PICK d \in Seen(i) : d.table = "companies" /\ d.id = r.of[1]
    BY <1>1, <1>3 DEF RunOK, Belongs
  <2>5. c = d
    BY <1>1, <2>3, <2>4 DEF RunOK, OneOfEach, AtMostOne, UnkeyedTables
  <2>6. r.of = Of(i)
    BY <1>1, <1>3, <2>2, <2>3, <2>4, <2>5 DEF RowOK
  <2>7. r \in Matches(Seen(i), i)
    BY <2>6 DEF Matches
  <2> QED
    BY <1>1, <2>1, <2>7 DEF RunOK
<1>4. ASSUME t \in SlugTables, r.of[2] = Of(i)[2] PROVE FALSE
  <2>1. t \in UniqueTables
    BY <1>4 DEF UniqueTables
  <2>2. Of(i) = <<seed[i].ids.gateways, Statements[n].slug>>
    BY <1>4, OfFacts
  <2>3. PICK g \in Seen(i) : g.table = "gateways" /\ g.id = seed[i].ids.gateways
    BY <1>4 DEF ReferenceHolds, Seen
  <2>4. PICK h \in Seen(i) : h.table = "gateways" /\ h.id = r.of[1]
    BY <1>1, <1>4 DEF RunOK, Belongs
  <2>5. g = h
    BY <2>3, <2>4, AtStatement DEF SeedInv, OneEach, AtMostOne
  <2>6. r.of = Of(i)
    BY <1>1, <1>4, <2>2, <2>3, <2>4, <2>5 DEF RowOK
  <2>7. r \in Matches(Seen(i), i)
    BY <2>6 DEF Matches
  <2> QED
    BY <2>1, <2>7
<1> QED
  BY <1>2, <1>3, <1>4 DEF UnkeyedTables

\* An INSERT that is not refused: the transaction has one row more.
LEMMA InsertNew ==
    ASSUME SeedInv, NEW i \in Runs, seed[i].at = "insert", seed[i].n \in 1..10,
           Understood(i), ReferenceHolds(i), ~MustWait(i),
           NEW t, t = Statements[seed[i].n].table,
           Matches(Seen(i), i) = {} \/ t \notin UniqueTables,
           NEW new, new = [table |-> t, of |-> Of(i), id |-> NewId(i)],
           seed' = [seed EXCEPT ![i] = NextStatement(i, new.id, seed[i].pending \cup {new})],
           UNCHANGED <<revision, rows, overlapped, slugsLost>>
    PROVE  SeedInv'
<1> DEFINE n == seed[i].n
<1>1. /\ Active(i) /\ SeedOK(seed[i]) /\ seed[i].pending \subseteq Inserted
      /\ Seen(i) \subseteq Inserted /\ \A r \in Seen(i) : RowOK(r)
      /\ Undisturbed => RunOK(i)
  <2>1. Active(i)
    BY DEF Active
  <2> QED
    BY <2>1, AtStatement
<1>2. PICK x : x = NextStatement(i, new.id, seed[i].pending \cup {new})
  OBVIOUS
<1>3. /\ DOMAIN x = {"at", "n", "pending", "ids"} /\ DOMAIN x.ids = IdTables
      /\ x.n = n + 1 /\ x.pending = seed[i].pending \cup {new}
      /\ x.at \in {"select", "insert"} /\ (x.at = "insert" => x.n \notin {1, 2, 7})
      /\ x.at = "select" => x.n <= 10
      /\ x.ids.companies = IF n = 1 THEN new.id ELSE seed[i].ids.companies
  BY <1>1, <1>2, NextFacts
<1>4. new.table = t /\ new.of = Of(i) /\ RowOK(new)
  <2>1. new.table = t /\ new.of = Of(i) /\ DOMAIN new = {"table", "of", "id"}
    OBVIOUS
  <2>2. /\ Of(i) = <<Of(i)[1], Of(i)[2]>>
        /\ t \in NamedTables => Of(i) = <<0, 0>>
        /\ t = "sites" => Of(i)[2] = 0
    BY OfFacts
  <2> QED
    BY <2>1, <2>2 DEF RowOK
<1>5. SeedOK(x)
  BY <1>1, <1>3, <1>4, StatementFacts DEF SeedOK
<1>6. seed' = [seed EXCEPT ![i] = x] /\ seed'[i] = x
  BY <1>2 DEF SeedInv, Shapes
<1>7. ASSUME NEW u \in {"users", "gateways"} PROVE AtMostOne(u, Inserted \cup x.pending)
  <2>1. AtMostOne(u, Inserted)
    BY DEF SeedInv, OneEach
  <2>2. Inserted \cup x.pending = Inserted \cup {new}
    BY <1>1, <1>3
  <2>3. t = u => \A r \in Inserted : r.table # u
    BY <1>1, KeyFree DEF UniqueTables
  <2> QED
    BY <1>4, <2>1, <2>2, <2>3 DEF AtMostOne
<1>8. ASSUME Undisturbed PROVE RunOK(i)'
  <2>1. Seen(i)' = Seen(i) \cup {new} /\ RunOK(i)
    BY <1>1, <1>3, <1>6, <1>8 DEF Seen
  <2>2. ASSUME NEW r \in Seen(i), r.table = t
        PROVE  /\ t \notin UnkeyedTables
               /\ t \in SlugTables => r.of[2] # new.of[2]
    BY <1>1, <1>4, <1>8, <2>2, FirstOfItsKind
  <2>3. OneOfEach(Seen(i)')
    <3>1. ASSUME NEW u \in UnkeyedTables
          PROVE  AtMostOne(u, Seen(i)')
      <4>1. AtMostOne(u, Seen(i))
        BY <2>1 DEF RunOK, OneOfEach
      <4>2. t = u => \A r \in Seen(i) : r.table # u
        BY <2>2
      <4> QED
        BY <1>4, <2>1, <4>1, <4>2 DEF AtMostOne
    <3>2. ASSUME NEW r \in Seen(i)', NEW s \in Seen(i)', r.table \in SlugTables,
                 r.table = s.table, r.of[2] = s.of[2]
          PROVE  r = s
      <4>1. CASE r \in Seen(i) /\ s \in Seen(i)
        BY <2>1, <3>2, <4>1 DEF RunOK, OneOfEach
      <4>2. CASE r = new /\ s \in Seen(i)
        BY <1>4, <2>2, <3>2, <4>2
      <4>3. CASE r \in Seen(i) /\ s = new
        BY <1>4, <2>2, <3>2, <4>3
      <4> QED
        BY <2>1, <4>1, <4>2, <4>3
    <3> QED
      BY <3>1, <3>2 DEF OneOfEach
  <2>4. Belongs(Seen(i)')
    <3>1. t = "sites" => \E c \in Seen(i) : c.table = "companies" /\ c.id = new.of[1]
      <4> SUFFICES ASSUME t = "sites"
                   PROVE  \E c \in Seen(i) : c.table = "companies" /\ c.id = new.of[1]
        OBVIOUS
      <4>1. n = 2
        BY StatementFacts
      <4>2. Of(i) = <<seed[i].ids.companies, 0>>
        BY OfFacts
      <4>3. new.of[1] = seed[i].ids.companies
        BY <1>4, <4>2
      <4> QED
        BY <2>1, <4>1, <4>3 DEF RunOK
    <3>2. t \in SlugTables => \E g \in Seen(i) : g.table = "gateways" /\ g.id = new.of[1]
      BY <1>4, OfFacts DEF ReferenceHolds, Seen
    <3>3. Belongs(Seen(i))
      BY <2>1 DEF RunOK
    <3> QED
      BY <1>4, <2>1, <3>1, <3>2, <3>3 DEF Belongs
  <2>5. x.n > 1 => \E c \in Seen(i)' : c.table = "companies" /\ c.id = x.ids.companies
    <3>1. CASE n = 1
      BY <1>3, <1>4, <2>1, <3>1, StatementFacts
    <3>2. CASE n # 1
      BY <1>3, <2>1, <3>2 DEF RunOK
    <3> QED
      BY <3>1, <3>2
  <2>6. x.n < 8 => NoChannels(x.pending)
    <3> SUFFICES ASSUME x.n < 8 PROVE NoChannels(x.pending)
      OBVIOUS
    <3>1. n < 8 /\ t \notin SlugTables
      BY <1>3, StatementFacts
    <3> QED
      BY <1>3, <1>4, <2>1, <3>1 DEF RunOK, NoChannels
  <2>7. revision # HeadRevision => NoChannels(Seen(i)')
    <3>1. revision # HeadRevision => t \notin SlugTables
      BY SlugNeedsHead DEF SeedInv, Shapes
    <3> QED
      BY <1>4, <2>1, <3>1 DEF RunOK, NoChannels
  <2> QED
    BY <1>3, <1>6, <2>3, <2>4, <2>5, <2>6, <2>7 DEF RunOK
<1> QED
  BY <1>1, <1>3, <1>5, <1>6, <1>7, <1>8, OwnStep

\* INSERT: a new row, or ON CONFLICT DO NOTHING.
LEMMA InsertStep ==
    ASSUME SeedInv, NEW i \in Runs, InsertRow(i)
    PROVE  SeedInv'
<1> DEFINE n == seed[i].n
<1>1. PICK t, new : t = Statements[n].table /\ new = [table |-> t, of |-> Of(i), id |-> NewId(i)]
  <2>1. PICK t : t = Statements[n].table
    OBVIOUS
  <2>2. PICK new : new = [table |-> t, of |-> Of(i), id |-> NewId(i)]
    OBVIOUS
  <2> QED
    BY <2>1, <2>2, Zenon
<1>2. /\ seed[i].at = "insert" /\ n <= 10 /\ Active(i)
      /\ Understood(i) /\ ReferenceHolds(i) /\ ~MustWait(i)
      /\ UNCHANGED <<revision, rows, overlapped, slugsLost>>
  BY StatementFacts DEF InsertRow, Active, histVars
<1>3. \/ /\ Matches(Seen(i), i) = {} \/ t \notin UniqueTables
         /\ seed' = [seed EXCEPT ![i] = NextStatement(i, new.id, seed[i].pending \cup {new})]
      \/ /\ t \in OnConflict
         /\ seed' = [seed EXCEPT ![i] = NextStatement(i, 0, seed[i].pending)]
  BY <1>1 DEF InsertRow, Seen
<1>4. /\ SeedOK(seed[i]) /\ n \in 1..10 /\ seed[i].pending \subseteq Inserted
      /\ Undisturbed => RunOK(i)
  BY <1>2, AtStatement
<1>5. CASE /\ Matches(Seen(i), i) = {} \/ t \notin UniqueTables
           /\ seed' = [seed EXCEPT ![i] = NextStatement(i, new.id, seed[i].pending \cup {new})]
  BY <1>1, <1>2, <1>4, <1>5, InsertNew
<1>6. CASE /\ t \in OnConflict
           /\ seed' = [seed EXCEPT ![i] = NextStatement(i, 0, seed[i].pending)]
  <2>1. PICK x : x = NextStatement(i, 0, seed[i].pending)
    OBVIOUS
  <2>2. n \in {4, 6}
    BY <1>1, <1>4, <1>6, StatementFacts
  <2>3. /\ DOMAIN x = {"at", "n", "pending", "ids"} /\ DOMAIN x.ids = IdTables
        /\ x.n = n + 1 /\ x.pending = seed[i].pending
        /\ x.at \in {"select", "insert"} /\ (x.at = "insert" => x.n \notin {1, 2, 7})
        /\ x.at = "select" => x.n <= 10
        /\ x.ids.companies = IF n = 1 THEN 0 ELSE seed[i].ids.companies
    BY <1>4, <2>1, NextFacts
  <2>4. SeedOK(x)
    BY <1>4, <2>3, StatementFacts DEF SeedOK
  <2>5. seed' = [seed EXCEPT ![i] = x] /\ seed'[i] = x
    BY <1>6, <2>1 DEF SeedInv, Shapes
  <2>6. AtMostOne("users", Inserted \cup x.pending) /\ AtMostOne("gateways", Inserted \cup x.pending)
    <3>1. Inserted \cup x.pending = Inserted
      BY <1>4, <2>3
    <3> QED
      BY <3>1 DEF SeedInv, OneEach
  <2>7. ASSUME Undisturbed PROVE RunOK(i)'
    <3>1. Seen(i)' = Seen(i) /\ RunOK(i)
      BY <1>2, <1>4, <2>3, <2>5, <2>7 DEF Seen
    <3> QED
      BY <1>2, <2>2, <2>3, <2>5, <3>1 DEF RunOK
  <2> QED
    BY <1>2, <2>3, <2>4, <2>5, <2>6, <2>7, OwnStep
<1> QED
  BY <1>3, <1>5, <1>6

\* COMMIT and rollback: the run is over; its rows are everybody's, or gone.
LEMMA EndStep ==
    ASSUME SeedInv, NEW i \in Runs, CommitSeed(i) \/ FailSeed(i)
    PROVE  SeedInv'
<1>1. /\ Active(i) /\ UNCHANGED <<revision, overlapped, slugsLost>>
      /\ rows' \in {rows, Seen(i)}
      /\ \E how \in {"ok", "failed"} : seed' = [seed EXCEPT ![i] = Ended(how)]
  BY DEF CommitSeed, FailSeed, Active, Seen, histVars
<1>2. /\ DOMAIN seed' = Runs /\ ~Active(i)'
      /\ \A j \in Runs \ {i} : seed'[j] = seed[j] /\ (Active(j)' <=> Active(j))
  BY <1>1 DEF SeedInv, Shapes, Active, Ended
<1>3. /\ \A r \in Seen(i) : RowOK(r)
      /\ Seen(i) \subseteq Inserted /\ (Undisturbed => RunOK(i))
  BY <1>1, AtStatement
<1>4. Shapes'
  BY <1>1, <1>2, <1>3 DEF SeedInv, Shapes
<1>5. Inserted' \subseteq Inserted
  <2>1. rows' \subseteq Inserted
    BY <1>1, <1>3 DEF Inserted
  <2>2. ASSUME NEW j \in Runs, Active(j)' PROVE seed'[j].pending \subseteq Inserted
    BY <1>2, <2>2 DEF Inserted
  <2> QED
    BY <2>1, <2>2 DEF Inserted
<1>6. OneEach'
  BY <1>5 DEF SeedInv, OneEach, AtMostOne
<1>7. ~overlapped => \A j \in Runs : ~Active(j)'
  BY <1>1, <1>2 DEF SeedInv, Orderly
<1>8. Undisturbed' => Undisturbed
  BY <1>1 DEF Undisturbed, Made, Seen
<1>9. ASSUME Undisturbed'
      PROVE  /\ Belongs(rows') /\ OneOfEach(rows')
             /\ revision' # HeadRevision => NoChannels(rows')
  BY <1>1, <1>3, <1>8, <1>9 DEF SeedInv, Orderly, RunOK
<1>10. Orderly'
  BY <1>1, <1>7, <1>9 DEF Orderly, Undisturbed
<1> QED
  BY <1>4, <1>6, <1>10 DEF SeedInv

\* A run begins.
LEMMA StartStep ==
    ASSUME SeedInv, NEW i \in Runs, StartSeed(i)
    PROVE  SeedInv'
<1>1. PICK x : x = [at |-> "select", n |-> 1, pending |-> {}, ids |-> [t \in IdTables |-> 0]]
  OBVIOUS
<1>2. /\ x.at = "select" /\ x.n = 1 /\ x.pending = {} /\ SeedOK(x)
  BY <1>1, StatementFacts DEF SeedOK
<1>3. /\ seed' = [seed EXCEPT ![i] = x] /\ UNCHANGED <<revision, rows, slugsLost>>
      /\ overlapped' = (overlapped \/ \E j \in Runs : Active(j))
  BY <1>1 DEF StartSeed, IdTables
<1>4. /\ DOMAIN seed' = Runs /\ seed'[i] = x /\ Active(i)' /\ ~Active(i)
      /\ \A j \in Runs \ {i} : seed'[j] = seed[j] /\ (Active(j)' <=> Active(j))
  BY <1>2, <1>3 DEF SeedInv, Shapes, Active, StartSeed, NotRun
<1>5. overlapped' \in BOOLEAN
  BY <1>3 DEF SeedInv, Shapes
<1>6. Shapes'
  BY <1>2, <1>3, <1>4, <1>5 DEF SeedInv, Shapes
<1>7. Inserted' \subseteq Inserted
  <2>1. ASSUME NEW j \in Runs, Active(j)' PROVE seed'[j].pending \subseteq Inserted
    BY <1>2, <1>4, <2>1 DEF Inserted
  <2>2. rows' \subseteq Inserted
    BY <1>3 DEF Inserted
  <2> QED
    BY <2>1, <2>2 DEF Inserted
<1>8. OneEach'
  BY <1>7 DEF SeedInv, OneEach, AtMostOne
<1>9. ~overlapped' => ~overlapped /\ \A j \in Runs : Active(j)' => j = i
  BY <1>3, <1>4, <1>5
<1>10. Undisturbed' => Undisturbed
  BY <1>3, <1>9 DEF Undisturbed, Made
<1>11. ASSUME Undisturbed' PROVE RunOK(i)'
  <2>1. Seen(i)' = rows
    BY <1>2, <1>3, <1>4 DEF Seen
  <2>2. /\ Belongs(rows) /\ OneOfEach(rows) /\ (revision # HeadRevision => NoChannels(rows))
    BY <1>10, <1>11 DEF SeedInv, Orderly
  <2> QED
    BY <1>2, <1>3, <1>4, <2>1, <2>2 DEF RunOK, NoChannels
<1>12. Orderly'
  BY <1>3, <1>9, <1>10, <1>11 DEF SeedInv, Orderly, Undisturbed
<1> QED
  BY <1>6, <1>8, <1>12 DEF SeedInv

\* A step that leaves the runs alone and changes rows as it may.
LEMMA RowsStep ==
    ASSUME SeedInv, UNCHANGED <<seed, overlapped>>,
           revision' \in 0..HeadRevision, slugsLost' \in BOOLEAN,
           \A r \in rows' : RowOK(r),
           \A t \in {"users", "gateways"} : AtMostOne(t, Inserted'),
           Undisturbed' =>
               /\ Belongs(rows') /\ OneOfEach(rows')
               /\ revision' # HeadRevision => NoChannels(rows')
               /\ \A i \in Runs : Active(i) => RunOK(i)'
    PROVE  SeedInv'
<1>1. \A i \in Runs : Active(i)' <=> Active(i)
  BY DEF Active
<1>2. Shapes'
  BY <1>1 DEF SeedInv, Shapes
<1>3. OneEach'
  BY DEF OneEach
<1>4. Orderly'
  BY <1>1 DEF SeedInv, Orderly
<1> QED
  BY <1>2, <1>3, <1>4 DEF SeedInv

\* POST of a company, a site, a profile or the gateway.
LEMMA ApiInserts ==
    ASSUME SeedInv, ApiCreates \/ ApiRegistersGateway
    PROVE  SeedInv'
<1>1. UNCHANGED <<seed, overlapped, revision, slugsLost>>
  BY DEF ApiCreates, ApiRegistersGateway, ApiCall
<1>2. revision' \in 0..HeadRevision /\ slugsLost' \in BOOLEAN /\ \A r \in rows : RowOK(r)
  BY <1>1 DEF SeedInv, Shapes
<1>3. \A i \in Runs : Active(i)' <=> Active(i)
  BY <1>1 DEF Active
<1>4. Inserted' = rows' \cup Inserted
  <2>1. rows \subseteq rows'
    BY DEF ApiCreates, ApiRegistersGateway
  <2> QED
    BY <1>1, <1>3, <2>1 DEF Inserted
<1>5. CASE ApiCreates
  <2>1. PICK new : /\ rows' = rows \cup {new}
                   /\ \/ \E t \in {"companies", "sensor_profiles"} :
                             new = [table |-> t, of |-> <<0, 0>>, id |-> 0]
                      \/ \E c : new = [table |-> "sites", of |-> <<c, 0>>, id |-> 0]
    BY <1>5 DEF ApiCreates
  <2>2. new.table \in UnkeyedTables /\ new.id = 0 /\ RowOK(new)
    BY <2>1 DEF RowOK, UnkeyedTables, NamedTables
  <2>3. ~Undisturbed'
    BY <2>1, <2>2 DEF Undisturbed, Made
  <2>4. Inserted' = Inserted \cup {new}
    BY <1>4, <2>1 DEF Inserted
  <2>5. \A t \in {"users", "gateways"} : AtMostOne(t, Inserted')
    BY <2>2, <2>4 DEF SeedInv, OneEach, AtMostOne, UnkeyedTables
  <2> QED
    BY <1>1, <1>2, <2>1, <2>2, <2>3, <2>5, RowsStep
<1>6. CASE ApiRegistersGateway
  <2>1. PICK gw : gw = [table |-> "gateways", of |-> <<0, 0>>, id |-> 0]
    OBVIOUS
  <2>2. PICK admin : admin = [table |-> "user_gateway_permissions", of |-> <<0, 0>>, id |-> 0]
    OBVIOUS
  <2>3. rows' = rows \cup {gw, admin} /\ ~KeyInUse(gw)
    BY <1>6, <2>1, <2>2 DEF ApiRegistersGateway
  <2>4. /\ gw.table = "gateways" /\ admin.table = "user_gateway_permissions"
        /\ RowOK(gw) /\ RowOK(admin)
    BY <2>1, <2>2 DEF RowOK, NamedTables
  <2>5. Inserted' = Inserted \cup {gw, admin}
    BY <1>4, <2>3 DEF Inserted
  <2>6. \A r \in Inserted : r.table # "gateways"
    <3>1. \A r \in Inserted : RowOK(r)
      BY DEF Inserted, SeedInv, Shapes, SeedOK
    <3>2. \A r \in Inserted : ~(r.table = "gateways" /\ r.of = <<0, 0>>)
      BY <2>1, <2>3 DEF KeyInUse, Inserted
    <3> QED
      BY <3>1, <3>2 DEF RowOK, NamedTables
  <2>7. \A t \in {"users", "gateways"} : AtMostOne(t, Inserted')
    BY <2>4, <2>5, <2>6 DEF SeedInv, OneEach, AtMostOne
  <2>8. Undisturbed' => Undisturbed
    BY <1>1, <2>3 DEF Undisturbed, Made
  <2>9. ASSUME NEW set, Belongs(set), OneOfEach(set)
        PROVE  Belongs(set \cup {gw, admin}) /\ OneOfEach(set \cup {gw, admin})
    <3>1. Belongs(set \cup {gw, admin})
      BY <2>4, <2>9 DEF Belongs, SlugTables
    <3>2. OneOfEach(set \cup {gw, admin})
      BY <2>4, <2>9 DEF OneOfEach, AtMostOne, SlugTables, UnkeyedTables
    <3> QED
      BY <3>1, <3>2
  <2>10. ASSUME NEW set, NoChannels(set) PROVE NoChannels(set \cup {gw, admin})
    BY <2>4, <2>10 DEF NoChannels, SlugTables
  <2>11. ASSUME Undisturbed, NEW i \in Runs, Active(i) PROVE RunOK(i)'
    <3>1. RunOK(i) /\ seed'[i] = seed[i] /\ Seen(i)' = Seen(i) \cup {gw, admin}
      BY <1>1, <2>3, <2>11 DEF SeedInv, Orderly, Seen
    <3>2. Belongs(Seen(i)') /\ OneOfEach(Seen(i)')
      BY <2>9, <3>1 DEF RunOK
    <3>3. seed[i].at = "insert" /\ seed[i].n \in {1, 2, 7} => Matches(Seen(i), i)' = {}
      <4> SUFFICES ASSUME seed[i].at = "insert", seed[i].n \in {1, 2, 7}
                   PROVE  Matches(Seen(i), i)' = {}
        OBVIOUS
      <4>1. Of(i)' = Of(i)
        BY <3>1 DEF Of
      <4>2. Matches(Seen(i), i) = {}
        BY <3>1 DEF RunOK
      <4>3. Statements[seed[i].n].table \in UnkeyedTables
        BY StatementFacts DEF UnkeyedTables
      <4> QED
        BY <2>4, <3>1, <4>1, <4>2, <4>3 DEF Matches, UnkeyedTables
    <3> QED
      BY <1>1, <2>10, <3>1, <3>2, <3>3 DEF RunOK
  <2>12. ASSUME Undisturbed
         PROVE  /\ Belongs(rows') /\ OneOfEach(rows')
                /\ revision' # HeadRevision => NoChannels(rows')
    BY <1>1, <2>3, <2>9, <2>10, <2>12 DEF SeedInv, Orderly
  <2> QED
    BY <1>1, <1>2, <2>3, <2>4, <2>7, <2>8, <2>11, <2>12, RowsStep
<1> QED
  BY <1>5, <1>6

\* DELETE of a gateway.
LEMMA ApiDeletes ==
    ASSUME SeedInv, ApiDeletesGateway
    PROVE  SeedInv'
<1>1. PICK g \in rows :
        /\ g.table = "gateways"
        /\ ~\E i \in Runs : Active(i) /\ \E r \in seed[i].pending :
               r.table \in SlugTables /\ r.of[1] = g.id
        /\ rows' = rows \ ({g} \cup {r \in rows : r.table \in SlugTables /\ r.of[1] = g.id})
  BY DEF ApiDeletesGateway, Made
<1>2. UNCHANGED <<revision, seed, overlapped, slugsLost>>
  BY DEF ApiDeletesGateway, ApiCall
<1>3. rows' \subseteq rows /\ Inserted' \subseteq Inserted
  <2>1. \A i \in Runs : Active(i)' <=> Active(i)
    BY <1>2 DEF Active
  <2> QED
    BY <1>1, <1>2, <2>1 DEF Inserted
<1>4. /\ \A r \in rows' : RowOK(r)
      /\ \A t \in {"users", "gateways"} : AtMostOne(t, Inserted')
      /\ revision' \in 0..HeadRevision /\ slugsLost' \in BOOLEAN
  BY <1>2, <1>3 DEF SeedInv, Shapes, OneEach, AtMostOne
<1>5. Undisturbed' <=> Undisturbed
  <2>1. \A r \in rows : r.table \in UnkeyedTables => r \in rows'
    BY <1>1 DEF SlugTables, UnkeyedTables
  <2>2. \A t \in UnkeyedTables : Made(t)' = Made(t)
    BY <1>3, <2>1 DEF Made
  <2> QED
    BY <1>2, <2>2 DEF Undisturbed
<1>6. ASSUME NEW set, NEW gone, Belongs(rows \cup gone), OneOfEach(rows \cup gone),
             \A r \in gone : r.table \in SlugTables => r.of[1] # g.id,
             set = rows' \cup gone
      PROVE  Belongs(set) /\ OneOfEach(set)
  <2>1. set \subseteq rows \cup gone
    BY <1>3, <1>6
  <2>2. OneOfEach(set)
    BY <1>6, <2>1 DEF OneOfEach, AtMostOne
  <2>3. \A r \in set : r.table \in SlugTables => r.of[1] # g.id
    BY <1>1, <1>6
  <2>4. \A r \in rows \cup gone : r \in set \/ r = g \/ r.table \in SlugTables
    BY <1>1, <1>6
  <2>5. "gateways" \notin SlugTables /\ "companies" \notin SlugTables
    BY DEF SlugTables
  <2>6. Belongs(set)
    <3>1. ASSUME NEW r \in set, r.table = "sites"
          PROVE  \E c \in set : c.table = "companies" /\ c.id = r.of[1]
      <4>1. PICK c \in rows \cup gone : c.table = "companies" /\ c.id = r.of[1]
        BY <1>6, <2>1, <3>1 DEF Belongs
      <4> QED
        BY <1>1, <2>4, <2>5, <4>1
    <3>2. ASSUME NEW r \in set, r.table \in SlugTables
          PROVE  \E h \in set : h.table = "gateways" /\ h.id = r.of[1]
      <4>1. PICK h \in rows \cup gone : h.table = "gateways" /\ h.id = r.of[1]
        BY <1>6, <2>1, <3>2 DEF Belongs
      <4> QED
        BY <2>3, <2>4, <2>5, <3>2, <4>1
    <3> QED
      BY <3>1, <3>2 DEF Belongs
  <2> QED
    BY <2>2, <2>6
<1>7. ASSUME Undisturbed
      PROVE  /\ Belongs(rows') /\ OneOfEach(rows')
             /\ revision' # HeadRevision => NoChannels(rows')
  <2>1. Belongs(rows \cup {}) /\ OneOfEach(rows \cup {})
    BY <1>7 DEF SeedInv, Orderly
  <2>2. Belongs(rows' \cup {}) /\ OneOfEach(rows' \cup {})
    <3>1. PICK none : none = {}
      OBVIOUS
    <3>2. Belongs(rows \cup none) /\ OneOfEach(rows \cup none)
      BY <2>1, <3>1
    <3>3. Belongs(rows' \cup none) /\ OneOfEach(rows' \cup none)
      BY <1>6, <3>1, <3>2
    <3> QED
      BY <3>1, <3>3
  <2>3. rows' \cup {} = rows'
    OBVIOUS
  <2>4. Belongs(rows') /\ OneOfEach(rows')
    BY <2>2, <2>3
  <2> QED
    BY <1>2, <1>3, <1>7, <2>4 DEF SeedInv, Orderly, NoChannels
<1>8. ASSUME Undisturbed, NEW i \in Runs, Active(i) PROVE RunOK(i)'
  <2>1. RunOK(i) /\ seed'[i] = seed[i] /\ Seen(i)' = rows' \cup seed[i].pending
    BY <1>2, <1>8 DEF SeedInv, Orderly, Seen
  <2>2. Belongs(Seen(i)') /\ OneOfEach(Seen(i)')
    BY <1>1, <1>6, <1>8, <2>1 DEF RunOK, Seen
  <2>3. Seen(i)' \subseteq Seen(i)
    BY <1>3, <2>1 DEF Seen
  <2>4. seed[i].n > 1 =>
           \E c \in Seen(i)' : c.table = "companies" /\ c.id = seed[i].ids.companies
    BY <1>1, <2>1 DEF RunOK, Seen, SlugTables
  <2>5. Of(i)' = Of(i)
    BY <2>1 DEF Of
  <2>6. Matches(Seen(i), i)' \subseteq Matches(Seen(i), i)
    BY <2>1, <2>3, <2>5 DEF Matches
  <2> QED
    BY <1>2, <2>1, <2>2, <2>3, <2>4, <2>6 DEF RunOK, NoChannels
<1> QED
  BY <1>2, <1>4, <1>5, <1>7, <1>8, RowsStep

\* POST of a channel: its slug is nobody else's, for there is one gateway.
LEMMA ApiAdds ==
    ASSUME SeedInv, ApiAddsChannel
    PROVE  SeedInv'
<1>1. PICK g, n, new :
        /\ g \in rows /\ n \in 8..10
        /\ g.table = "gateways" /\ ~KeyInUse(new) /\ rows' = rows \cup {new}
        /\ new = [table |-> Statements[n].table, of |-> <<g.id, Statements[n].slug>>, id |-> n]
  BY DEF ApiAddsChannel, Made
<1>2. UNCHANGED <<seed, overlapped, revision, slugsLost>> /\ revision = HeadRevision
  BY DEF ApiAddsChannel, ApiCall
<1>3. /\ new.table \in SlugTables /\ new.of[1] = g.id
      /\ new.of = <<new.of[1], new.of[2]>> /\ DOMAIN new = {"table", "of", "id"}
  BY <1>1, StatementFacts
<1>4. /\ new.table \notin NamedTables \cup UnkeyedTables
      /\ RowOK(new)
  BY <1>3 DEF RowOK, NamedTables, UnkeyedTables, SlugTables
<1>5. Inserted' = Inserted \cup {new} /\ g \in Inserted
  BY <1>1, <1>2 DEF Inserted, Active
<1>6. \A t \in {"users", "gateways"} : AtMostOne(t, Inserted')
  BY <1>4, <1>5 DEF SeedInv, OneEach, AtMostOne, NamedTables
<1>7. Undisturbed' => Undisturbed
  BY <1>1, <1>2 DEF Undisturbed, Made
<1>8. ASSUME NEW set, set \subseteq Inserted, g \in set, \A r \in set : RowOK(r),
             Belongs(set), OneOfEach(set)
      PROVE  Belongs(set \cup {new}) /\ OneOfEach(set \cup {new})
  <2>1. Belongs(set \cup {new})
    BY <1>1, <1>3, <1>4, <1>8 DEF Belongs, UnkeyedTables
  <2>2. ASSUME NEW r \in set, r.table = new.table PROVE r.of[2] # new.of[2]
    <3>1. PICK h \in set : h.table = "gateways" /\ h.id = r.of[1]
      BY <1>3, <1>8, <2>2 DEF Belongs
    <3>2. h = g
      BY <1>1, <1>8, <3>1 DEF SeedInv, OneEach, AtMostOne
    <3>3. r.of # new.of
      BY <1>1, <1>8, <2>2 DEF KeyInUse, Inserted
    <3> QED
      BY <1>3, <1>8, <3>1, <3>2, <3>3 DEF RowOK
  <2>3. OneOfEach(set \cup {new})
    BY <1>4, <1>8, <2>2 DEF OneOfEach, AtMostOne
  <2> QED
    BY <2>1, <2>3
<1>9. ASSUME Undisturbed PROVE Belongs(rows') /\ OneOfEach(rows')
  BY <1>1, <1>2, <1>8, <1>9 DEF SeedInv, Orderly, Shapes, Inserted
<1>10. ASSUME Undisturbed, NEW i \in Runs, Active(i) PROVE RunOK(i)'
  <2>1. RunOK(i) /\ seed'[i] = seed[i] /\ Seen(i)' = Seen(i) \cup {new}
    BY <1>1, <1>2, <1>10 DEF SeedInv, Orderly, Seen
  <2>2. Belongs(Seen(i)') /\ OneOfEach(Seen(i)')
    <3>1. Seen(i) \subseteq Inserted /\ g \in Seen(i) /\ \A r \in Seen(i) : RowOK(r)
      BY <1>1, <1>10, AtStatement DEF Seen
    <3> QED
      BY <1>8, <2>1, <3>1 DEF RunOK
  <2>3. seed[i].at = "insert" /\ seed[i].n \in {1, 2, 7} => Matches(Seen(i), i)' = {}
    <3> SUFFICES ASSUME seed[i].at = "insert", seed[i].n \in {1, 2, 7}
                 PROVE  Matches(Seen(i), i)' = {}
      OBVIOUS
    <3>1. Of(i)' = Of(i)
      BY <2>1 DEF Of
    <3>2. Matches(Seen(i), i) = {}
      BY <2>1 DEF RunOK
    <3>3. Statements[seed[i].n].table \in UnkeyedTables
      BY StatementFacts DEF UnkeyedTables
    <3> QED
      BY <1>4, <2>1, <3>1, <3>2, <3>3 DEF Matches
  <2> QED
    BY <1>2, <2>1, <2>2, <2>3 DEF RunOK
<1>11. /\ revision' \in 0..HeadRevision /\ slugsLost' \in BOOLEAN
       /\ \A r \in rows' : RowOK(r)
  BY <1>1, <1>2, <1>4 DEF SeedInv, Shapes
<1> QED
  BY <1>2, <1>6, <1>7, <1>9, <1>10, <1>11, RowsStep

\* DELETE of a channel.
LEMMA ApiDeletesOne ==
    ASSUME SeedInv, ApiDeletesChannel
    PROVE  SeedInv'
<1>1. PICK c \in rows : c.table \in SlugTables /\ rows' = rows \ {c}
  BY DEF ApiDeletesChannel
<1>2. UNCHANGED <<revision, seed, overlapped, slugsLost>>
  BY DEF ApiDeletesChannel, ApiCall
<1>3. Inserted' \subseteq Inserted
  BY <1>1, <1>2 DEF Inserted, Active
<1>4. /\ \A r \in rows' : RowOK(r)
      /\ \A t \in {"users", "gateways"} : AtMostOne(t, Inserted')
      /\ revision' \in 0..HeadRevision /\ slugsLost' \in BOOLEAN
  BY <1>1, <1>2, <1>3 DEF SeedInv, Shapes, OneEach, AtMostOne
<1>5. Undisturbed' => Undisturbed
  BY <1>1, <1>2 DEF Undisturbed, Made, SlugTables, UnkeyedTables
<1>6. ASSUME NEW set, NEW less, less \subseteq set,
             \A r \in set \ less : r.table \in SlugTables,
             Belongs(set), OneOfEach(set)
      PROVE  Belongs(less) /\ OneOfEach(less)
  <2>1. Belongs(less)
    BY <1>6 DEF Belongs, SlugTables
  <2>2. OneOfEach(less)
    BY <1>6 DEF OneOfEach, AtMostOne
  <2> QED
    BY <2>1, <2>2
<1>7. ASSUME Undisturbed
      PROVE  /\ Belongs(rows') /\ OneOfEach(rows')
             /\ revision' # HeadRevision => NoChannels(rows')
  BY <1>1, <1>2, <1>6, <1>7 DEF SeedInv, Orderly, NoChannels
<1>8. ASSUME Undisturbed, NEW i \in Runs, Active(i) PROVE RunOK(i)'
  <2>1. /\ RunOK(i) /\ seed'[i] = seed[i] /\ Seen(i)' \subseteq Seen(i)
        /\ \A r \in Seen(i) \ Seen(i)' : r.table \in SlugTables
    BY <1>1, <1>2, <1>8 DEF SeedInv, Orderly, Seen
  <2>2. Belongs(Seen(i)') /\ OneOfEach(Seen(i)')
    BY <1>6, <2>1 DEF RunOK
  <2>3. seed[i].n > 1 =>
           \E d \in Seen(i)' : d.table = "companies" /\ d.id = seed[i].ids.companies
    BY <2>1 DEF RunOK, SlugTables
  <2>4. Of(i)' = Of(i)
    BY <2>1 DEF Of
  <2>5. Matches(Seen(i), i)' \subseteq Matches(Seen(i), i)
    BY <2>1, <2>4 DEF Matches
  <2> QED
    BY <1>2, <2>1, <2>2, <2>3, <2>5 DEF RunOK, NoChannels
<1> QED
  BY <1>2, <1>4, <1>5, <1>7, <1>8, RowsStep

\* A migration that changes nothing but what channels are matched by, if there are any.
LEMMA MigratedRows ==
    ASSUME SeedInv, UNCHANGED <<seed, overlapped>>, revision' \in 0..HeadRevision,
           slugsLost' \in BOOLEAN, \A r \in rows' : RowOK(r),
           \A r \in rows' : r.table \notin SlugTables => r \in rows,
           Undisturbed' => Undisturbed /\ rows' = rows,
           Undisturbed' /\ revision' # HeadRevision => NoChannels(rows),
           \A i \in Runs : ~Uses0002Tables(i)
    PROVE  SeedInv'
<1>1. \A i \in Runs : Active(i)' <=> Active(i)
  BY DEF Active
<1>2. ASSUME NEW t \in {"users", "gateways"} PROVE AtMostOne(t, Inserted')
  <2>1. t \notin SlugTables
    BY DEF SlugTables
  <2>2. \A r \in Inserted' : r.table = t => r \in Inserted
    BY <1>1, <2>1 DEF Inserted
  <2> QED
    BY <2>2 DEF SeedInv, OneEach, AtMostOne
<1>3. ASSUME Undisturbed', NEW i \in Runs, Active(i) PROVE RunOK(i)'
  <2>1. RunOK(i) /\ seed'[i] = seed[i] /\ Seen(i)' = Seen(i)
    BY <1>3 DEF SeedInv, Orderly, Seen
  <2>2. NoChannels(seed[i].pending)
    <3>1. SeedOK(seed[i]) /\ seed[i].n \in 1..11
      BY <1>3, AtStatement
    <3>2. seed[i].n < 8
      BY <1>3, <3>1 DEF Uses0002Tables
    <3> QED
      BY <2>1, <3>2 DEF RunOK
  <2>3. revision' # HeadRevision => NoChannels(Seen(i))
    BY <1>3, <2>2 DEF NoChannels, Seen
  <2>4. Of(i)' = Of(i)
    BY <2>1 DEF Of
  <2>5. Matches(Seen(i), i)' = Matches(Seen(i), i)
    BY <2>1, <2>4 DEF Matches
  <2> QED
    BY <2>1, <2>3, <2>5 DEF RunOK
<1>4. ASSUME Undisturbed'
      PROVE  /\ Belongs(rows') /\ OneOfEach(rows')
             /\ revision' # HeadRevision => NoChannels(rows')
  BY <1>4 DEF SeedInv, Orderly
<1> QED
  BY <1>2, <1>3, <1>4, RowsStep

\* Nothing that the invariant speaks of has changed.
LEMMA QuietStep ==
    ASSUME SeedInv, UNCHANGED <<revision, rows, seed, overlapped, slugsLost>>
    PROVE  SeedInv'
<1>1. \A i \in Runs : (Active(i)' <=> Active(i)) /\ Of(i)' = Of(i) /\ Seen(i)' = Seen(i)
  BY DEF Active, Of, Seen
<1>2. Inserted' = Inserted /\ (Undisturbed' <=> Undisturbed)
  BY <1>1 DEF Inserted, Undisturbed, Made
<1>3. \A i \in Runs : Matches(Seen(i), i)' = Matches(Seen(i), i)
  BY <1>1 DEF Matches
<1>4. \A i \in Runs : RunOK(i) => RunOK(i)'
  BY <1>1, <1>3 DEF RunOK
<1>5. Undisturbed' =>
        /\ Belongs(rows') /\ OneOfEach(rows')
        /\ revision' # HeadRevision => NoChannels(rows')
        /\ \A i \in Runs : Active(i) => RunOK(i)'
  BY <1>2, <1>4 DEF SeedInv, Orderly
<1>6. /\ revision' \in 0..HeadRevision /\ slugsLost' \in BOOLEAN /\ \A r \in rows' : RowOK(r)
      /\ \A t \in {"users", "gateways"} : AtMostOne(t, Inserted')
  BY <1>2 DEF SeedInv, Shapes, OneEach
<1> QED
  BY <1>5, <1>6, RowsStep

\* upgrade head and the downgrades.
LEMMA MigrateStep ==
    ASSUME SeedInv, UpgradeHead \/ UpgradeCollides \/ Downgrade0002 \/ Downgrade0001
    PROVE  SeedInv'
<1>1. /\ revision \in 0..2 /\ slugsLost \in BOOLEAN /\ overlapped \in BOOLEAN
      /\ \A r \in rows : RowOK(r)
  BY DEF SeedInv, Shapes, HeadRevision
<1>2. CASE UpgradeHead
  <2>1. /\ revision < 2 /\ revision' = 2 /\ rows' = {Backfilled(r) : r \in rows}
        /\ UNCHANGED <<seed, overlapped, slugsLost>> /\ \A i \in Runs : ~Uses0002Tables(i)
    BY <1>2 DEF UpgradeHead, HeadRevision, histVars
  <2>2. ASSUME NEW r \in rows
        PROVE  /\ RowOK(Backfilled(r)) /\ Backfilled(r).table = r.table
               /\ r.table \notin SlugTables => Backfilled(r) = r
    <3>1. CASE r.table \notin SlugTables
      BY <1>1, <3>1 DEF Backfilled
    <3>2. CASE r.table \in SlugTables
      <4>1. RowOK(r)
        BY <1>1
      <4>2. PICK b : b = [r EXCEPT !.of = <<@[1], r.id>>]
        OBVIOUS
      <4>3. /\ DOMAIN b = {"table", "of", "id"} /\ b.table = r.table
            /\ b.of = <<r.of[1], r.id>>
        BY <4>1, <4>2 DEF RowOK
      <4>4. b.of = <<b.of[1], b.of[2]>>
        BY <4>3
      <4>5. Backfilled(r) = b
        BY <3>2, <4>2 DEF Backfilled
      <4>6. r.table \notin NamedTables /\ r.table # "sites"
        BY <3>2 DEF SlugTables, NamedTables
      <4> QED
        BY <3>2, <4>3, <4>4, <4>5, <4>6 DEF RowOK
    <3> QED
      BY <3>1, <3>2
  <2>3. /\ \A r \in rows' : RowOK(r)
        /\ \A r \in rows' : r.table \notin SlugTables => r \in rows
    BY <2>1, <2>2
  <2>4. ASSUME NEW t \in UnkeyedTables PROVE Made(t)' = Made(t)
    <3>1. t \notin SlugTables
      BY DEF SlugTables, UnkeyedTables
    <3>2. \A r \in rows : r.table = t => r \in rows'
      BY <2>1, <2>2, <3>1
    <3> QED
      BY <2>3, <3>1, <3>2 DEF Made
  <2>5. Undisturbed' => Undisturbed
    BY <2>1, <2>4 DEF Undisturbed
  <2>6. Undisturbed => rows' = rows
    <3> SUFFICES ASSUME Undisturbed PROVE rows' = rows
      OBVIOUS
    <3>1. \A r \in rows : r.table \notin SlugTables
      BY <1>1, <2>1 DEF SeedInv, Orderly, NoChannels, HeadRevision
    <3> QED
      BY <2>1, <2>2, <3>1
  <2> QED
    BY <1>1, <2>1, <2>3, <2>5, <2>6, MigratedRows DEF HeadRevision
<1>3. CASE UpgradeCollides
  <2>1. UNCHANGED <<revision, rows, seed, overlapped, slugsLost>>
    BY <1>3 DEF UpgradeCollides, histVars
  <2> QED
    BY <2>1, QuietStep
<1>4. CASE Downgrade0002
  <2>1. /\ revision' = 1
        /\ rows' = {IF r.table \in SlugTables THEN [r EXCEPT !.of = <<@[1], 0>>] ELSE r : r \in rows}
        /\ slugsLost' = (slugsLost \/ \E r \in rows : r.table \in SlugTables)
        /\ UNCHANGED <<seed, overlapped>> /\ \A i \in Runs : ~Uses0002Tables(i)
    BY <1>4 DEF Downgrade0002
  <2>2. slugsLost' \in BOOLEAN
    BY <1>1, <2>1
  <2>3. ASSUME NEW r \in rows'
        PROVE  RowOK(r) /\ (r.table \notin SlugTables => r \in rows)
    <3>1. PICK o \in rows : r = IF o.table \in SlugTables THEN [o EXCEPT !.of = <<@[1], 0>>] ELSE o
      BY <2>1
    <3>2. RowOK(o)
      BY <1>1
    <3>3. CASE o.table \notin SlugTables
      BY <3>1, <3>2, <3>3
    <3>4. CASE o.table \in SlugTables
      <4>1. /\ DOMAIN r = {"table", "of", "id"} /\ r.table = o.table
            /\ r.of = <<o.of[1], 0>>
        BY <3>1, <3>2, <3>4 DEF RowOK
      <4>2. r.of = <<r.of[1], r.of[2]>>
        BY <4>1
      <4>3. o.table \notin NamedTables /\ o.table # "sites"
        BY <3>4 DEF SlugTables, NamedTables
      <4> QED
        BY <3>4, <4>1, <4>2, <4>3 DEF RowOK
    <3> QED
      BY <3>3, <3>4
  <2>4. ~slugsLost' => ~slugsLost /\ NoChannels(rows) /\ rows' = rows
    <3> SUFFICES ASSUME ~slugsLost' PROVE ~slugsLost /\ NoChannels(rows) /\ rows' = rows
      OBVIOUS
    <3>1. ~slugsLost /\ \A r \in rows : r.table \notin SlugTables
      BY <1>1, <2>1
    <3> QED
      BY <2>1, <3>1 DEF NoChannels
  <2>5. Undisturbed' => Undisturbed /\ rows' = rows /\ NoChannels(rows)
    BY <2>1, <2>4 DEF Undisturbed, Made
  <2> QED
    BY <2>1, <2>2, <2>3, <2>5, MigratedRows DEF HeadRevision
<1>5. CASE Downgrade0001
  <2>1. /\ revision' = 0 /\ rows' = {} /\ slugsLost' = FALSE
        /\ UNCHANGED <<seed, overlapped>> /\ \A i \in Runs : ~Active(i)
    BY <1>5 DEF Downgrade0001
  <2>2. Inserted' = {}
    BY <2>1 DEF Inserted, Active
  <2>3. Belongs(rows') /\ OneOfEach(rows') /\ NoChannels(rows')
    BY <2>1 DEF Belongs, OneOfEach, AtMostOne, NoChannels
  <2>4. \A t \in {"users", "gateways"} : AtMostOne(t, Inserted')
    BY <2>2 DEF AtMostOne
  <2>5. revision' \in 0..HeadRevision
    BY <2>1 DEF HeadRevision
  <2>6. slugsLost' \in BOOLEAN /\ \A r \in rows' : RowOK(r)
    BY <2>1, Zenon
  <2>7. UNCHANGED <<seed, overlapped>> /\ \A i \in Runs : Active(i) => RunOK(i)'
    BY <2>1
  <2> QED
    BY <2>3, <2>4, <2>5, <2>6, <2>7, RowsStep, Zenon
<1> QED
  BY <1>2, <1>3, <1>4, <1>5

\* Every step keeps the invariant.
LEMMA SeedStep == ASSUME SeedInv, [Next]_vars PROVE SeedInv'
<1>1. ASSUME NEW i \in Runs,
             StartSeed(i) \/ SelectRow(i) \/ InsertRow(i) \/ CommitSeed(i) \/ FailSeed(i)
      PROVE  SeedInv'
  BY <1>1, StartStep, SelectStep, InsertStep, EndStep
<1>2. CASE UNCHANGED vars
  BY <1>2, QuietStep DEF vars, histVars
<1> QED
  BY <1>1, <1>2, ApiInserts, ApiDeletes, ApiAdds, ApiDeletesOne, MigrateStep DEF Next

\* A set without two different members has one member at most.
LEMMA OneMember ==
    ASSUME NEW S, \A r, s \in S : r = s
    PROVE  Cardinality(S) <= 1
<1>1. CASE S = {}
  BY <1>1, FS_EmptySet
<1>2. ASSUME NEW r \in S PROVE Cardinality(S) <= 1
  <2>1. S = {r}
    BY <1>2
  <2> QED
    BY <2>1, FS_Singleton
<1> QED
  BY <1>1, <1>2

\* At the start there is nothing.
LEMMA SeedInit == Init => SeedInv
<1> SUFFICES ASSUME Init PROVE SeedInv
  OBVIOUS
<1>1. \A i \in Runs : ~Active(i)
  BY DEF Init, Active, NotRun
<1>2. Inserted = {}
  BY <1>1 DEF Init, Inserted
<1>3. Shapes
  <2>1. revision \in 0..HeadRevision /\ DOMAIN seed = Runs
    BY DEF Init, HeadRevision
  <2>2. rows = {} /\ overlapped \in BOOLEAN /\ slugsLost \in BOOLEAN
    BY DEF Init
  <2> QED
    BY <1>1, <2>1, <2>2 DEF Shapes
<1>4. OneEach
  BY <1>2 DEF OneEach, AtMostOne
<1>5. Orderly
  BY <1>1 DEF Init, Orderly, Belongs, OneOfEach, AtMostOne, NoChannels
<1> QED
  BY <1>3, <1>4, <1>5 DEF SeedInv

\* Any number of runs of sim-seed.py, of API calls and of migrations, in any order:
\* rows are made once, and the user and the gateway even by runs that overlap.
THEOREM SeededOnceHolds == Spec => []SeededOnce
<1>1. SeedInv => SeededOnce
  <2> SUFFICES ASSUME SeedInv PROVE SeededOnce
    OBVIOUS
  <2>1. \A t \in {"users", "gateways"} : Cardinality(Made(t)) <= 1
    <3>1. ASSUME NEW t \in {"users", "gateways"} PROVE \A r, s \in Made(t) : r = s
      BY DEF SeedInv, OneEach, AtMostOne, Inserted, Made
    <3> QED
      BY <3>1, OneMember
  <2>2. ASSUME Undisturbed
        PROVE  /\ \A t \in UnkeyedTables : Cardinality(Made(t)) <= 1
               /\ \A i \in DOMAIN Statements :
                    \/ Cardinality(Slugged(Statements[i].table, Statements[i].slug)) <= 1
                    \/ Statements[i].slug = 0
    <3>1. OneOfEach(rows)
      BY <2>2 DEF SeedInv, Orderly
    <3>2. ASSUME NEW t \in UnkeyedTables
          PROVE  Cardinality(Made(t)) <= 1
      <4>1. \A r, s \in Made(t) : r = s
        BY <3>1 DEF OneOfEach, AtMostOne, Made
      <4> QED
        BY <4>1, OneMember
    <3>3. ASSUME NEW i \in DOMAIN Statements, Statements[i].slug # 0
          PROVE  Cardinality(Slugged(Statements[i].table, Statements[i].slug)) <= 1
      <4>1. Statements[i].table \in SlugTables
        BY <3>3 DEF Statements, SlugTables
      <4>2. PICK t, sl : t = Statements[i].table /\ sl = Statements[i].slug
        OBVIOUS
      <4>3. \A r, s \in Slugged(t, sl) : r = s
        BY <3>1, <4>1, <4>2 DEF OneOfEach, Slugged
      <4> QED
        BY <4>2, <4>3, OneMember
    <3> QED
      BY <3>2, <3>3
  <2> QED
    BY <2>1, <2>2 DEF SeededOnce, Undisturbed
<1> QED
  BY <1>1, SeedInit, SeedStep, PTL DEF Spec
-------------------------------------------------------------------------------
(* sim-seed.py: a run that ends well leaves everything there *)

\* What statement m matches, with these ids: Of, for any statement.
OfAt(ids, m) ==
    LET st == Statements[m]
    IN  CASE st.table = "sites" -> <<ids.companies, 0>>
          [] st.table = "user_company_roles" -> <<ids.users, ids.companies>>
          [] st.table = "user_gateway_permissions" -> <<ids.users, ids.gateways>>
          [] st.table \in SlugTables -> <<ids.gateways, st.slug>>
          [] OTHER -> <<0, 0>>

\* r is the row that statement m found or inserted.
IsRow(r, ids, m) ==
    /\ r.table = Statements[m].table /\ r.of = OfAt(ids, m)
    /\ r.table \in IdTables => r.id = ids[r.table]

Found(set, ids, m) == \E r \in set : IsRow(r, ids, m)
HasGateway(i) == Found(Seen(i), seed[i].ids, 5)

\* The tables that a DELETE of the gateway touches.
GatewayTables == SlugTables \cup {"gateways"}

\* What the statements so far were about is there; the channels as long as the
\* gateway is and no call of the API has deleted them.
Done(i) == \A m \in 1..(seed[i].n - 1) :
    \/ Found(Seen(i), seed[i].ids, m)
    \/ m = 5
    \/ m >= 8 /\ (~HasGateway(i) \/ Statements[m].slug \in removed[i])

\* A run that has inserted the gateway or a channel of it keeps the gateway there.
Held(i) == \A r \in seed[i].pending :
    /\ r.table = "gateways" => r.id = 100 * i + 5
    /\ r.table \in SlugTables => r.of[1] = seed[i].ids.gateways
    /\ r.table \in GatewayTables => seed[i].n > 5 /\ HasGateway(i)

AdminRow == [table |-> "user_gateway_permissions", of |-> <<0, 0>>, id |-> 0]

\* The API has made the gateway, or a run that has committed: it is not made again.
Origin(id) ==
    \/ id = 0 /\ AdminRow \in rows
    \/ \E j \in Runs : seed[j].at = "ok" /\ id = 100 * j + 5

OriginOf(i) == Origin(seed[i].ids.gateways) \/ seed[i].ids.gateways = 100 * i + 5

Origins ==
    /\ \A g \in rows : g.table = "gateways" => Origin(g.id)
    /\ \A i \in Runs : Active(i) /\ seed[i].n > 5 => OriginOf(i)

DoneInv == Origins /\ \A i \in Runs : Active(i) => Done(i) /\ Held(i)

\* The pattern of a statement, by its number.
LEMMA OfAtFacts ==
    ASSUME NEW ids, NEW m \in 1..10
    PROVE  /\ m \in {1, 3, 5, 7} => OfAt(ids, m) = <<0, 0>>
           /\ m = 2 => OfAt(ids, m) = <<ids.companies, 0>>
           /\ m = 4 => OfAt(ids, m) = <<ids.users, ids.companies>>
           /\ m = 6 => OfAt(ids, m) = <<ids.users, ids.gateways>>
           /\ m >= 8 => OfAt(ids, m) = <<ids.gateways, Statements[m].slug>>
<1> DEFINE t == Statements[m].table
<1>1. CASE m \in {1, 3, 5, 7}
  <2>1. /\ t # "sites" /\ t # "user_company_roles" /\ t # "user_gateway_permissions"
        /\ t \notin SlugTables
    BY <1>1, StatementFacts
  <2>2. OfAt(ids, m) = <<0, 0>>
    BY <2>1 DEF OfAt
  <2> QED
    BY <1>1, <2>2
<1>2. CASE m \in {2, 4, 6}
  <2>1. /\ m = 2 => t = "sites"
        /\ m = 4 => t = "user_company_roles" /\ t # "sites"
        /\ m = 6 => t = "user_gateway_permissions" /\ t # "sites" /\ t # "user_company_roles"
        /\ t \notin SlugTables
    BY <1>2, StatementFacts
  <2> QED
    BY <1>2, <2>1 DEF OfAt
<1>3. CASE m >= 8
  <2>1. /\ t # "sites" /\ t # "user_company_roles" /\ t # "user_gateway_permissions"
        /\ t \in SlugTables
    BY <1>3, StatementFacts
  <2>2. OfAt(ids, m) = <<ids.gateways, Statements[m].slug>>
    BY <2>1 DEF OfAt
  <2> QED
    BY <1>3, <2>2
<1> QED
  BY <1>1, <1>2, <1>3

\* A statement that sets an id changes no earlier pattern, nor its own.
LEMMA OfStable ==
    ASSUME NEW ids, NEW ids2, NEW n \in 1..10, NEW m \in 1..n,
           \A t \in IdTables : t # Statements[n].table => ids2[t] = ids[t]
    PROVE  OfAt(ids2, m) = OfAt(ids, m)
<1>0. m \in 1..10
  OBVIOUS
<1>1. CASE m \in {1, 3, 5, 7}
  BY <1>0, <1>1, OfAtFacts
<1>2. CASE m = 2
  <2>1. ids2.companies = ids.companies
    BY <1>2, StatementFacts DEF IdTables
  <2> QED
    BY <1>0, <1>2, <2>1, OfAtFacts, ZenonT(30)
<1>3. CASE m = 4
  <2>1. ids2.companies = ids.companies /\ ids2.users = ids.users
    BY <1>3, StatementFacts DEF IdTables
  <2> QED
    BY <1>0, <1>3, <2>1, OfAtFacts, ZenonT(30)
<1>4. CASE m = 6
  <2>1. ids2.gateways = ids.gateways /\ ids2.users = ids.users
    BY <1>4, StatementFacts DEF IdTables
  <2> QED
    BY <1>0, <1>4, <2>1, OfAtFacts, ZenonT(30)
<1>5. CASE m >= 8
  <2>1. ids2.gateways = ids.gateways
    BY <1>5, StatementFacts DEF IdTables
  <2> QED
    BY <1>0, <1>5, <2>1, OfAtFacts
<1> QED
  BY <1>1, <1>2, <1>3, <1>4, <1>5

\* The rows found so far stay found when the run goes on to the next statement.
LEMMA FoundStays ==
    ASSUME NEW set, NEW set2, set \subseteq set2, NEW ids, NEW ids2, NEW n \in 1..10,
           \A t \in IdTables : t # Statements[n].table => ids2[t] = ids[t],
           NEW m \in 1..(n - 1), Found(set, ids, m)
    PROVE  Found(set2, ids2, m)
<1>1. PICK r \in set : IsRow(r, ids, m)
  BY DEF Found
<1>2. OfAt(ids2, m) = OfAt(ids, m)
  BY OfStable
<1>3. r.table \in IdTables => r.table # Statements[n].table
  BY <1>1, StatementFacts DEF IsRow, IdTables
<1>4. IsRow(r, ids2, m)
  BY <1>1, <1>2, <1>3 DEF IsRow
<1> QED
  BY <1>1, <1>4 DEF Found

\* A row is the gateway of a run if it has its id.
LEMMA GatewayRow ==
    ASSUME NEW r, NEW ids
    PROVE  /\ IsRow(r, ids, 5) => r.table = "gateways" /\ r.id = ids.gateways
           /\ RowOK(r) /\ r.table = "gateways" /\ r.id = ids.gateways => IsRow(r, ids, 5)
<1>1. Statements[5].table = "gateways" /\ OfAt(ids, 5) = <<0, 0>>
  <2>1. 5 \in 1..10 /\ 5 \in {1, 3, 5, 7}
    OBVIOUS
  <2>2. Statements[5].table = "gateways"
    BY <2>1, StatementFacts
  <2> QED
    BY <2>1, <2>2, OfAtFacts
<1>2. ASSUME r.table = "gateways" PROVE IsRow(r, ids, 5) <=> r.of = <<0, 0>> /\ r.id = ids.gateways
  BY <1>1, <1>2 DEF IsRow, IdTables
<1>3. IsRow(r, ids, 5) => r.table = "gateways"
  BY <1>1 DEF IsRow
<1>4. RowOK(r) /\ r.table = "gateways" => r.of = <<0, 0>>
  BY DEF RowOK, NamedTables
<1> QED
  BY <1>2, <1>3, <1>4

\* A channel stays, or the run has passed its statement and it counts as deleted.
Kept(i, r) ==
    r.table \in SlugTables => r \in Seen(i)' \/ (Passed(i, r) => r.of[2] \in removed'[i])

\* What a run has done is kept if others leave its rows alone.
LEMMA OthersKeep ==
    ASSUME NEW i \in Runs, SeedOK(seed[i]), Done(i), Held(i), seed'[i] = seed[i],
           \A r \in Seen(i) : r.table \notin GatewayTables => r \in Seen(i)',
           seed[i].n > 5 /\ HasGateway(i)' =>
               HasGateway(i) /\ \A r \in Seen(i) : Kept(i, r),
           \A r \in seed[i].pending : r.table \in GatewayTables => HasGateway(i)',
           removed[i] \subseteq removed'[i]
    PROVE  Done(i)' /\ Held(i)'
<1>1. Held(i)'
  BY DEF Held
<1>2. ASSUME NEW m \in 1..(seed[i].n - 1)
      PROVE  \/ Found(Seen(i)', seed[i].ids, m)
             \/ m = 5
             \/ m >= 8 /\ (~HasGateway(i)' \/ Statements[m].slug \in removed'[i])
  <2>1. seed[i].n \in 1..11 /\ m \in 1..10
    BY StatementFacts DEF SeedOK
  <2>2. CASE m < 8 /\ m # 5
    <3>1. PICK r \in Seen(i) : IsRow(r, seed[i].ids, m)
      BY <2>2 DEF Done, Found
    <3>2. r.table \notin GatewayTables
      BY <2>1, <2>2, <3>1, StatementFacts DEF IsRow, GatewayTables
    <3> QED
      BY <3>1, <3>2 DEF Found
  <2>3. CASE m >= 8 /\ HasGateway(i)'
    <3>1. seed[i].n > 5
      BY <2>1, <2>3
    <3>2. CASE Statements[m].slug \in removed[i]
      BY <2>3, <3>2
    <3>3. CASE Statements[m].slug \notin removed[i]
      <4>1. Found(Seen(i), seed[i].ids, m)
        BY <2>3, <3>1, <3>3 DEF Done
      <4>2. PICK r \in Seen(i) : IsRow(r, seed[i].ids, m)
        BY <4>1 DEF Found
      <4>3. r.table \in SlugTables /\ r.table = Statements[m].table
        BY <2>1, <2>3, <4>2, StatementFacts DEF IsRow
      <4>4. r.of[2] = Statements[m].slug
        <5>1. r.of = OfAt(seed[i].ids, m)
          BY <4>2 DEF IsRow
        <5>2. OfAt(seed[i].ids, m) = <<seed[i].ids.gateways, Statements[m].slug>>
          BY <2>1, <2>3, OfAtFacts
        <5> QED
          BY <5>1, <5>2
      <4>5. Passed(i, r)
        BY <4>3, <4>4 DEF Passed
      <4>6. r \in Seen(i)' \/ r.of[2] \in removed'[i]
        BY <2>3, <3>1, <4>2, <4>3, <4>5 DEF Kept
      <4> QED
        BY <2>3, <4>2, <4>4, <4>6 DEF Found
    <3> QED
      BY <3>2, <3>3
  <2> QED
    BY <2>1, <2>2, <2>3
<1>3. Done(i)'
  BY <1>2 DEF Done
<1> QED
  BY <1>1, <1>3

\* The run's own step: the statement has found or inserted the row r.
LEMMA OwnDone ==
    ASSUME SeedInv, DoneInv, NEW i \in Runs, Active(i), seed[i].n \in 1..10,
           NEW id, NEW own, NEW r,
           seed' = [seed EXCEPT ![i] = NextStatement(i, id, own)], UNCHANGED <<rows, removed>>,
           r \in rows \cup own, own \in {seed[i].pending, seed[i].pending \cup {r}},
           r.table = Statements[seed[i].n].table, r.of = Of(i),
           r.table \in IdTables => r.id = id,
           seed[i].n = 5 => Origin(id) \/ id = 100 * i + 5,
           own # seed[i].pending =>
               /\ r.table = "gateways" => r.id = 100 * i + 5
               /\ r.table \in SlugTables => HasGateway(i)
    PROVE  DoneInv'
<1> DEFINE n == seed[i].n
           ids == seed[i].ids
<1>1. SeedOK(seed[i]) /\ Done(i) /\ Held(i) /\ DOMAIN seed = Runs
  BY AtStatement DEF DoneInv, SeedInv, Shapes
<1>2. PICK x : x = NextStatement(i, id, own)
  OBVIOUS
<1>3. /\ x.n = n + 1 /\ x.pending = own /\ x.at \in {"select", "insert"}
      /\ DOMAIN x.ids = IdTables
  BY <1>1, <1>2, NextFacts
<1>4. /\ \A t \in IdTables : t # Statements[n].table => x.ids[t] = ids[t]
      /\ Statements[n].table \in IdTables => x.ids[Statements[n].table] = id
  <2>1. /\ DOMAIN ids = IdTables
        /\ \A t \in IdTables : x.ids[t] = IF t = Statements[n].table THEN id ELSE ids[t]
    BY <1>1, <1>2, NextFacts DEF SeedOK
  <2> QED
    BY <2>1
<1>5. /\ seed'[i] = x /\ Active(i)' /\ DOMAIN seed' = Runs
      /\ \A j \in Runs \ {i} : seed'[j] = seed[j] /\ (Active(j)' <=> Active(j))
  BY <1>1, <1>2, <1>3 DEF Active
<1>6. Seen(i)' = rows \cup own /\ Seen(i) \subseteq Seen(i)'
      /\ Seen(i)' \subseteq Seen(i) \cup {r}
  BY <1>3, <1>5 DEF Seen
<1>7. IsRow(r, x.ids, n)
  <2>1. Of(i) = OfAt(ids, n)
    BY DEF Of, OfAt
  <2>2. OfAt(x.ids, n) = OfAt(ids, n)
    <3>1. n \in 1..n
      OBVIOUS
    <3> QED
      BY <1>4, <3>1, OfStable
  <2> QED
    BY <1>4, <2>1, <2>2 DEF IsRow
<1>8. n # 5 => x.ids.gateways = ids.gateways /\ (HasGateway(i)' <=> HasGateway(i))
  <2> SUFFICES ASSUME n # 5
               PROVE  x.ids.gateways = ids.gateways /\ (HasGateway(i)' <=> HasGateway(i))
    OBVIOUS
  <2>1. r.table # "gateways" /\ Statements[n].table # "gateways"
    BY StatementFacts
  <2>2. x.ids.gateways = ids.gateways
    BY <1>4, <2>1 DEF IdTables
  <2>3. \A s : IsRow(s, x.ids, 5) <=> IsRow(s, ids, 5)
    <3>1. 5 \in 1..10 /\ 5 \in {1, 3, 5, 7}
      OBVIOUS
    <3>2. Statements[5].table = "gateways"
      BY <3>1, StatementFacts
    <3>3. OfAt(ids, 5) = <<0, 0>>
      BY <3>1, OfAtFacts
    <3>4. OfAt(x.ids, 5) = <<0, 0>>
      BY <3>1, OfAtFacts
    <3> QED
      BY <2>2, <3>2, <3>3, <3>4 DEF IsRow
  <2>4. ~IsRow(r, ids, 5)
    BY <2>1, GatewayRow
  <2> QED
    BY <1>5, <1>6, <2>2, <2>3, <2>4 DEF HasGateway, Found
<1>9. Done(i)'
  <2> SUFFICES ASSUME NEW m \in 1..n
               PROVE  \/ Found(Seen(i)', x.ids, m)
                      \/ m = 5
                      \/ m >= 8 /\ (~HasGateway(i)' \/ Statements[m].slug \in removed[i])
    BY <1>3, <1>5 DEF Done
  <2>1. CASE m = n
    BY <1>6, <1>7, <2>1 DEF Found
  <2>2. CASE m # n
    <3>1. m \in 1..(n - 1)
      BY <2>2
    <3>2. Found(Seen(i), ids, m) => Found(Seen(i)', x.ids, m)
      <4>1. PICK a, b, f, g, q : a = Seen(i) /\ b = Seen(i)' /\ f = ids /\ g = x.ids /\ q = n
        OBVIOUS
      <4>2. /\ a \subseteq b /\ q \in 1..10 /\ m \in 1..(q - 1)
            /\ \A t \in IdTables : t # Statements[q].table => g[t] = f[t]
        BY <1>4, <1>6, <3>1, <4>1
      <4>3. Found(a, f, m) => Found(b, g, m)
        BY <4>2, FoundStays, Zenon
      <4> QED
        BY <4>1, <4>3, Zenon
    <3>3. m >= 8 => n # 5
      BY <3>1
    <3> QED
      BY <1>1, <1>8, <3>1, <3>2, <3>3 DEF Done
  <2> QED
    BY <2>1, <2>2
<1>10. Held(i)'
  <2> SUFFICES ASSUME NEW s \in own
               PROVE  /\ s.table = "gateways" => s.id = 100 * i + 5
                      /\ s.table \in SlugTables => s.of[1] = x.ids.gateways
                      /\ s.table \in GatewayTables => x.n > 5 /\ HasGateway(i)'
    BY <1>3, <1>5 DEF Held
  <2>1. CASE s \in seed[i].pending
    <3>1. /\ s.table = "gateways" => s.id = 100 * i + 5
          /\ s.table \in SlugTables => s.of[1] = ids.gateways
          /\ s.table \in GatewayTables => n > 5 /\ HasGateway(i)
      BY <1>1, <2>1 DEF Held
    <3> QED
      BY <1>3, <1>8, <3>1 DEF GatewayTables
  <2>2. CASE s \notin seed[i].pending
    <3>1. s = r /\ own # seed[i].pending
      BY <2>2
    <3>2. CASE r.table = "gateways"
      <4>1. n = 5 /\ r.table \notin SlugTables
        <5>1. Statements[n].table = "gateways" /\ r.table \notin SlugTables
          BY <3>2 DEF SlugTables
        <5> QED
          BY <5>1, StatementFacts
      <4>2. HasGateway(i)'
        <5>1. r \in Seen(i)' /\ IsRow(r, seed'[i].ids, 5)
          BY <1>5, <1>6, <1>7, <4>1
        <5> QED
          BY <5>1 DEF HasGateway, Found
      <4> QED
        BY <1>3, <3>1, <3>2, <4>1, <4>2
    <3>3. CASE r.table \in SlugTables
      <4>1. n >= 8 /\ r.table # "gateways"
        BY <3>3, StatementFacts
      <4>2. r.of = <<ids.gateways, Statements[n].slug>>
        BY <3>3, OfFacts
      <4>3. r.of[1] = x.ids.gateways
        BY <1>8, <4>1, <4>2
      <4> QED
        BY <1>3, <1>8, <3>1, <3>3, <4>1, <4>3
    <3> QED
      BY <3>1, <3>2, <3>3 DEF GatewayTables
  <2> QED
    BY <2>1, <2>2
<1>11. \A d : Origin(d)' <=> Origin(d)
  <2>1. \A j \in Runs : seed'[j].at = "ok" <=> seed[j].at = "ok"
    BY <1>3, <1>5 DEF Active
  <2> QED
    BY <2>1 DEF Origin
<1>12. x.n > 5 => OriginOf(i)'
  <2>1. CASE n = 5
    <3>1. Statements[n].table = "gateways" /\ "gateways" \in IdTables
      BY <2>1, StatementFacts DEF IdTables
    <3>2. x.ids.gateways = id
      BY <1>4, <3>1
    <3> QED
      BY <1>5, <1>11, <2>1, <3>2 DEF OriginOf
  <2>2. CASE n # 5
    <3>1. x.n > 5 => n > 5
      BY <1>3, <2>2
    <3>2. n > 5 => OriginOf(i)
      BY DEF DoneInv, Origins
    <3> QED
      BY <1>5, <1>8, <1>11, <2>2, <3>1, <3>2 DEF OriginOf
  <2> QED
    BY <2>1, <2>2
<1>13. Origins'
  <2>1. ASSUME NEW j \in Runs, Active(j)', seed'[j].n > 5 PROVE OriginOf(j)'
    <3>1. CASE j = i
      BY <1>5, <1>12, <2>1, <3>1
    <3>2. CASE j # i
      <4>1. OriginOf(j)
        BY <1>5, <2>1, <3>2 DEF DoneInv, Origins
      <4> QED
        BY <1>5, <1>11, <3>2, <4>1 DEF OriginOf
    <3> QED
      BY <3>1, <3>2
  <2>2. \A g \in rows : g.table = "gateways" => Origin(g.id)'
    BY <1>11 DEF DoneInv, Origins
  <2> QED
    BY <2>1, <2>2 DEF Origins
<1>14. ASSUME NEW j \in Runs, Active(j)' PROVE Done(j)' /\ Held(j)'
  <2>1. CASE j # i
    <3>1. seed'[j] = seed[j] /\ Done(j) /\ Held(j) /\ Seen(j)' = Seen(j)
      BY <1>5, <1>14, <2>1 DEF DoneInv, Seen
    <3>2. HasGateway(j)' <=> HasGateway(j)
      BY <3>1 DEF HasGateway
    <3> QED
      BY <3>1, <3>2 DEF Done, Held
  <2> QED
    BY <1>9, <1>10, <2>1
<1> QED
  BY <1>13, <1>14 DEF DoneInv

\* SELECT.
LEMMA DoneSelect ==
    ASSUME SeedInv, DoneInv, NEW i \in Runs, SelectRow(i)
    PROVE  DoneInv'
<1> DEFINE n == seed[i].n
           own == seed[i].pending
<1>1. /\ seed[i].at = "select" /\ Active(i) /\ UNCHANGED <<rows, removed>>
  BY DEF SelectRow, Active, histVars
<1>2. SeedOK(seed[i]) /\ n \in 1..10 /\ DOMAIN seed = Runs
  <2>1. SeedOK(seed[i]) /\ n \in 1..11
    BY <1>1, AtStatement
  <2> QED
    BY <1>1, <2>1, StatementFacts DEF SeedOK, SeedInv, Shapes
<1>3. ASSUME NEW r \in Matches(rows \cup own, i),
             seed' = [seed EXCEPT ![i] = NextStatement(i, r.id, @.pending)]
      PROVE  DoneInv'
  <2>1. /\ r \in rows \cup own /\ r.table = Statements[n].table /\ r.of = Of(i)
        /\ seed' = [seed EXCEPT ![i] = NextStatement(i, r.id, own)]
    BY <1>3 DEF Matches
  <2>2. n = 5 => Origin(r.id)
    <3> SUFFICES ASSUME n = 5 PROVE Origin(r.id)
      OBVIOUS
    <3>1. r.table = "gateways"
      BY <2>1, StatementFacts
    <3>2. r \notin own
      BY <1>1, <3>1 DEF DoneInv, Held, GatewayTables
    <3> QED
      BY <2>1, <3>1, <3>2 DEF DoneInv, Origins
  <2> QED
    BY <1>1, <1>2, <2>1, <2>2, OwnDone
<1>4. ASSUME seed' = [seed EXCEPT ![i].at = "insert"] PROVE DoneInv'
  <2>1. /\ seed'[i].n = n /\ seed'[i].pending = own /\ seed'[i].ids = seed[i].ids
        /\ seed'[i].at = "insert"
        /\ \A j \in Runs \ {i} : seed'[j] = seed[j]
    BY <1>2, <1>4 DEF SeedOK
  <2>2. \A j \in Runs : /\ Active(j)' <=> Active(j)
                        /\ Seen(j)' = Seen(j)
                        /\ seed'[j].n = seed[j].n /\ seed'[j].pending = seed[j].pending
                        /\ seed'[j].ids = seed[j].ids
                        /\ seed'[j].at = "ok" <=> seed[j].at = "ok"
    BY <1>1, <2>1 DEF Active, Seen
  <2>3. \A j \in Runs : HasGateway(j)' <=> HasGateway(j)
    BY <2>2 DEF HasGateway
  <2>4. ASSUME NEW j \in Runs, Active(j)' PROVE Done(j)' /\ Held(j)'
    <3>1. Done(j) /\ Held(j)
      BY <2>2, <2>4 DEF DoneInv
    <3>2. Done(j)'
      BY <1>1, <2>2, <2>3, <3>1 DEF Done
    <3>3. Held(j)'
      BY <2>2, <2>3, <3>1 DEF Held
    <3> QED
      BY <3>2, <3>3
  <2>5. \A d : Origin(d)' <=> Origin(d)
    BY <1>1, <2>2 DEF Origin
  <2>6. Origins'
    BY <1>1, <2>2, <2>5 DEF DoneInv, Origins, OriginOf
  <2> QED
    BY <2>4, <2>6 DEF DoneInv
<1> QED
  BY <1>3, <1>4 DEF SelectRow

\* INSERT.
LEMMA DoneInsert ==
    ASSUME SeedInv, DoneInv, NEW i \in Runs, InsertRow(i)
    PROVE  DoneInv'
<1> DEFINE n == seed[i].n
           t == Statements[n].table
<1>1. PICK new : new = [table |-> t, of |-> Of(i), id |-> NewId(i)]
  OBVIOUS
<1>2. /\ seed[i].at = "insert" /\ n <= 10 /\ Active(i) /\ ReferenceHolds(i)
      /\ UNCHANGED <<rows, removed>>
  BY StatementFacts DEF InsertRow, Active, histVars
<1>3. \/ seed' = [seed EXCEPT ![i] = NextStatement(i, new.id, seed[i].pending \cup {new})]
      \/ /\ t \in OnConflict /\ Taken(i)
         /\ seed' = [seed EXCEPT ![i] = NextStatement(i, 0, seed[i].pending)]
  BY <1>1 DEF InsertRow
<1>4. n \in 1..10
  BY <1>2, AtStatement
<1>5. CASE seed' = [seed EXCEPT ![i] = NextStatement(i, new.id, seed[i].pending \cup {new})]
  <2>1. new.table = t /\ new.of = Of(i) /\ new.id = 100 * i + n
    BY <1>1 DEF NewId
  <2>2. t = "gateways" => n = 5
    BY <1>4, StatementFacts
  <2>3. t \in SlugTables => HasGateway(i)
    <3> SUFFICES ASSUME t \in SlugTables PROVE HasGateway(i)
      OBVIOUS
    <3>1. PICK g \in Seen(i) : g.table = "gateways" /\ g.id = seed[i].ids.gateways
      BY <1>2 DEF ReferenceHolds, Seen
    <3>2. RowOK(g)
      BY <1>2, <3>1, AtStatement
    <3>3. IsRow(g, seed[i].ids, 5)
      BY <3>1, <3>2, GatewayRow
    <3> QED
      BY <3>1, <3>3 DEF HasGateway, Found
  <2>4. PICK own : own = seed[i].pending \cup {new}
    OBVIOUS
  <2>5. /\ n = 5 => new.id = 100 * i + 5
        /\ new.table = "gateways" => new.id = 100 * i + 5
    BY <2>1, <2>2
  <2>6. new \in rows \cup own
    BY <2>4
  <2>7. own \in {seed[i].pending, seed[i].pending \cup {new}}
    BY <2>4
  <2>8. seed' = [seed EXCEPT ![i] = NextStatement(i, new.id, own)]
    BY <1>5, <2>4
  <2>9. own # seed[i].pending =>
          /\ new.table = "gateways" => new.id = 100 * i + 5
          /\ new.table \in SlugTables => HasGateway(i)
    BY <2>1, <2>3, <2>5
  <2>10. n = 5 => Origin(new.id) \/ new.id = 100 * i + 5
    BY <2>5
  <2> QED
    BY <1>2, <1>4, <2>1, <2>6, <2>7, <2>8, <2>9, <2>10, OwnDone, Zenon
<1>6. CASE /\ t \in OnConflict /\ Taken(i)
           /\ seed' = [seed EXCEPT ![i] = NextStatement(i, 0, seed[i].pending)]
  <2>1. PICK r \in rows : r.table = t /\ r.of = Of(i)
    BY <1>6 DEF Taken, Matches
  <2>2. n \in {4, 6} /\ t \notin IdTables
    BY <1>4, <1>6, StatementFacts DEF OnConflict, IdTables
  <2>3. n # 5 /\ r.table \notin IdTables /\ r \in rows \cup seed[i].pending
    BY <2>1, <2>2
  <2>4. PICK own : own = seed[i].pending
    OBVIOUS
  <2>5. own \in {seed[i].pending, seed[i].pending \cup {r}} /\ r \in rows \cup own
    BY <2>3, <2>4
  <2>6. seed' = [seed EXCEPT ![i] = NextStatement(i, 0, own)]
    BY <1>6, <2>4
  <2> QED
    BY <1>2, <1>4, <2>1, <2>3, <2>4, <2>5, <2>6, OwnDone, Zenon
<1> QED
  BY <1>3, <1>5, <1>6

\* A run's gateway is not one that another run, still active, has made, nor one that the
\* API has yet to make.
LEMMA NotMadeAgain ==
    ASSUME SeedInv, DoneInv, NEW j \in Runs, Active(j), seed[j].n > 5
    PROVE  /\ \A i \in Runs \ {j} : Active(i) => seed[j].ids.gateways # 100 * i + 5
           /\ AdminRow \notin rows => seed[j].ids.gateways # 0
<1>1. OriginOf(j)
  BY DEF DoneInv, Origins
<1>2. \A i \in Runs : i \in Nat /\ i > 0 /\ (Active(i) => seed[i].at # "ok")
  BY ProvisionAssumption DEF Active
<1>3. \A a, b \in Nat : 100 * a + 5 = 100 * b + 5 => a = b
  OBVIOUS
<1>4. \A a \in Nat : 100 * a + 5 # 0
  OBVIOUS
<1> QED
  BY <1>1, <1>2, <1>3, <1>4 DEF OriginOf, Origin

\* A step that leaves the active runs' records alone.
LEMMA DoneFrame ==
    ASSUME SeedInv, DoneInv,
           \A j \in Runs : Active(j)' => Active(j) /\ seed'[j] = seed[j],
           \A g \in rows' : g.table = "gateways" => Origin(g.id)',
           \A d : Origin(d) => Origin(d)' \/ \A j \in Runs : ~Active(j)',
           \A j \in Runs : Active(j)' =>
              /\ \A r \in Seen(j) : r.table \notin GatewayTables => r \in Seen(j)'
              /\ seed[j].n > 5 /\ HasGateway(j)' =>
                   HasGateway(j) /\ \A r \in Seen(j) : Kept(j, r)
              /\ \A r \in seed[j].pending : r.table \in GatewayTables => HasGateway(j)'
              /\ removed[j] \subseteq removed'[j]
    PROVE  DoneInv'
<1>1. ASSUME NEW j \in Runs, Active(j)' PROVE Done(j)' /\ Held(j)'
  <2>1. SeedOK(seed[j]) /\ Done(j) /\ Held(j)
    BY <1>1, AtStatement DEF DoneInv
  <2> QED
    BY <1>1, <2>1, OthersKeep
<1>2. ASSUME NEW j \in Runs, Active(j)', seed'[j].n > 5 PROVE OriginOf(j)'
  <2>1. Active(j) /\ seed'[j] = seed[j]
    BY <1>2
  <2>2. OriginOf(j)
    BY <1>2, <2>1 DEF DoneInv, Origins
  <2> QED
    BY <1>2, <2>1, <2>2 DEF OriginOf
<1> QED
  BY <1>1, <1>2 DEF DoneInv, Origins

\* A run begins, or fails.
LEMMA DoneStartFail ==
    ASSUME SeedInv, DoneInv, NEW i \in Runs, StartSeed(i) \/ FailSeed(i)
    PROVE  DoneInv'
<1>1. DOMAIN seed = Runs /\ UNCHANGED <<rows, removed>>
  BY DEF StartSeed, FailSeed, SeedInv, Shapes, histVars
<1>2. /\ \A j \in Runs \ {i} : seed'[j] = seed[j]
      /\ seed[i].at # "ok" /\ seed'[i].at # "ok"
      /\ Active(i)' => seed'[i].n = 1 /\ seed'[i].pending = {}
  BY <1>1 DEF StartSeed, FailSeed, Active, NotRun, Ended
<1>3. \A j \in Runs \ {i} : (Active(j)' <=> Active(j)) /\ Seen(j)' = Seen(j)
                            /\ (HasGateway(j)' <=> HasGateway(j))
  BY <1>1, <1>2 DEF Active, Seen, HasGateway
<1>4. \A d : Origin(d)' <=> Origin(d)
  BY <1>1, <1>2 DEF Origin
<1>5. \A g \in rows' : g.table = "gateways" => Origin(g.id)'
  BY <1>1, <1>4 DEF DoneInv, Origins
<1>6. ASSUME NEW j \in Runs, Active(j)', j # i PROVE Done(j)' /\ Held(j)' /\ (seed'[j].n > 5 => OriginOf(j)')
  <2>1. Done(j) /\ Held(j) /\ (seed[j].n > 5 => OriginOf(j)) /\ seed'[j] = seed[j]
    BY <1>2, <1>3, <1>6 DEF DoneInv, Origins
  <2> QED
    BY <1>1, <1>3, <1>4, <1>6, <2>1 DEF Done, Held, OriginOf
<1>7. ASSUME Active(i)' PROVE Done(i)' /\ Held(i)' /\ ~(seed'[i].n > 5)
  BY <1>2, <1>7 DEF Done, Held
<1> QED
  BY <1>5, <1>6, <1>7 DEF DoneInv, Origins

\* COMMIT: its gateway is not the one that another run found.
LEMMA DoneCommit ==
    ASSUME SeedInv, DoneInv, NEW i \in Runs, CommitSeed(i)
    PROVE  DoneInv'
<1>1. /\ DOMAIN seed = Runs /\ Active(i) /\ rows' = Seen(i)
      /\ seed' = [seed EXCEPT ![i] = Ended("ok")] /\ removed' = removed
  BY DEF CommitSeed, SeedInv, Shapes, Active, Seen, histVars
<1>2. /\ \A j \in Runs \ {i} : seed'[j] = seed[j] /\ (Active(j)' <=> Active(j))
      /\ seed'[i].at = "ok" /\ ~Active(i)'
  BY <1>1 DEF Ended, Active
<1>3. \A d : Origin(d) => Origin(d)'
  BY <1>1, <1>2 DEF Origin, Seen
<1>4. \A g \in rows' : g.table = "gateways" => Origin(g.id)'
  <2> SUFFICES ASSUME NEW g \in rows', g.table = "gateways" PROVE Origin(g.id)'
    OBVIOUS
  <2>1. CASE g \in rows
    BY <1>3, <2>1 DEF DoneInv, Origins
  <2>2. CASE g \in seed[i].pending
    <3>1. g.id = 100 * i + 5
      BY <1>1, <2>2 DEF DoneInv, Held
    <3> QED
      BY <1>2, <3>1 DEF Origin
  <2> QED
    BY <1>1, <2>1, <2>2 DEF Seen
<1>5. ASSUME NEW j \in Runs, Active(j)'
      PROVE  /\ Active(j) /\ seed'[j] = seed[j] /\ Seen(j) \subseteq Seen(j)'
             /\ seed[j].n > 5 /\ HasGateway(j)' => HasGateway(j)
             /\ HasGateway(j) => HasGateway(j)'
  <2>1. j # i /\ Active(j) /\ seed'[j] = seed[j]
    BY <1>2, <1>5
  <2>2. Seen(j) \subseteq Seen(j)' /\ Seen(j)' \subseteq Seen(j) \cup seed[i].pending
    BY <1>1, <2>1 DEF Seen
  <2>3. ASSUME seed[j].n > 5, HasGateway(j)' PROVE HasGateway(j)
    <3>1. PICK g \in Seen(j)' : IsRow(g, seed[j].ids, 5)
      BY <2>1, <2>3 DEF HasGateway, Found
    <3>2. g.table = "gateways" /\ g.id = seed[j].ids.gateways
      BY <3>1, GatewayRow
    <3>3. g \in seed[i].pending => g.id = 100 * i + 5
      BY <1>1, <3>2 DEF DoneInv, Held
    <3>4. g \in Seen(j)
      BY <1>1, <2>1, <2>2, <2>3, <3>1, <3>2, <3>3, NotMadeAgain
    <3> QED
      BY <3>1, <3>4 DEF HasGateway, Found
  <2>4. HasGateway(j) => HasGateway(j)'
    BY <2>1, <2>2 DEF HasGateway, Found
  <2> QED
    BY <2>1, <2>2, <2>3, <2>4
<1>6. ASSUME NEW j \in Runs, Active(j)', NEW r \in seed[j].pending, r.table \in GatewayTables
      PROVE  HasGateway(j)'
  BY <1>5, <1>6 DEF DoneInv, Held
<1>7. \A j \in Runs : Active(j)' => \A r \in Seen(j) : Kept(j, r)
  BY <1>5 DEF Kept
<1> QED
  BY <1>1, <1>3, <1>4, <1>5, <1>6, <1>7, DoneFrame

\* The API adds rows.
LEMMA DoneApiInserts ==
    ASSUME SeedInv, DoneInv, ApiCreates \/ ApiRegistersGateway \/ ApiAddsChannel
    PROVE  DoneInv'
<1>1. UNCHANGED <<seed, removed>> /\ rows \subseteq rows'
  BY DEF ApiCreates, ApiRegistersGateway, ApiAddsChannel, ApiCall
<1>2. /\ \A g \in rows' \ rows : g.table = "gateways" => g.id = 0 /\ AdminRow \in rows'
      /\ \A g \in rows' \ rows : g.table = "gateways" => AdminRow \notin rows
  <2>1. CASE ApiCreates
    BY <2>1 DEF ApiCreates
  <2>2. CASE ApiRegistersGateway
    BY <2>2 DEF ApiRegistersGateway, AdminRow
  <2>3. CASE ApiAddsChannel
    <3>1. \A n \in 8..10 : Statements[n].table # "gateways"
      BY StatementFacts
    <3> QED
      BY <2>3, <3>1 DEF ApiAddsChannel
  <2> QED
    BY <2>1, <2>2, <2>3
<1>3. \A d : Origin(d) => Origin(d)'
  BY <1>1 DEF Origin
<1>4. \A g \in rows' : g.table = "gateways" => Origin(g.id)'
  BY <1>2, <1>3 DEF DoneInv, Origins, Origin
<1>5. \A j \in Runs : Active(j)' => Active(j) /\ seed'[j] = seed[j] /\ Seen(j) \subseteq Seen(j)'
  BY <1>1 DEF Active, Seen
<1>6. ASSUME NEW j \in Runs, Active(j)', seed[j].n > 5, HasGateway(j)' PROVE HasGateway(j)
  <2>1. PICK g \in Seen(j)' : IsRow(g, seed[j].ids, 5)
    BY <1>1, <1>6 DEF HasGateway, Found
  <2>2. g.table = "gateways" /\ g.id = seed[j].ids.gateways
    BY <2>1, GatewayRow
  <2>3. g \in rows' => g \in rows
    BY <1>2, <1>5, <1>6, <2>2, NotMadeAgain
  <2>4. g \in Seen(j)
    BY <1>1, <2>1, <2>3 DEF Seen
  <2> QED
    BY <2>1, <2>4 DEF HasGateway, Found
<1>7. ASSUME NEW j \in Runs, Active(j)', NEW r \in seed[j].pending, r.table \in GatewayTables
      PROVE  HasGateway(j)'
  <2>1. HasGateway(j)
    BY <1>5, <1>7 DEF DoneInv, Held
  <2> QED
    BY <1>1, <1>5, <1>7, <2>1 DEF HasGateway, Found
<1>8. \A j \in Runs : Active(j)' => \A r \in Seen(j) : Kept(j, r)
  BY <1>5 DEF Kept
<1> QED
  BY <1>1, <1>3, <1>4, <1>5, <1>6, <1>7, <1>8, DoneFrame

\* The API deletes the gateway: no run can hold it then, and none finds it again.
LEMMA DoneApiDeletes ==
    ASSUME SeedInv, DoneInv, ApiDeletesGateway
    PROVE  DoneInv'
<1>1. PICK g \in rows :
        /\ g.table = "gateways"
        /\ ~\E i \in Runs : Active(i) /\ \E r \in seed[i].pending :
               r.table \in SlugTables /\ r.of[1] = g.id
        /\ rows' = rows \ ({g} \cup {r \in rows : r.table \in SlugTables /\ r.of[1] = g.id})
  BY DEF ApiDeletesGateway, Made
<1>2. UNCHANGED <<seed, removed>>
  BY DEF ApiDeletesGateway, ApiCall
<1>3. \A r \in rows : r.table \notin GatewayTables => r \in rows'
  BY <1>1 DEF GatewayTables
<1>4. \A d : Origin(d) => Origin(d)'
  <2>1. AdminRow \in rows => AdminRow \in rows'
    BY <1>3 DEF AdminRow, GatewayTables, SlugTables
  <2> QED
    BY <1>2, <2>1 DEF Origin
<1>5. \A h \in rows' : h.table = "gateways" => Origin(h.id)'
  BY <1>1, <1>4 DEF DoneInv, Origins
<1>6. \A j \in Runs : Active(j)' => Active(j) /\ seed'[j] = seed[j]
  BY <1>2 DEF Active
<1>7. ASSUME NEW j \in Runs, Active(j)
      PROVE  \A h \in Seen(j) : h.table = "gateways" => h = g /\ h \notin seed[j].pending
  <2> SUFFICES ASSUME NEW h \in Seen(j), h.table = "gateways"
               PROVE  h = g /\ h \notin seed[j].pending
    OBVIOUS
  <2>1. h \in Inserted /\ g \in Inserted
    BY <1>7, AtStatement
  <2>2. h = g
    BY <1>1, <2>1 DEF SeedInv, OneEach, AtMostOne
  <2>3. ASSUME h \in seed[j].pending PROVE FALSE
    <3>1. g.id = 100 * j + 5 /\ Origin(g.id) /\ seed[j].at # "ok"
      BY <1>1, <1>7, <2>2, <2>3 DEF DoneInv, Held, Origins, Active
    <3>2. \A i \in Runs : i \in Nat /\ i > 0
      BY ProvisionAssumption
    <3> QED
      BY <3>1, <3>2 DEF Origin
  <2> QED
    BY <2>2, <2>3
<1>8. ASSUME NEW j \in Runs, Active(j)' PROVE ~HasGateway(j)'
  <2> SUFFICES ASSUME NEW h \in Seen(j)', IsRow(h, seed[j].ids, 5) PROVE FALSE
    BY <1>2 DEF HasGateway, Found
  <2>1. h.table = "gateways"
    BY GatewayRow
  <2>2. h \in Seen(j) /\ h # g
    <3>1. h \in rows' \/ h \in seed[j].pending
      BY <1>2 DEF Seen
    <3>2. h \in Seen(j)
      BY <1>1, <3>1 DEF Seen
    <3>3. h = g => h \notin seed[j].pending
      BY <1>6, <1>7, <1>8, <2>1, <3>2
    <3> QED
      BY <1>1, <3>1, <3>2, <3>3
  <2> QED
    BY <1>6, <1>7, <1>8, <2>1, <2>2
<1>9. ASSUME NEW j \in Runs, Active(j)', NEW r \in seed[j].pending, r.table \in GatewayTables
      PROVE  FALSE
  <2>1. Active(j) /\ HasGateway(j) /\ r \in Seen(j)
    BY <1>6, <1>9 DEF DoneInv, Held, Seen
  <2>2. PICK h \in Seen(j) : IsRow(h, seed[j].ids, 5)
    BY <2>1 DEF HasGateway, Found
  <2>3. g.id = seed[j].ids.gateways
    BY <1>7, <2>1, <2>2, GatewayRow
  <2>4. CASE r.table \in SlugTables
    BY <1>1, <1>9, <2>1, <2>3, <2>4 DEF DoneInv, Held
  <2>5. CASE r.table = "gateways"
    BY <1>7, <1>9, <2>1, <2>5
  <2> QED
    BY <1>9, <2>4, <2>5 DEF GatewayTables
<1>10. ASSUME NEW j \in Runs, Active(j)', NEW r \in Seen(j), r.table \notin GatewayTables
       PROVE  r \in Seen(j)'
  BY <1>2, <1>3, <1>10 DEF Seen
<1> QED
  BY <1>2, <1>4, <1>5, <1>6, <1>8, <1>9, <1>10, DoneFrame

\* The API deletes a channel: a run that has passed its statement remembers the slug.
LEMMA DoneApiDeletesOne ==
    ASSUME SeedInv, DoneInv, ApiDeletesChannel
    PROVE  DoneInv'
<1>1. PICK c \in rows :
        /\ c.table \in SlugTables /\ rows' = rows \ {c}
        /\ removed' = [i \in Runs |-> IF Active(i) /\ Passed(i, c)
                                      THEN removed[i] \cup {c.of[2]} ELSE removed[i]]
  BY DEF ApiDeletesChannel
<1>2. UNCHANGED seed
  BY DEF ApiDeletesChannel, ApiCall
<1>3. \A j \in Runs : removed[j] \subseteq removed'[j]
  BY <1>1
<1>4. \A d : Origin(d) => Origin(d)'
  <2>1. AdminRow \in rows => AdminRow \in rows'
    BY <1>1 DEF AdminRow, SlugTables
  <2> QED
    BY <1>2, <2>1 DEF Origin
<1>5. \A h \in rows' : h.table = "gateways" => Origin(h.id)'
  BY <1>1, <1>4 DEF DoneInv, Origins
<1>6. \A j \in Runs : Active(j)' => Active(j) /\ seed'[j] = seed[j]
  BY <1>2 DEF Active
<1>7. ASSUME NEW j \in Runs
      PROVE  Seen(j)' \subseteq Seen(j) /\ \A r \in Seen(j) : r # c => r \in Seen(j)'
  BY <1>1, <1>2 DEF Seen
<1>8. \A j \in Runs : HasGateway(j)' <=> HasGateway(j)
  <2> SUFFICES ASSUME NEW j \in Runs PROVE HasGateway(j)' <=> HasGateway(j)
    OBVIOUS
  <2>1. ~IsRow(c, seed[j].ids, 5)
    BY <1>1, GatewayRow DEF SlugTables
  <2> QED
    BY <1>2, <1>7, <2>1 DEF HasGateway, Found
<1>9. ASSUME NEW j \in Runs, Active(j)', NEW r \in Seen(j) PROVE Kept(j, r)
  <2>1. Active(j)
    BY <1>6, <1>9
  <2>2. r = c /\ Passed(j, r) => r.of[2] \in removed'[j]
    BY <1>1, <2>1
  <2> QED
    BY <1>7, <2>2 DEF Kept
<1>10. ASSUME NEW j \in Runs, NEW r \in Seen(j), r.table \notin GatewayTables
       PROVE  r \in Seen(j)'
  BY <1>1, <1>7, <1>10 DEF GatewayTables
<1>11. ASSUME NEW j \in Runs, Active(j)', NEW r \in seed[j].pending, r.table \in GatewayTables
       PROVE  HasGateway(j)'
  BY <1>6, <1>8, <1>11 DEF DoneInv, Held
<1> QED
  BY <1>3, <1>4, <1>5, <1>6, <1>8, <1>9, <1>10, <1>11, DoneFrame

\* Nothing that it speaks of has changed.
LEMMA DoneQuiet ==
    ASSUME DoneInv, UNCHANGED <<rows, seed, removed>>
    PROVE  DoneInv'
<1>1. \A j \in Runs : /\ Seen(j)' = Seen(j) /\ (HasGateway(j)' <=> HasGateway(j))
                      /\ (Active(j)' <=> Active(j))
  BY DEF Seen, HasGateway, Active
<1>2. \A d : Origin(d)' <=> Origin(d)
  BY DEF Origin
<1>3. Origins'
  BY <1>1, <1>2 DEF DoneInv, Origins, OriginOf
<1>4. \A j \in Runs : Active(j)' => Done(j)' /\ Held(j)'
  BY <1>1 DEF DoneInv, Done, Held
<1> QED
  BY <1>3, <1>4 DEF DoneInv

\* Migrations: no run is at the tables that they change.
LEMMA DoneMigrate ==
    ASSUME SeedInv, DoneInv, UpgradeHead \/ UpgradeCollides \/ Downgrade0002 \/ Downgrade0001
    PROVE  DoneInv'
<1>1. UNCHANGED <<seed, removed>>
  BY DEF UpgradeHead, UpgradeCollides, Downgrade0002, Downgrade0001, histVars
<1>2. \A j \in Runs : Active(j)' => Active(j) /\ seed'[j] = seed[j]
  BY <1>1 DEF Active
<1>3. CASE Downgrade0001
  <2>1. rows' = {} /\ \A j \in Runs : ~Active(j)'
    BY <1>2, <1>3 DEF Downgrade0001
  <2> QED
    BY <2>1 DEF DoneInv, Origins
<1>4. CASE UpgradeCollides
  <2>1. UNCHANGED rows
    BY <1>4 DEF UpgradeCollides
  <2> QED
    BY <1>1, <2>1, DoneQuiet
<1>5. CASE UpgradeHead \/ Downgrade0002
  <2>1. \A j \in Runs : Active(j) => ~(seed[j].n >= 5)
    BY <1>5 DEF UpgradeHead, Downgrade0002, Uses0002Tables
  <2>2. /\ \A r \in rows : r.table \notin SlugTables => r \in rows'
        /\ \A r \in rows' : r.table \notin SlugTables => r \in rows
    <3>1. CASE UpgradeHead
      <4>1. rows' = {Backfilled(r) : r \in rows}
        BY <3>1 DEF UpgradeHead
      <4>2. ASSUME NEW r \in rows
            PROVE  /\ r.table \notin SlugTables => Backfilled(r) = r
                   /\ r.table \in SlugTables => Backfilled(r).table \in SlugTables
        <5>1. RowOK(r)
          BY DEF SeedInv, Shapes
        <5> QED
          BY <5>1 DEF Backfilled, RowOK
      <4> QED
        BY <4>1, <4>2
    <3>2. CASE Downgrade0002
      <4>1. rows' = {IF r.table \in SlugTables THEN [r EXCEPT !.of = <<@[1], 0>>] ELSE r : r \in rows}
        BY <3>2 DEF Downgrade0002
      <4>2. ASSUME NEW r \in rows, r.table \in SlugTables
            PROVE  [r EXCEPT !.of = <<@[1], 0>>].table \in SlugTables
        <5>1. RowOK(r)
          BY DEF SeedInv, Shapes
        <5> QED
          BY <4>2, <5>1 DEF RowOK
      <4> QED
        BY <4>1, <4>2
    <3> QED
      BY <1>5, <3>1, <3>2
  <2>3. \A d : Origin(d) => Origin(d)'
    <3>1. AdminRow \in rows => AdminRow \in rows'
      BY <2>2 DEF AdminRow, SlugTables
    <3> QED
      BY <1>1, <3>1 DEF Origin
  <2>4. \A g \in rows' : g.table = "gateways" => Origin(g.id)'
    <3>1. "gateways" \notin SlugTables
      BY DEF SlugTables
    <3> QED
      BY <2>2, <2>3, <3>1 DEF DoneInv, Origins
  <2>5. ASSUME NEW j \in Runs, Active(j)'
        PROVE  /\ \A r \in Seen(j) : r.table \notin GatewayTables => r \in Seen(j)'
               /\ ~(seed[j].n > 5)
               /\ \A r \in seed[j].pending : r.table \notin GatewayTables
    <3>1. Active(j) /\ Held(j) /\ SeedOK(seed[j])
      BY <1>2, <2>5, AtStatement DEF DoneInv
    <3>2. ~(seed[j].n > 5)
      BY <2>1, <3>1, StatementFacts DEF SeedOK
    <3>3. \A r \in seed[j].pending : r.table \notin GatewayTables
      BY <3>1, <3>2 DEF Held
    <3>4. \A r \in Seen(j) : r.table \notin GatewayTables => r \in Seen(j)'
      BY <1>1, <2>2 DEF Seen, GatewayTables
    <3> QED
      BY <3>2, <3>3, <3>4
  <2> QED
    BY <1>1, <1>2, <2>3, <2>4, <2>5, DoneFrame
<1> QED
  BY <1>3, <1>4, <1>5

\* Every step keeps it.
LEMMA DoneStep == ASSUME SeedInv, DoneInv, [Next]_vars PROVE DoneInv'
<1>1. ASSUME NEW i \in Runs,
             StartSeed(i) \/ SelectRow(i) \/ InsertRow(i) \/ CommitSeed(i) \/ FailSeed(i)
      PROVE  DoneInv'
  BY <1>1, DoneStartFail, DoneSelect, DoneInsert, DoneCommit
<1>2. CASE UNCHANGED vars
  <2>1. UNCHANGED <<rows, seed, removed>>
    BY <1>2 DEF vars, histVars
  <2> QED
    BY <2>1, DoneQuiet
<1> QED
  BY <1>1, <1>2, DoneApiInserts, DoneApiDeletes, DoneApiDeletesOne, DoneMigrate DEF Next

\* Only conn.commit() ends a run well.
LEMMA OnlyCommit ==
    ASSUME SeedInv, [Next]_vars, NEW i \in Runs, seed'[i].at = "ok", seed[i].at # "ok"
    PROVE  CommitSeed(i)
<1>1. DOMAIN seed = Runs
  BY DEF SeedInv, Shapes
<1>2. ~UNCHANGED seed
  OBVIOUS
<1>3. PICK j \in Runs :
        StartSeed(j) \/ SelectRow(j) \/ InsertRow(j) \/ CommitSeed(j) \/ FailSeed(j)
  BY <1>2 DEF Next, vars, ApiCreates, ApiRegistersGateway, ApiAddsChannel,
              ApiDeletesGateway, ApiDeletesChannel, ApiCall, UpgradeHead, UpgradeCollides, Downgrade0002, Downgrade0001
<1>4. PICK x : seed' = [seed EXCEPT ![j] = x] /\ (CommitSeed(j) \/ x.at # "ok")
  <2>1. CASE StartSeed(j)
    BY <2>1 DEF StartSeed
  <2>2. CASE SelectRow(j)
    <3>1. CASE seed' = [seed EXCEPT ![j].at = "insert"]
      <4>1. seed' = [seed EXCEPT ![j] = [seed[j] EXCEPT !.at = "insert"]]
        BY <1>1, <3>1
      <4>2. Active(j)
        BY <2>2 DEF SelectRow, Active
      <4>3. [seed[j] EXCEPT !.at = "insert"].at # "ok"
        BY <4>2, AtStatement DEF SeedOK
      <4> QED
        BY <4>1, <4>3
    <3>2. ASSUME NEW id, seed' = [seed EXCEPT ![j] = NextStatement(j, id, @.pending)]
          PROVE  \E x : seed' = [seed EXCEPT ![j] = x] /\ x.at # "ok"
      <4>1. NextStatement(j, id, seed[j].pending).at # "ok"
        BY DEF NextStatement
      <4> QED
        BY <3>2, <4>1
    <3> QED
      BY <2>2, <3>1, <3>2 DEF SelectRow
  <2>3. CASE InsertRow(j)
    <3>1. \A id, own : NextStatement(j, id, own).at # "ok"
      BY DEF NextStatement
    <3>2. \E id, own : seed' = [seed EXCEPT ![j] = NextStatement(j, id, own)]
      BY <2>3 DEF InsertRow
    <3> QED
      BY <3>1, <3>2
  <2>4. CASE FailSeed(j)
    BY <2>4 DEF FailSeed, Ended
  <2>5. CASE CommitSeed(j)
    BY <2>5 DEF CommitSeed
  <2> QED
    BY <1>3, <2>1, <2>2, <2>3, <2>4, <2>5
<1>5. i = j
  BY <1>1, <1>4
<1> QED
  BY <1>1, <1>4, <1>5

\* When all statements are done and the run holds the gateway, everything is there.
LEMMA CommitComplete ==
    ASSUME SeedInv, DoneInv, NEW i \in Runs, CommitSeed(i),
           NEW h \in seed[i].pending, h.table \in GatewayTables
    PROVE  CompleteBut(removed[i])'
<1> DEFINE ids == seed[i].ids
           set == Seen(i)
<1>1. Active(i) /\ rows' = set /\ ~(seed[i].n <= 10) /\ removed' = removed
  BY StatementFacts DEF CommitSeed, Active, Seen, SeedInv, Shapes, SeedOK, histVars
<1>2. seed[i].n - 1 = 10 /\ HasGateway(i)
  <2>1. seed[i].n \in 1..11 /\ Held(i)
    BY <1>1, AtStatement DEF DoneInv
  <2> QED
    BY <1>1, <2>1 DEF Held
<1>3. \A m \in 1..10 : Found(set, ids, m) \/ (m >= 8 /\ Statements[m].slug \in removed[i])
  <2>1. Done(i)
    BY <1>1 DEF DoneInv
  <2> QED
    BY <1>2, <2>1 DEF Done, HasGateway
<1>4. PICK c \in set : c.table = "companies" /\ c.id = ids.companies
  <2>1. 1 \in 1..10 /\ Statements[1].table = "companies"
    BY StatementFacts
  <2> QED
    BY <1>3, <2>1 DEF Found, IsRow, IdTables
<1>5. PICK u \in set : u.table = "users" /\ u.id = ids.users
  <2>1. 3 \in 1..10 /\ Statements[3].table = "users"
    BY StatementFacts
  <2> QED
    BY <1>3, <2>1 DEF Found, IsRow, IdTables
<1>6. PICK g \in set : g.table = "gateways" /\ g.id = ids.gateways
  <2>1. 5 \in 1..10 /\ Statements[5].table = "gateways"
    BY StatementFacts
  <2> QED
    BY <1>3, <2>1 DEF Found, IsRow, IdTables
<1>7. PICK p \in set : p.table = "sensor_profiles"
  <2>1. 7 \in 1..10 /\ Statements[7].table = "sensor_profiles"
    BY StatementFacts
  <2> QED
    BY <1>3, <2>1 DEF Found, IsRow
<1>8. \E s \in set : s.table = "sites" /\ s.of[1] = c.id
  <2>1. 2 \in 1..10 /\ Statements[2].table = "sites"
    BY StatementFacts
  <2>2. OfAt(ids, 2) = <<ids.companies, 0>>
    BY <2>1, OfAtFacts
  <2> QED
    BY <1>3, <1>4, <2>1, <2>2 DEF Found, IsRow
<1>9. \E r \in set : r.table = "user_company_roles" /\ r.of = <<u.id, c.id>>
  <2>1. 4 \in 1..10 /\ Statements[4].table = "user_company_roles"
    BY StatementFacts
  <2>2. OfAt(ids, 4) = <<ids.users, ids.companies>>
    BY <2>1, OfAtFacts
  <2> QED
    BY <1>3, <1>4, <1>5, <2>1, <2>2 DEF Found, IsRow
<1>10. \E r \in set : r.table = "user_gateway_permissions" /\ r.of = <<u.id, g.id>>
  <2>1. 6 \in 1..10 /\ Statements[6].table = "user_gateway_permissions"
    BY StatementFacts
  <2>2. OfAt(ids, 6) = <<ids.users, ids.gateways>>
    BY <2>1, OfAtFacts
  <2> QED
    BY <1>3, <1>5, <1>6, <2>1, <2>2 DEF Found, IsRow
<1>11. ASSUME NEW m \in 8..10, Statements[m].slug \notin removed[i]
       PROVE  \E r \in set : /\ r.table = Statements[m].table
                             /\ r.of = <<g.id, Statements[m].slug>>
  <2>1. m \in 1..10 /\ m >= 8
    OBVIOUS
  <2>2. OfAt(ids, m) = <<ids.gateways, Statements[m].slug>>
    BY <2>1, OfAtFacts
  <2> QED
    BY <1>3, <1>6, <1>11, <2>1, <2>2 DEF Found, IsRow
<1>12. /\ Statements[8] = [table |-> "sensor_channels", slug |-> 1]
       /\ Statements[9] = [table |-> "actuator_channels", slug |-> 2]
       /\ Statements[10] = [table |-> "actuator_channels", slug |-> 3]
  BY DEF Statements
<1>13. /\ 1 \in removed[i] \/ \E r \in set : r.table = "sensor_channels" /\ r.of = <<g.id, 1>>
       /\ 2 \in removed[i] \/ \E r \in set : r.table = "actuator_channels" /\ r.of = <<g.id, 2>>
       /\ 3 \in removed[i] \/ \E r \in set : r.table = "actuator_channels" /\ r.of = <<g.id, 3>>
  <2>1. 8 \in 8..10 /\ 9 \in 8..10 /\ 10 \in 8..10
    OBVIOUS
  <2> QED
    BY <1>11, <1>12, <2>1
<1> HIDE DEF set
<1>14. /\ c \in Made("companies")' /\ u \in Made("users")' /\ g \in Made("gateways")'
       /\ p \in Made("sensor_profiles")'
  BY <1>1, <1>4, <1>5, <1>6, <1>7 DEF Made
<1>15. /\ \E s \in Made("sites")' : s.of[1] = c.id
       /\ \E r \in Made("user_company_roles")' : r.of = <<u.id, c.id>>
       /\ \E r \in Made("user_gateway_permissions")' : r.of = <<u.id, g.id>>
  BY <1>1, <1>8, <1>9, <1>10 DEF Made
<1>16. /\ 1 \in removed'[i] \/ \E r \in Slugged("sensor_channels", 1)' : r.of[1] = g.id
       /\ \A n \in {2, 3} \ removed'[i] : \E r \in Slugged("actuator_channels", n)' : r.of[1] = g.id
  BY <1>1, <1>13 DEF Slugged
<1> QED
  BY <1>14, <1>15, <1>16 DEF CompleteBut

\* Any number of runs, API calls and migrations, in any order: a run that adds the
\* gateway or a channel and commits leaves everything a simulated gateway needs, but
\* channels that a call of the API deleted after the run had found them.
THEOREM SuccessMeansCompleteHolds == Spec => SuccessMeansComplete
<1>1. Init => DoneInv
  <2> SUFFICES ASSUME Init PROVE DoneInv
    OBVIOUS
  <2>1. rows = {} /\ \A i \in Runs : ~Active(i)
    BY DEF Init, Active, NotRun
  <2> QED
    BY <2>1 DEF DoneInv, Origins
<1>2. SeedInv /\ DoneInv /\ [Next]_vars =>
        [\A i \in Runs :
           /\ seed'[i].at = "ok" /\ seed[i].at # "ok"
           /\ \E r \in seed[i].pending : r.table \in SlugTables \cup {"gateways"}
           => CompleteBut(removed[i])']_vars
  <2> SUFFICES ASSUME SeedInv, DoneInv, [Next]_vars, NEW i \in Runs,
                      seed'[i].at = "ok", seed[i].at # "ok",
                      NEW r \in seed[i].pending, r.table \in SlugTables \cup {"gateways"}
               PROVE  CompleteBut(removed[i])'
    OBVIOUS
  <2>1. CommitSeed(i)
    BY OnlyCommit
  <2> QED
    BY <2>1, CommitComplete DEF GatewayTables
<1> QED
  BY <1>1, <1>2, SeedInit, SeedStep, DoneStep, PTL DEF Spec, SuccessMeansComplete

-------------------------------------------------------------------------------
(* sim-seed.py and the migrations: types *)

TypedRow(r) == r.table \in TableNames /\ r.of \in Nat \X Nat /\ r.id \in Nat

TypedRun(s) ==
    /\ s.at \in {"new", "ok", "failed", "select", "insert"}
    /\ s.at \in {"select", "insert"} =>
         s.ids \in [IdTables -> Nat] /\ \A r \in s.pending : TypedRow(r)

Typed ==
    /\ migrations \in 0..MaxMigrations
    /\ apiCalls \in 0..MaxApiCalls
    /\ removed \in [Runs -> SUBSET Nat]
    /\ \A r \in rows : TypedRow(r)
    /\ \A i \in Runs : TypedRun(seed[i])

\* The tables of the statements are tables of the schema.
LEMMA StatementTables ==
    /\ \A n \in 1..10 : Statements[n].table \in TableNames /\ Statements[n].slug \in Nat
    /\ {"companies", "sites", "sensor_profiles", "gateways", "user_gateway_permissions"}
         \subseteq TableNames
<1>1. TableNames = {"companies", "sites", "users", "user_company_roles",
                    "user_gateway_permissions", "gateway_profiles", "gateways",
                    "sensor_profiles", "sensor_channels", "actuator_channels", "telemetry",
                    "telemetry_latest", "commands", "audit_logs"}
  BY DEF TableNames, Orm
<1>2. ASSUME NEW n \in 1..10 PROVE Statements[n].table \in TableNames /\ Statements[n].slug \in Nat
  <2>1. CASE n \in {1, 2, 3, 4, 5}
    BY <1>1, <2>1 DEF Statements
  <2>2. CASE n \in {6, 7, 8, 9, 10}
    BY <1>1, <2>2 DEF Statements
  <2> QED
    BY <2>1, <2>2
<1> QED
  BY <1>1, <1>2

\* What a statement of a typed run matches is a pair of numbers.
LEMMA OfTyped ==
    ASSUME NEW i \in Runs, seed[i].n \in 1..10, seed[i].ids \in [IdTables -> Nat]
    PROVE  Of(i) \in Nat \X Nat
<1>1. PICK ids, n : ids = seed[i].ids /\ n = seed[i].n
  OBVIOUS
<1>2. n \in 1..10 /\ Of(i) = OfAt(ids, n)
  BY <1>1 DEF Of, OfAt
<1>3. ids.companies \in Nat /\ ids.users \in Nat /\ ids.gateways \in Nat
  BY <1>1 DEF IdTables
<1>4. Statements[n].slug \in Nat
  BY <1>2, StatementTables
<1>5. PICK c, u, g, sl : /\ c = ids.companies /\ u = ids.users /\ g = ids.gateways
                         /\ sl = Statements[n].slug
  OBVIOUS
<1>6. c \in Nat /\ u \in Nat /\ g \in Nat /\ sl \in Nat
  BY <1>3, <1>4, <1>5
<1>7. /\ n \in {1, 3, 5, 7} => Of(i) = <<0, 0>>
      /\ n = 2 => Of(i) = <<c, 0>>
      /\ n = 4 => Of(i) = <<u, c>>
      /\ n = 6 => Of(i) = <<u, g>>
      /\ n >= 8 => Of(i) = <<g, sl>>
  <2>1. /\ n \in {1, 3, 5, 7} => OfAt(ids, n) = <<0, 0>>
        /\ n = 2 => OfAt(ids, n) = <<ids.companies, 0>>
        /\ n = 4 => OfAt(ids, n) = <<ids.users, ids.companies>>
        /\ n = 6 => OfAt(ids, n) = <<ids.users, ids.gateways>>
        /\ n >= 8 => OfAt(ids, n) = <<ids.gateways, Statements[n].slug>>
    BY <1>2, OfAtFacts, Zenon
  <2> QED
    BY <1>2, <1>5, <2>1, Zenon
<1>8. n \in {1, 3, 5, 7} \/ n = 2 \/ n = 4 \/ n = 6 \/ n >= 8
  BY <1>2
<1>9. /\ <<0, 0>> \in Nat \X Nat /\ <<c, 0>> \in Nat \X Nat /\ <<u, c>> \in Nat \X Nat
      /\ <<u, g>> \in Nat \X Nat /\ <<g, sl>> \in Nat \X Nat
  BY <1>6
<1> QED
  BY <1>7, <1>8, <1>9, Zenon

\* The record after a statement.
LEMMA NextTyped ==
    ASSUME NEW i \in Runs, seed[i].ids \in [IdTables -> Nat], NEW id \in Nat, NEW own,
           \A r \in own : TypedRow(r)
    PROVE  TypedRun(NextStatement(i, id, own))
<1> DEFINE x == NextStatement(i, id, own)
<1>1. x.at \in {"select", "insert"} /\ x.pending = own
  BY DEF NextStatement
<1>2. x.ids \in [IdTables -> Nat]
  BY DEF NextStatement
<1> QED
  BY <1>1, <1>2 DEF TypedRun

\* The steps of a run.
LEMMA TypedRuns ==
    ASSUME SeedInv, Typed, NEW i \in Runs,
           StartSeed(i) \/ SelectRow(i) \/ InsertRow(i) \/ CommitSeed(i) \/ FailSeed(i)
    PROVE  Typed'
<1>1. DOMAIN seed = Runs /\ UNCHANGED <<migrations, apiCalls, removed>>
  BY DEF SeedInv, Shapes, StartSeed, SelectRow, InsertRow, CommitSeed, FailSeed, histVars
<1>2. ASSUME NEW x, seed' = [seed EXCEPT ![i] = x], TypedRun(x), \A r \in rows' : TypedRow(r)
      PROVE  Typed'
  BY <1>1, <1>2 DEF Typed
<1>3. Active(i) => /\ seed[i].ids \in [IdTables -> Nat] /\ \A r \in seed[i].pending : TypedRow(r)
                   /\ SeedOK(seed[i]) /\ seed[i].n \in 1..11
  BY AtStatement DEF Typed, TypedRun, Active
<1>4. CASE StartSeed(i)
  <2>1. PICK x : x = [at |-> "select", n |-> 1, pending |-> {}, ids |-> [t \in IdTables |-> 0]]
    OBVIOUS
  <2>2. seed' = [seed EXCEPT ![i] = x] /\ UNCHANGED rows
    BY <1>4, <2>1 DEF StartSeed, IdTables
  <2>3. TypedRun(x)
    BY <2>1 DEF TypedRun
  <2> QED
    BY <1>2, <2>2, <2>3 DEF Typed
<1>5. CASE SelectRow(i)
  <2>1. Active(i) /\ UNCHANGED rows
    BY <1>5 DEF SelectRow, Active
  <2>2. ASSUME NEW r \in rows \cup seed[i].pending,
               seed' = [seed EXCEPT ![i] = NextStatement(i, r.id, @.pending)]
        PROVE  Typed'
    <3>1. r.id \in Nat
      BY <1>3, <2>1 DEF Typed, TypedRow
    <3>2. TypedRun(NextStatement(i, r.id, seed[i].pending))
      BY <1>3, <2>1, <3>1, NextTyped
    <3> QED
      BY <1>2, <2>1, <2>2, <3>2 DEF Typed
  <2>3. ASSUME seed' = [seed EXCEPT ![i].at = "insert"] PROVE Typed'
    <3>1. PICK x : x = [seed[i] EXCEPT !.at = "insert"]
      OBVIOUS
    <3>2. x.at = "insert" /\ x.ids = seed[i].ids /\ x.pending = seed[i].pending
      BY <1>3, <2>1, <3>1 DEF SeedOK
    <3>3. TypedRun(x)
      BY <1>3, <2>1, <3>2 DEF TypedRun
    <3>4. seed' = [seed EXCEPT ![i] = x]
      BY <1>1, <2>3, <3>1
    <3> QED
      BY <1>2, <2>1, <3>3, <3>4 DEF Typed
  <2> QED
    BY <1>5, <2>2, <2>3 DEF SelectRow, Matches
<1>6. CASE InsertRow(i)
  <2>1. Active(i) /\ UNCHANGED rows /\ seed[i].n \in 1..10
    <3>1. Active(i) /\ UNCHANGED rows /\ seed[i].n <= 10
      BY <1>6, StatementFacts DEF InsertRow, Active
    <3> QED
      BY <1>3, <3>1
  <2>2. PICK new : new = [table |-> Statements[seed[i].n].table, of |-> Of(i), id |-> NewId(i)]
    OBVIOUS
  <2>3. TypedRow(new) /\ new.id \in Nat
    <3>1. NewId(i) \in Nat
      BY <2>1, ProvisionAssumption DEF NewId
    <3>2. Of(i) \in Nat \X Nat
      BY <1>3, <2>1, OfTyped
    <3> QED
      BY <2>1, <2>2, <3>1, <3>2, StatementTables DEF TypedRow
  <2>4. \/ seed' = [seed EXCEPT ![i] = NextStatement(i, new.id, seed[i].pending \cup {new})]
        \/ seed' = [seed EXCEPT ![i] = NextStatement(i, 0, seed[i].pending)]
    BY <1>6, <2>2 DEF InsertRow
  <2>5. TypedRun(NextStatement(i, new.id, seed[i].pending \cup {new}))
    <3>1. \A r \in seed[i].pending \cup {new} : TypedRow(r)
      BY <1>3, <2>1, <2>3
    <3> QED
      BY <1>3, <2>1, <2>3, <3>1, NextTyped
  <2>6. TypedRun(NextStatement(i, 0, seed[i].pending))
    BY <1>3, <2>1, NextTyped
  <2> QED
    BY <1>2, <2>1, <2>4, <2>5, <2>6 DEF Typed
<1>7. CASE CommitSeed(i) \/ FailSeed(i)
  <2>1. Active(i) /\ rows' \subseteq rows \cup seed[i].pending
    BY <1>7 DEF CommitSeed, FailSeed, Active
  <2>2. \A how \in {"ok", "failed"} : TypedRun(Ended(how))
    BY DEF TypedRun, Ended
  <2>3. \A r \in rows' : TypedRow(r)
    BY <1>3, <2>1 DEF Typed
  <2> QED
    BY <1>2, <1>7, <2>2, <2>3 DEF CommitSeed, FailSeed
<1> QED
  BY <1>4, <1>5, <1>6, <1>7

\* The steps of the API and of alembic.
LEMMA TypedOthers ==
    ASSUME SeedInv, Typed,
           \/ ApiCreates \/ ApiRegistersGateway \/ ApiAddsChannel
           \/ ApiDeletesGateway \/ ApiDeletesChannel
           \/ UpgradeHead \/ UpgradeCollides \/ Downgrade0002 \/ Downgrade0001
    PROVE  Typed'
<1>1. UNCHANGED seed
  BY DEF ApiCreates, ApiRegistersGateway, ApiAddsChannel, ApiDeletesGateway, ApiDeletesChannel,
         ApiCall, UpgradeHead, UpgradeCollides, Downgrade0002, Downgrade0001
<1>2. migrations' \in 0..MaxMigrations /\ apiCalls' \in 0..MaxApiCalls
  <2>1. CASE ApiCreates \/ ApiRegistersGateway \/ ApiAddsChannel \/ ApiDeletesGateway
             \/ ApiDeletesChannel
    <3>1. ApiCall
      BY <2>1 DEF ApiCreates, ApiRegistersGateway, ApiAddsChannel, ApiDeletesGateway,
                  ApiDeletesChannel
    <3> QED
      BY <3>1, ProvisionAssumption DEF Typed, ApiCall
  <2>2. CASE UpgradeHead \/ UpgradeCollides \/ Downgrade0002 \/ Downgrade0001
    BY <2>2, ProvisionAssumption
    DEF Typed, UpgradeHead, UpgradeCollides, Downgrade0002, Downgrade0001
  <2> QED
    BY <2>1, <2>2
<1>3. \A r \in rows : TypedRow(r) /\ RowOK(r)
  BY DEF Typed, SeedInv, Shapes
<1>4. ASSUME NEW r \in rows, NEW s \in Nat, r.table \in SlugTables
      PROVE  TypedRow([r EXCEPT !.of = <<@[1], s>>])
  <2>1. TypedRow(r) /\ RowOK(r)
    BY <1>3
  <2>2. PICK b : b = [r EXCEPT !.of = <<@[1], s>>]
    OBVIOUS
  <2>3. b.table = r.table /\ b.id = r.id /\ b.of = <<r.of[1], s>>
    BY <2>1, <2>2 DEF RowOK
  <2>4. r.of[1] \in Nat
    BY <2>1 DEF TypedRow
  <2> QED
    BY <2>1, <2>2, <2>3, <2>4 DEF TypedRow
<1>5. \A r \in rows' : TypedRow(r)
  <2>1. CASE ApiCreates \/ ApiRegistersGateway
    <3>1. ASSUME NEW r \in rows' \ rows
          PROVE  /\ r.table \in {"companies", "sites", "sensor_profiles", "gateways",
                                 "user_gateway_permissions"}
                 /\ r.id = 0 /\ \E c \in Nat : r.of = <<c, 0>>
      <4>1. CASE ApiCreates
        <5>1. \A c \in Made("companies") : c.id \in Nat
          BY <1>3 DEF Made, TypedRow
        <5> QED
          BY <3>1, <4>1, <5>1 DEF ApiCreates
      <4>2. CASE ApiRegistersGateway
        BY <3>1, <4>2 DEF ApiRegistersGateway
      <4> QED
        BY <2>1, <4>1, <4>2
    <3>2. \A r \in rows' \ rows : TypedRow(r)
      <4> SUFFICES ASSUME NEW r \in rows' \ rows PROVE TypedRow(r)
        OBVIOUS
      <4>1. PICK c \in Nat : r.of = <<c, 0>>
        BY <3>1
      <4>2. r.of \in Nat \X Nat
        BY <4>1
      <4>3. r.table \in TableNames /\ r.id \in Nat
        BY <3>1, StatementTables
      <4> QED
        BY <4>2, <4>3 DEF TypedRow
    <3> QED
      BY <1>3, <3>2
  <2>2. CASE ApiDeletesGateway \/ ApiDeletesChannel \/ UpgradeCollides \/ Downgrade0001
    BY <1>3, <2>2
    DEF ApiDeletesGateway, ApiDeletesChannel, UpgradeCollides, Downgrade0001
  <2>3. CASE UpgradeHead
    <3>1. \A r \in rows : TypedRow(Backfilled(r))
      BY <1>3, <1>4 DEF Backfilled, TypedRow
    <3> QED
      BY <2>3, <3>1 DEF UpgradeHead
  <2>4. CASE Downgrade0002
    BY <1>3, <1>4, <2>4 DEF Downgrade0002
  <2>5. CASE ApiAddsChannel
    <3>1. PICK g, n, new :
            /\ g \in rows /\ n \in 8..10 /\ rows' = rows \cup {new}
            /\ new = [table |-> Statements[n].table, of |-> <<g.id, Statements[n].slug>>,
                      id |-> n]
      BY <2>5 DEF ApiAddsChannel, Made
    <3>2. g.id \in Nat /\ n \in 1..10 /\ n \in Nat
      BY <1>3, <3>1 DEF TypedRow
    <3>3. Statements[n].table \in TableNames /\ Statements[n].slug \in Nat
      BY <3>2, StatementTables
    <3>4. TypedRow(new)
      BY <3>1, <3>2, <3>3 DEF TypedRow
    <3> QED
      BY <1>3, <3>1, <3>4
  <2> QED
    BY <2>1, <2>2, <2>3, <2>4, <2>5
<1>6. removed' \in [Runs -> SUBSET Nat]
  <2>1. CASE ApiDeletesChannel
    <3>1. PICK c \in rows :
            removed' = [i \in Runs |-> IF Active(i) /\ Passed(i, c)
                                      THEN removed[i] \cup {c.of[2]} ELSE removed[i]]
      BY <2>1 DEF ApiDeletesChannel
    <3>2. c.of[2] \in Nat
      BY <1>3 DEF TypedRow
    <3> QED
      BY <3>1, <3>2 DEF Typed
  <2>2. CASE ~ApiDeletesChannel
    BY <2>2 DEF Typed, ApiCreates, ApiRegistersGateway, ApiAddsChannel, ApiDeletesGateway,
                UpgradeHead, UpgradeCollides, Downgrade0002, Downgrade0001, histVars
  <2> QED
    BY <2>1, <2>2
<1> QED
  BY <1>1, <1>2, <1>5, <1>6 DEF Typed

\* Revisions, rows and transactions keep their types for any number of runs.
THEOREM ProvisionTypeCorrect == Spec => []TypeOK
<1>1. Init => Typed
  BY ProvisionAssumption DEF Init, Typed, TypedRun, NotRun
<1>2. SeedInv /\ Typed /\ [Next]_vars => Typed'
  <2> SUFFICES ASSUME SeedInv, Typed, [Next]_vars PROVE Typed'
    OBVIOUS
  <2>1. ASSUME NEW i \in Runs,
               StartSeed(i) \/ SelectRow(i) \/ InsertRow(i) \/ CommitSeed(i) \/ FailSeed(i)
        PROVE  Typed'
    BY <2>1, TypedRuns
  <2>2. CASE UNCHANGED vars
    BY <2>2 DEF vars, histVars, Typed
  <2> QED
    BY <2>1, <2>2, TypedOthers DEF Next
<1>3. SeedInv /\ Typed => TypeOK
  <2> SUFFICES ASSUME SeedInv, Typed PROVE TypeOK
    OBVIOUS
  <2>1. ASSUME NEW i \in Runs, ~(seed[i].at \in {"new", "ok", "failed"})
        PROVE  /\ seed[i].at \in {"select", "insert"}
               /\ seed[i].n \in 1..(Len(Statements) + 1)
               /\ \A r \in seed[i].pending : r.table \in TableNames
    <3>1. Active(i)
      BY <2>1 DEF Typed, TypedRun, Active
    <3> QED
      BY <3>1 DEF Typed, TypedRun, TypedRow, Active, SeedInv, Shapes, SeedOK
  <2> QED
    BY <2>1 DEF TypeOK, Typed, TypedRow, SeedInv, Shapes
<1> QED
  BY <1>1, <1>2, <1>3, SeedInit, SeedStep, PTL DEF Spec

-------------------------------------------------------------------------------
(* build_plan_hwpx.py: types *)

TextRuns == [op : {"text", "code"}, n : Nat \ {0}]
TableCalls == [op : {"table"}, headers : Nat \ {0}, rows : Seq(Nat), pct : Seq(Nat)]

\* The table under construction has the fields that BuildRow updates.
TableShape == table # NoTable => {"id", "tbl", "call", "cells"} \subseteq DOMAIN table

\* The types that are inductive.
PlanInv == PlanTypeOK /\ TableShape

\* What the next call of a script is.
LEMMA CallType ==
    ASSUME script \in Scripts, at \in 1..Len(script)
    PROVE  /\ Call.op \in {"text", "code", "table"}
           /\ Call.op \in {"text", "code"} => Call.n \in Nat \ {0}
           /\ Call.op = "table" => Call.headers \in Nat /\ Call.rows \in Seq(Nat)
           /\ Len(script) \in Nat
<1>1. script \in Seq(TextRuns \cup TableCalls)
  BY ScriptsAssumption DEF TextRuns, TableCalls
<1>2. Call \in TextRuns \cup TableCalls
  BY <1>1 DEF Call
<1>3. CASE Call \in TextRuns
  BY <1>1, <1>3 DEF TextRuns
<1>4. CASE Call \in TableCalls
  BY <1>1, <1>4 DEF TableCalls
<1> QED
  BY <1>2, <1>3, <1>4

\* Every script is finite.
LEMMA ScriptLength == ASSUME script \in Scripts PROVE Len(script) \in Nat
<1>1. script \in Seq(TextRuns \cup TableCalls)
  BY ScriptsAssumption DEF TextRuns, TableCalls
<1> QED
  BY <1>1

\* The counter of a call that has just ended.
LEMMA Fresh ==
    ASSUME script \in Scripts, at \in 1..Len(script), script' = script, at' = at + 1, k' = 0
    PROVE  /\ at' \in 1..(Len(script') + 1)
           /\ k' \in Nat
           /\ k' <= IF at' <= Len(script') THEN Progress(Call') ELSE 0
<1>1. Len(script) \in Nat
  BY ScriptLength
<1>2. at' \in 1..(Len(script') + 1)
  BY <1>1
<1>3. ASSUME at' <= Len(script) PROVE 0 <= Progress(script[at'])
  <2>1. script \in Seq(TextRuns \cup TableCalls)
    BY ScriptsAssumption DEF TextRuns, TableCalls
  <2>2. script[at'] \in TextRuns \cup TableCalls
    BY <2>1, <1>1, <1>2, <1>3
  <2>3. CASE script[at'] \in TextRuns
    BY <2>3 DEF TextRuns, Progress
  <2>4. CASE script[at'] \in TableCalls
    BY <2>4 DEF TableCalls, Progress
  <2> QED
    BY <2>2, <2>3, <2>4
<1>4. Call' = script[at']
  BY DEF Call
<1> QED
  BY <1>2, <1>3, <1>4

\* Types at the start.
LEMMA PlanTypeInit == PlanInit => PlanInv
<1> SUFFICES ASSUME PlanInit PROVE PlanInv
  OBVIOUS
<1>1. script \in Scripts /\ at = 1 /\ k = 0 /\ table = NoTable
  BY DEF PlanInit
<1>2. Len(script) \in Nat /\ at \in 1..(Len(script) + 1)
  BY <1>1, ScriptLength
<1>3. at <= Len(script) => 0 <= Progress(Call)
  <2> SUFFICES ASSUME at <= Len(script) PROVE 0 <= Progress(Call)
    OBVIOUS
  <2>1. at \in 1..Len(script)
    BY <1>2
  <2> QED
    BY <1>1, <2>1, CallType DEF Progress
<1> QED
  BY <1>1, <1>2, <1>3 DEF PlanInit, PlanInv, PlanTypeOK, TableShape, StartId
\* The steps of a call that is not over, and the end of one.
LEMMA TypeCall ==
    ASSUME PlanInv, NEW n \in Nat, Doing({"text", "code"}),
           n = Call.n, StepOf(n), pid' = pid + 1, UNCHANGED <<script, tid, table, status>>
    PROVE  PlanInv'
<1> USE DEF PlanInv, PlanTypeOK
<1>1. Len(script) \in Nat /\ at \in 1..Len(script)
  BY ScriptLength DEF Doing
<1>2. Call.op # "table" /\ k \in Nat /\ table = NoTable /\ Call.op \in {"text", "code"}
  BY DEF Doing
<1>3. CASE k + 1 < n
  <2>1. at' = at /\ k' = k + 1 /\ Call' = Call
    BY <1>3 DEF StepOf, Call
  <2>2. Call.op \in {"text", "code"} /\ k' <= Call.n - 1
    BY <1>2, <1>3, <2>1
  <2>3. k' <= Progress(Call)
    BY <2>2 DEF Progress
  <2> QED
    BY <1>1, <1>2, <2>1, <2>3 DEF TableShape
<1>4. CASE ~(k + 1 < n)
  <2>1. at' = at + 1 /\ k' = 0
    BY <1>4 DEF StepOf
  <2>2. /\ at' \in 1..(Len(script') + 1) /\ k' \in Nat
        /\ k' <= IF at' <= Len(script') THEN Progress(Call') ELSE 0
    BY <1>1, <2>1, Fresh
  <2> QED
    BY <1>2, <2>1, <2>2 DEF TableShape
<1> QED
  BY <1>3, <1>4

\* A row has a number of cells.
LEMMA RowCells ==
    ASSUME PlanInv, Doing({"table"}), k \in 1..(Len(Call.rows) + 1)
    PROVE  CellsIn(k) \in Nat
<1>1. at \in 1..Len(script) /\ Call.op = "table"
  BY ScriptLength DEF Doing, PlanInv, PlanTypeOK
<1>2. Call.headers \in Nat /\ Call.rows \in Seq(Nat)
  BY <1>1, CallType DEF PlanInv, PlanTypeOK
<1>3. CASE k = 1
  BY <1>2, <1>3 DEF CellsIn
<1>4. CASE k # 1
  <2>1. k - 1 \in 1..Len(Call.rows)
    BY <1>2, <1>4
  <2>2. Call.rows[k - 1] \in Nat
    BY <1>2, <2>1
  <2>3. CellsIn(k) = Call.rows[k - 1]
    BY <1>4 DEF CellsIn
  <2> QED
    BY <2>2, <2>3
<1> QED
  BY <1>3, <1>4

\* The steps of table.
LEMMA TypeTable ==
    ASSUME PlanInv, TableStart \/ BuildRow \/ TableEnd
    PROVE  PlanInv'
<1> USE DEF PlanInv, PlanTypeOK
<1>1. /\ Len(script) \in Nat /\ at \in 1..Len(script) /\ Call.op = "table"
      /\ UNCHANGED script
  BY ScriptLength DEF TableStart, BuildRow, TableEnd, Doing
<1>2. Call.rows \in Seq(Nat) /\ Len(Call.rows) \in Nat /\ Progress(Call) = Len(Call.rows) + 2
  <2>1. Call.rows \in Seq(Nat)
    BY <1>1, CallType
  <2> QED
    BY <1>1, <2>1 DEF Progress
<1>3. CASE TableStart
  <2>1. /\ at' = at /\ k' = 1 /\ Call' = Call /\ pid' = pid + 1 /\ tid' = tid + 1
        /\ table' = [id |-> pid, tbl |-> tid, call |-> at, widths |-> ColWidths(Call),
                     cells |-> {}]
        /\ UNCHANGED status
    BY <1>3 DEF TableStart, Call
  <2>2. table' # NoTable /\ TableShape'
    BY <2>1 DEF NoTable, TableShape
  <2> QED
    BY <1>1, <1>2, <2>1, <2>2
<1>4. CASE BuildRow
  <2>1. at' = at /\ Call' = Call /\ k \in 1..(Len(Call.rows) + 1) /\ UNCHANGED tid
    BY <1>4 DEF BuildRow, Call
  <2>2. table # NoTable /\ {"id", "tbl", "call", "cells"} \subseteq DOMAIN table
    BY <1>1, <2>1 DEF TableShape
  <2>3. table' # NoTable /\ TableShape'
    <3>1. DOMAIN table' = DOMAIN table
      BY <1>4 DEF BuildRow
    <3> QED
      BY <2>2, <3>1 DEF NoTable, TableShape
  <2>4. /\ k' \in {k, k + 1} /\ pid' \in {pid, pid + CellsIn(k)}
        /\ status' \in {status, "failed"}
    BY <1>4 DEF BuildRow
  <2>5. CellsIn(k) \in Nat
    BY <1>4, <2>1, RowCells DEF BuildRow
  <2> QED
    BY <1>1, <1>2, <2>1, <2>3, <2>4, <2>5
<1>5. CASE TableEnd
  <2>1. at' = at + 1 /\ k' = 0 /\ table' = NoTable /\ UNCHANGED <<pid, tid, status>>
    BY <1>5 DEF TableEnd
  <2>2. /\ at' \in 1..(Len(script') + 1) /\ k' \in Nat
        /\ k' <= IF at' <= Len(script') THEN Progress(Call') ELSE 0
    BY <1>1, <2>1, Fresh
  <2> QED
    BY <1>1, <2>1, <2>2 DEF TableShape
<1> QED
  BY <1>3, <1>4, <1>5

\* Every step keeps the types.
LEMMA PlanTypeStep == ASSUME PlanInv, [PlanNext]_planVars PROVE PlanInv'
<1>2. CASE Texts \/ CodeBlock
  <2>1. /\ Doing({"text", "code"}) /\ Call.op \in {"text", "code"}
        /\ pid' = pid + 1 /\ UNCHANGED <<script, tid, table, status>> /\ StepOf(Call.n)
    BY <1>2 DEF Texts, CodeBlock, Doing, Paragraph
  <2>2. Call.n \in Nat
    BY <2>1, ScriptLength, CallType DEF Doing, PlanInv, PlanTypeOK
  <2> QED
    BY <2>1, <2>2, TypeCall
<1>3. CASE TableStart \/ BuildRow \/ TableEnd
  BY <1>3, TypeTable
<1>4. CASE WriteSection
  BY <1>4 DEF WriteSection, PlanInv, PlanTypeOK, TableShape, Call
<1>5. CASE UNCHANGED planVars
  BY <1>5 DEF planVars, PlanInv, PlanTypeOK, TableShape, Call
<1> QED
  BY <1>2, <1>3, <1>4, <1>5 DEF PlanNext

\* Whatever the script: counters and progress have their types, and a table is under
\* construction exactly while its rows are built.
THEOREM PlanTypeCorrect == PlanSpec => []PlanTypeOK
<1>1. PlanInv => PlanTypeOK
  BY DEF PlanInv
<1> QED
  BY <1>1, PlanTypeInit, PlanTypeStep, PTL DEF PlanSpec

-------------------------------------------------------------------------------
(* ids *)

\* The ids up to here lie between SEC_FIRST's and the limit.
Within(x, limit) == \A i \in IdsOf(x) : i \in Nat /\ FirstId < i /\ i < limit

\* A paragraph's cells have ids of their own, above the paragraph's.
OwnIds(x) ==
    /\ \A c \in x.cells : x.id < c.id
    /\ \A c, d \in x.cells : c.id = d.id => c = d

\* Everything that was appended has ids below the counter, and below those of the
\* table under construction, which are below the counter too.
IdsInv ==
    /\ paragraphs \in Seq(Range(paragraphs))
    /\ FirstId < pid
    /\ \A i \in 1..Len(paragraphs) : Within(paragraphs[i], pid)
    /\ table # NoTable =>
         /\ Within(table, pid) /\ OwnIds(table)
         /\ \A i \in 1..Len(paragraphs) : Within(paragraphs[i], table.id)
    /\ IdsFresh

\* Appending to a sequence of anything.
LEMMA Appended ==
    ASSUME NEW s, s \in Seq(Range(s)), NEW e
    PROVE  /\ Append(s, e) \in Seq(Range(Append(s, e)))
           /\ Len(s) \in Nat /\ Len(Append(s, e)) = Len(s) + 1
           /\ \A i \in 1..Len(s) : Append(s, e)[i] = s[i]
           /\ Append(s, e)[Len(s) + 1] = e
<1>1. s \in Seq(Range(s) \cup {e})
  <2>1. Len(s) \in Nat /\ s \in [1..Len(s) -> Range(s) \cup {e}]
    BY LenProperties
  <2> QED
    BY <2>1, SeqDef
<1>2. PICK t : t = Append(s, e)
  OBVIOUS
<1>3. /\ t \in Seq(Range(s) \cup {e}) /\ Len(s) \in Nat /\ Len(t) = Len(s) + 1
      /\ \A i \in 1..Len(s) : t[i] = s[i]
      /\ t[Len(s) + 1] = e
  BY <1>1, <1>2, AppendProperties
<1>4. DOMAIN t = 1..Len(t) /\ t = [i \in 1..Len(t) |-> t[i]]
  BY <1>3, LenProperties
<1>5. t \in [1..Len(t) -> Range(t)]
  BY <1>4 DEF Range
<1>6. t \in Seq(Range(t))
  BY <1>3, <1>5, SeqDef
<1> QED
  BY <1>2, <1>3, <1>6

\* A new paragraph, whose ids are above all earlier ones.
LEMMA FreshAppend ==
    ASSUME IdsInv, pid \in Nat, NEW x, NEW low \in Nat,
           paragraphs' = Append(paragraphs, x), pid' \in Nat, pid <= pid',
           \A i \in 1..Len(paragraphs) : Within(paragraphs[i], low),
           Within(x, pid'), \A i \in IdsOf(x) : low <= i, OwnIds(x)
    PROVE  /\ paragraphs' \in Seq(Range(paragraphs'))
           /\ \A i \in 1..Len(paragraphs') : Within(paragraphs'[i], pid')
           /\ IdsFresh'
<1>1. /\ paragraphs' \in Seq(Range(paragraphs'))
      /\ Len(paragraphs) \in Nat /\ Len(paragraphs') = Len(paragraphs) + 1
      /\ \A i \in 1..Len(paragraphs) : paragraphs'[i] = paragraphs[i]
      /\ paragraphs'[Len(paragraphs) + 1] = x
  <2>1. paragraphs \in Seq(Range(paragraphs))
    BY DEF IdsInv
  <2> QED
    BY <2>1, Appended
<1>2. ASSUME NEW i \in 1..Len(paragraphs') PROVE Within(paragraphs'[i], pid')
  <2>1. CASE i \in 1..Len(paragraphs)
    <3>1. Within(paragraphs[i], pid) /\ paragraphs'[i] = paragraphs[i]
      BY <1>1, <2>1 DEF IdsInv
    <3> QED
      BY <3>1 DEF Within
  <2>2. CASE i = Len(paragraphs) + 1
    BY <1>1, <2>2
  <2> QED
    BY <1>1, <2>1, <2>2
<1>3. IdsFresh'
  <2>1. ASSUME NEW i \in 1..Len(paragraphs)
        PROVE  IdsOf(paragraphs'[i]) \cap IdsOf(x) = {}
    <3>1. Within(paragraphs[i], low) /\ paragraphs'[i] = paragraphs[i]
      BY <1>1, <2>1
    <3> QED
      BY <3>1 DEF Within
  <2>2. FirstId \notin IdsOf(x)
    BY DEF Within, FirstId
  <2>3. Len(paragraphs') - 1 = Len(paragraphs) /\ paragraphs'[Len(paragraphs')] = x
    BY <1>1
  <2>4. ASSUME NEW c \in x.cells PROVE c.id # x.id
    <3>1. c.id \in Nat /\ x.id \in Nat
      BY DEF Within, IdsOf
    <3>2. x.id < c.id
      BY DEF OwnIds
    <3> QED
      BY <3>1, <3>2
  <2> QED
    BY <2>1, <2>2, <2>3, <2>4 DEF IdsFresh, OwnIds
<1> QED
  BY <1>1, <1>2, <1>3

\* A paragraph of text, or a heading.
LEMMA FreshParagraph ==
    ASSUME PlanInv, IdsInv, Paragraph, Doing({"text", "code"})
    PROVE  IdsInv'
<1> DEFINE x == [id |-> pid, op |-> Call.op, cells |-> {}]
<1>1. /\ pid \in Nat /\ pid' = pid + 1 /\ table = NoTable /\ table' = NoTable
      /\ paragraphs' = Append(paragraphs, x) /\ FirstId < pid
  BY DEF PlanInv, PlanTypeOK, Paragraph, Doing, IdsInv
<1>2. IdsOf(x) = {pid} /\ x.cells = {}
  BY DEF IdsOf
<1> HIDE DEF x
<1>3. Within(x, pid') /\ OwnIds(x) /\ \A i \in IdsOf(x) : pid <= i
  BY <1>1, <1>2 DEF Within, OwnIds
<1>4. \A i \in 1..Len(paragraphs) : Within(paragraphs[i], pid)
  BY DEF IdsInv
<1>5. FirstId < pid' /\ pid' \in Nat /\ pid <= pid'
  BY <1>1 DEF FirstId
<1>6. /\ paragraphs' \in Seq(Range(paragraphs'))
      /\ \A i \in 1..Len(paragraphs') : Within(paragraphs'[i], pid')
      /\ IdsFresh'
  BY <1>1, <1>3, <1>4, <1>5, FreshAppend
<1> QED
  BY <1>1, <1>5, <1>6 DEF IdsInv

\* A table takes its own id and its paragraph's first.
LEMMA FreshTable ==
    ASSUME PlanInv, IdsInv, TableStart
    PROVE  IdsInv'
<1>1. /\ pid \in Nat /\ pid' = pid + 1 /\ FirstId < pid
      /\ table' = [id |-> pid, tbl |-> tid, call |-> at, widths |-> ColWidths(Call),
                   cells |-> {}]
      /\ UNCHANGED paragraphs
  BY DEF PlanInv, PlanTypeOK, TableStart, IdsInv
<1>2. table'.id = pid /\ table'.cells = {} /\ IdsOf(table') = {pid}
  BY <1>1 DEF IdsOf
<1>3. FirstId < pid' /\ Within(table', pid') /\ OwnIds(table')
  BY <1>1, <1>2 DEF Within, OwnIds, FirstId
<1>4. \A i \in 1..Len(paragraphs) : Within(paragraphs[i], pid)
  BY DEF IdsInv
<1>5. \A i \in 1..Len(paragraphs) : Within(paragraphs[i], pid')
  BY <1>1, <1>4 DEF Within
<1>6. IdsFresh' /\ paragraphs' \in Seq(Range(paragraphs'))
  BY <1>1 DEF IdsInv, IdsFresh
<1> QED
  BY <1>1, <1>2, <1>3, <1>4, <1>5, <1>6 DEF IdsInv

\* The cells of a row take the next ids.
LEMMA FreshRow ==
    ASSUME PlanInv, IdsInv, BuildRow
    PROVE  IdsInv'
<1>1. /\ pid \in Nat /\ CellsIn(k) \in Nat /\ UNCHANGED paragraphs /\ FirstId < pid
      /\ table # NoTable /\ {"id", "cells"} \subseteq DOMAIN table
  BY RowCells DEF PlanInv, PlanTypeOK, BuildRow, Doing, IdsInv, TableShape
<1>2. /\ Within(table, pid) /\ OwnIds(table)
      /\ \A i \in 1..Len(paragraphs) : Within(paragraphs[i], table.id)
  BY <1>1 DEF IdsInv
<1>3. CASE UNCHANGED <<table, pid>>
  BY <1>1, <1>3 DEF IdsInv, IdsFresh
<1>4. CASE ~UNCHANGED <<table, pid>>
  <2> DEFINE row == {[id |-> pid + c - 1, row |-> k - 1, col |-> c - 1,
                      width |-> table.widths[c]] : c \in 1..CellsIn(k)}
  <2>1. /\ table' = [table EXCEPT !.cells = @ \cup row] /\ pid' = pid + CellsIn(k)
    BY <1>4 DEF BuildRow
  <2>2. table'.id = table.id /\ table'.cells = table.cells \cup row
    BY <1>1, <2>1
  <2>3. \A c \in row : c.id \in Nat /\ pid <= c.id /\ c.id < pid'
    BY <1>1, <2>1
  <2>4. \A c, d \in row : c.id = d.id => c = d
    <3> SUFFICES ASSUME NEW a \in 1..CellsIn(k), NEW b \in 1..CellsIn(k),
                        pid + a - 1 = pid + b - 1
                 PROVE  a = b
      OBVIOUS
    <3> QED
      BY <1>1
  <2> HIDE DEF row
  <2>5. /\ table.id \in Nat /\ FirstId < table.id /\ table.id < pid
        /\ \A c \in table.cells : c.id \in Nat /\ FirstId < c.id /\ c.id < pid
    BY <1>2 DEF Within, IdsOf
  <2>6. pid' \in Nat /\ pid <= pid' /\ FirstId < pid'
    BY <1>1, <2>1 DEF FirstId
  <2>7. Within(table', pid')
    <3> SUFFICES ASSUME NEW i \in IdsOf(table')
                 PROVE  i \in Nat /\ FirstId < i /\ i < pid'
      BY DEF Within
    <3>1. i = table.id \/ (\E c \in table.cells : i = c.id) \/ \E c \in row : i = c.id
      BY <2>2 DEF IdsOf
    <3> QED
      BY <1>1, <2>3, <2>5, <2>6, <3>1 DEF FirstId
  <2>8. OwnIds(table')
    <3>1. \A c \in table'.cells : table'.id < c.id
      BY <1>1, <1>2, <2>2, <2>3, <2>5 DEF OwnIds
    <3>2. \A c, d \in table'.cells : c.id = d.id => c = d
      BY <1>1, <1>2, <2>2, <2>3, <2>4, <2>5 DEF OwnIds
    <3> QED
      BY <3>1, <3>2 DEF OwnIds
  <2>9. \A i \in 1..Len(paragraphs) : Within(paragraphs[i], pid')
    BY <1>1, <2>6 DEF IdsInv, Within
  <2>10. IdsFresh' /\ paragraphs' \in Seq(Range(paragraphs'))
    BY <1>1 DEF IdsInv, IdsFresh
  <2> QED
    BY <1>1, <1>2, <2>2, <2>6, <2>7, <2>8, <2>9, <2>10 DEF IdsInv
<1> QED
  BY <1>3, <1>4

\* A finished table is appended with the ids it has taken.
LEMMA FreshEnd ==
    ASSUME PlanInv, IdsInv, TableEnd
    PROVE  IdsInv'
<1> DEFINE x == [id |-> table.id, op |-> "table", tbl |-> table.tbl,
                 call |-> table.call, cells |-> table.cells]
<1>1. /\ pid \in Nat /\ UNCHANGED pid /\ FirstId < pid /\ table' = NoTable
      /\ paragraphs' = Append(paragraphs, x)
  BY DEF PlanInv, PlanTypeOK, TableEnd, IdsInv
<1>2. table # NoTable
  <2>1. at \in 1..Len(script) /\ Call.op = "table"
    BY ScriptLength DEF TableEnd, Doing, PlanInv, PlanTypeOK
  <2>2. Call.rows \in Seq(Nat)
    BY <2>1, CallType DEF PlanInv, PlanTypeOK
  <2>3. k > 0
    BY <2>2 DEF TableEnd
  <2> QED
    BY <2>1, <2>3 DEF PlanInv, PlanTypeOK
<1>3. /\ Within(table, pid) /\ OwnIds(table)
      /\ \A i \in 1..Len(paragraphs) : Within(paragraphs[i], table.id)
  BY <1>2 DEF IdsInv
<1>4. x.id = table.id /\ x.cells = table.cells
  OBVIOUS
<1> HIDE DEF x
<1>5. IdsOf(x) = IdsOf(table)
  BY <1>4 DEF IdsOf
<1>6. Within(x, pid') /\ OwnIds(x) /\ table.id \in Nat
  BY <1>1, <1>3, <1>4, <1>5 DEF Within, OwnIds, IdsOf
<1>7. ASSUME NEW i \in IdsOf(x) PROVE table.id <= i
  <2>1. i \in Nat /\ (i = table.id \/ \E c \in table.cells : i = c.id)
    BY <1>4, <1>6 DEF IdsOf, Within
  <2>2. \A c \in table.cells : table.id < c.id
    BY <1>3 DEF OwnIds
  <2> QED
    BY <1>6, <2>1, <2>2
<1>8. /\ paragraphs' \in Seq(Range(paragraphs'))
      /\ \A i \in 1..Len(paragraphs') : Within(paragraphs'[i], pid')
      /\ IdsFresh'
  BY <1>1, <1>3, <1>6, <1>7, FreshAppend
<1> QED
  BY <1>1, <1>8 DEF IdsInv

\* No id has been used at the start.
LEMMA IdsInit == PlanInit => IdsInv
  BY DEF PlanInit, IdsInv, IdsFresh, StartId, FirstId, NoTable, Range

\* Every step keeps the ids apart.
LEMMA IdsStep == ASSUME PlanInv, IdsInv, [PlanNext]_planVars PROVE IdsInv'
<1>1. CASE Texts \/ CodeBlock
  <2>1. /\ Doing({"text", "code"})
        /\ Paragraph
    BY <1>1 DEF Texts, CodeBlock, Doing
  <2> QED
    BY <2>1, FreshParagraph
<1>2. CASE WriteSection \/ UNCHANGED planVars
  BY <1>2 DEF WriteSection, planVars, IdsInv, IdsFresh
<1> QED
  BY <1>1, <1>2, FreshTable, FreshRow, FreshEnd DEF PlanNext

\* Whatever script is run, with tables of any shape: no paragraph and no cell of the
\* document has an id that another one has.
THEOREM IdsFreshHolds == PlanSpec => []IdsFresh
<1>1. IdsInv => IdsFresh
  BY DEF IdsInv
<1> QED
  BY <1>1, PlanTypeInit, PlanTypeStep, IdsInit, IdsStep, PTL DEF PlanSpec

-------------------------------------------------------------------------------
(* build_plan_hwpx.py: the widths of a table's columns *)

\* A set of numbers that is not empty has a least one.
LEMMA LeastNumber ==
    ASSUME NEW T, T \subseteq Nat, T # {}
    PROVE  \E n \in T : \A m \in T : n <= m
<1>1. \E n \in T : \A m \in T : ~(<<m, n>> \in OpToRel(<, Nat))
  BY WFMin, NatLessThanWellFounded, ZenonT(60)
<1>2. PICK n \in T : \A m \in T : ~(<<m, n>> \in OpToRel(<, Nat))
  BY <1>1
<1>3. ASSUME NEW m \in T PROVE n <= m
  <2>1. n \in Nat /\ m \in Nat
    OBVIOUS
  <2>2. ~(m < n)
    BY <1>2, <2>1 DEF OpToRel
  <2> QED
    BY <2>1, <2>2
<1> QED
  BY <1>3

\* g holds the sums of the first items of w, up to m of them.
SumsUpTo(w, m, g) == g = [i \in 0..m |-> IF i = 0 THEN 0 ELSE g[i - 1] + w[i]]

\* There are such sums, for every number of items.
LEMMA SumsExist ==
    ASSUME NEW w, NEW n \in Nat
    PROVE  \E g : SumsUpTo(w, n, g)
<1> DEFINE T == {m \in Nat : ~\E g : SumsUpTo(w, m, g)}
<1> SUFFICES ASSUME T # {} PROVE FALSE
  OBVIOUS
<1>1. PICK m \in T : \A j \in T : m <= j
  BY LeastNumber
<1>2. m # 0
  <2>1. PICK g : g = [i \in 0..0 |-> 0]
    OBVIOUS
  <2>2. g = [i \in 0..0 |-> IF i = 0 THEN 0 ELSE g[i - 1] + w[i]]
    BY <2>1
  <2> QED
    BY <2>2 DEF SumsUpTo
<1>3. m - 1 \in Nat /\ m - 1 \notin T
  BY <1>1, <1>2
<1>4. PICK g : SumsUpTo(w, m - 1, g)
  BY <1>3
<1>5. PICK h : h = [i \in 0..m |-> IF i = m THEN g[m - 1] + w[m] ELSE g[i]]
  OBVIOUS
<1>6. ASSUME NEW i \in 0..m PROVE h[i] = IF i = 0 THEN 0 ELSE h[i - 1] + w[i]
  <2>1. CASE i = 0
    BY <1>2, <1>3, <1>4, <1>5, <2>1 DEF SumsUpTo
  <2>2. CASE i # 0 /\ i # m
    <3>1. i \in 0..(m - 1) /\ i - 1 \in 0..m /\ i - 1 # m
      BY <1>3, <2>2
    <3>2. g[i] = g[i - 1] + w[i]
      BY <1>4, <2>2, <3>1 DEF SumsUpTo
    <3>3. h[i] = g[i] /\ h[i - 1] = g[i - 1]
      BY <1>5, <2>2, <3>1
    <3> QED
      BY <2>2, <3>2, <3>3
  <2>3. CASE i = m
    <3>1. i - 1 \in 0..m /\ i - 1 # m
      BY <1>3, <2>3
    <3>2. h[i] = g[m - 1] + w[m] /\ h[i - 1] = g[m - 1]
      BY <1>5, <2>3, <3>1
    <3> QED
      BY <1>2, <2>3, <3>2
  <2> QED
    BY <2>1, <2>2, <2>3
<1>7. SumsUpTo(w, m, h)
  <2>1. h = [i \in 0..m |-> h[i]]
    BY <1>5
  <2> QED
    BY <1>6, <2>1 DEF SumsUpTo
<1> QED
  BY <1>7

\* Two such sums agree.
LEMMA SumsAgree ==
    ASSUME NEW w, NEW m \in Nat, NEW n \in Nat, NEW g, NEW h,
           SumsUpTo(w, m, g), SumsUpTo(w, n, h), NEW i \in Nat, i <= m, i <= n
    PROVE  g[i] = h[i]
<1> DEFINE T == {j \in Nat : j <= m /\ j <= n /\ g[j] # h[j]}
<1> SUFFICES ASSUME T # {} PROVE FALSE
  OBVIOUS
<1>1. PICK j \in T : \A x \in T : j <= x
  BY LeastNumber
<1>2. g[j] = (IF j = 0 THEN 0 ELSE g[j - 1] + w[j]) /\ h[j] = (IF j = 0 THEN 0 ELSE h[j - 1] + w[j])
  BY DEF SumsUpTo
<1>3. CASE j = 0
  BY <1>2, <1>3
<1>4. CASE j # 0
  <2>1. j - 1 \in Nat /\ j - 1 <= m /\ j - 1 <= n /\ ~(j <= j - 1)
    BY <1>4
  <2>2. g[j - 1] = h[j - 1]
    BY <1>1, <2>1
  <2> QED
    BY <1>2, <1>4, <2>2
<1> QED
  BY <1>3, <1>4

\* So that the recursive definition is met by some function, and by SumsOf.
LEMMA SumsEquation ==
    ASSUME NEW w
    PROVE  SumsOf(w) = [i \in Nat |-> IF i = 0 THEN 0 ELSE SumsOf(w)[i - 1] + w[i]]
<1> DEFINE at_(i) == CHOOSE g : SumsUpTo(w, i, g)
           f == [i \in Nat |-> at_(i)[i]]
<1>1. ASSUME NEW i \in Nat PROVE SumsUpTo(w, i, at_(i))
  BY SumsExist
<1> HIDE DEF at_
<1>2. ASSUME NEW i \in Nat PROVE f[i] = IF i = 0 THEN 0 ELSE f[i - 1] + w[i]
  <2>1. at_(i)[i] = IF i = 0 THEN 0 ELSE at_(i)[i - 1] + w[i]
    BY <1>1 DEF SumsUpTo
  <2>2. CASE i = 0
    BY <2>1, <2>2
  <2>3. CASE i # 0
    <3>1. i - 1 \in Nat /\ i - 1 <= i
      BY <2>3
    <3>2. PICK g, h : g = at_(i) /\ h = at_(i - 1)
      OBVIOUS
    <3>3. SumsUpTo(w, i, g) /\ SumsUpTo(w, i - 1, h)
      BY <1>1, <3>1, <3>2
    <3>4. g[i - 1] = h[i - 1]
      BY <3>1, <3>3, SumsAgree
    <3> QED
      BY <2>1, <2>3, <3>1, <3>2, <3>4
  <2> QED
    BY <2>2, <2>3
<1>3. f = [i \in Nat |-> IF i = 0 THEN 0 ELSE f[i - 1] + w[i]]
  BY <1>2
<1> HIDE DEF f
<1>4. SumsOf(w) = CHOOSE g : g = [i \in Nat |-> IF i = 0 THEN 0 ELSE g[i - 1] + w[i]]
  BY DEF SumsOf
<1>5. (CHOOSE g : g = [i \in Nat |-> IF i = 0 THEN 0 ELSE g[i - 1] + w[i]])
        = [i \in Nat |-> IF i = 0 THEN 0
             ELSE (CHOOSE g : g = [j \in Nat |-> IF j = 0 THEN 0 ELSE g[j - 1] + w[j]])[i - 1] + w[i]]
  BY <1>3, Zenon
<1> QED
  BY <1>4, <1>5, Zenon

\* The sums, item by item.
LEMMA SumsStep ==
    ASSUME NEW w
    PROVE  /\ SumsOf(w)[0] = 0
           /\ \A i \in Nat \ {0} : SumsOf(w)[i] = SumsOf(w)[i - 1] + w[i]
<1>1. PICK f : f = SumsOf(w)
  OBVIOUS
<1>2. f = [i \in Nat |-> IF i = 0 THEN 0 ELSE f[i - 1] + w[i]]
  BY <1>1, SumsEquation, Zenon
<1> QED
  BY <1>1, <1>2

\* The widths of n columns are their shares in per cent, rounded down.
InPercent(w, pct, n) == \A c \in 1..n : w[c] = (TXT_WIDTH * pct[c]) \div 100

\* What rounding loses in m columns is less than one unit for each.
LosesLittle(w, pct, m) ==
    /\ SumsOf(w)[m] \in Nat /\ SumsOf(pct)[m] \in Nat
    /\ 100 * SumsOf(w)[m] <= TXT_WIDTH * SumsOf(pct)[m]
    /\ TXT_WIDTH * SumsOf(pct)[m] <= 100 * SumsOf(w)[m] + 99 * m

\* Shares in per cent.
LEMMA SharesInPercent ==
    ASSUME NEW n \in Nat, NEW pct \in [1..n -> Nat], NEW w, InPercent(w, pct, n), NEW m \in 0..n
    PROVE  LosesLittle(w, pct, m)
<1>1. PICK S, P : S = SumsOf(w) /\ P = SumsOf(pct)
  OBVIOUS
<1>2. /\ S[0] = 0 /\ P[0] = 0
      /\ \A i \in Nat \ {0} : S[i] = S[i - 1] + w[i]
      /\ \A i \in Nat \ {0} : P[i] = P[i - 1] + pct[i]
  BY <1>1, SumsStep
<1> DEFINE Good(i) == /\ S[i] \in Nat /\ P[i] \in Nat
                      /\ 100 * S[i] <= 42520 * P[i] /\ 42520 * P[i] <= 100 * S[i] + 99 * i
           T == {i \in Nat : i <= n /\ ~Good(i)}
<1> HIDE DEF Good
<1>3. ASSUME T # {} PROVE FALSE
  <2>a. T \subseteq Nat
    OBVIOUS
  <2> HIDE DEF T
  <2>b. PICK i \in T : \A j \in T : i <= j
    BY <1>3, <2>a, LeastNumber
  <2>1. i \in Nat /\ i <= n /\ ~Good(i) /\ \A j \in Nat : j <= n /\ ~Good(j) => i <= j
    BY <2>b DEF T
  <2>2. i # 0
    <3>1. Good(0)
      BY <1>2 DEF Good
    <3> QED
      BY <2>1, <3>1
  <2>3. i - 1 \in Nat /\ i - 1 <= n /\ ~(i <= i - 1) /\ i \in 1..n
    BY <2>1, <2>2
  <2>4. Good(i - 1)
    BY <2>1, <2>3
  <2>5. S[i] = S[i - 1] + w[i] /\ P[i] = P[i - 1] + pct[i]
    BY <1>2, <2>1, <2>2
  <2>6. /\ pct[i] \in Nat /\ w[i] \in Nat
        /\ 100 * w[i] <= 42520 * pct[i] /\ 42520 * pct[i] <= 100 * w[i] + 99
    <3>1. PICK p \in Nat : p = pct[i]
      BY <2>3
    <3>2. w[i] = (42520 * p) \div 100
      BY <2>3, <3>1 DEF TXT_WIDTH, InPercent
    <3> QED
      BY <3>1, <3>2, SMTT(30)
  <2>7. PICK a, b, x, y : a = S[i - 1] /\ b = P[i - 1] /\ x = w[i] /\ y = pct[i]
    OBVIOUS
  <2>8. /\ a \in Nat /\ b \in Nat /\ x \in Nat /\ y \in Nat
        /\ 100 * a <= 42520 * b /\ 42520 * b <= 100 * a + 99 * (i - 1)
        /\ 100 * x <= 42520 * y /\ 42520 * y <= 100 * x + 99
        /\ S[i] = a + x /\ P[i] = b + y
    BY <2>4, <2>5, <2>6, <2>7 DEF Good
  <2>9. Good(i)
    BY <2>1, <2>8 DEF Good
  <2> QED
    BY <2>1, <2>9
<1>4. m \in Nat /\ m <= n /\ m \notin T
  BY <1>3
<1>5. Good(m)
  BY <1>4
<1> QED
  BY <1>1, <1>5 DEF TXT_WIDTH, Good, LosesLittle

\* Even shares.
LEMMA SharesEven ==
    ASSUME NEW n \in Nat, NEW s \in Nat, NEW w, \A c \in 1..n : w[c] = s, NEW x, x = n * s
    PROVE  SumsOf(w)[n] = x
<1>1. PICK S : S = SumsOf(w)
  OBVIOUS
<1>2. S[0] = 0 /\ \A i \in Nat \ {0} : S[i] = S[i - 1] + w[i]
  BY <1>1, SumsStep
<1> DEFINE T == {i \in Nat : i <= n /\ S[i] # i * s}
<1>3. ASSUME T # {} PROVE FALSE
  <2>1. PICK i \in T : \A j \in T : i <= j
    BY <1>3, LeastNumber
  <2>2. i # 0
    <3>1. 0 * s = 0
      OBVIOUS
    <3> QED
      BY <1>2, <3>1
  <2>3. i - 1 \in Nat /\ i - 1 <= n /\ ~(i <= i - 1) /\ i \in 1..n
    BY <2>2
  <2>4. S[i - 1] = (i - 1) * s
    BY <2>1, <2>3
  <2>5. S[i] = S[i - 1] + s
    BY <1>2, <2>2, <2>3
  <2>6. (i - 1) * s + s = i * s
    BY <2>3
  <2> QED
    BY <2>4, <2>5, <2>6
<1> QED
  BY <1>1, <1>3

\* Sums of integers are integers, and depend on the items that are summed only.
LEMMA SumsSame ==
    ASSUME NEW n \in Nat, NEW w, \A c \in 1..n : w[c] \in Int, NEW v,
           \A c \in 1..n : v[c] = w[c]
    PROVE  SumsOf(v)[n] = SumsOf(w)[n] /\ SumsOf(w)[n] \in Int
<1>1. PICK S, V : S = SumsOf(w) /\ V = SumsOf(v)
  OBVIOUS
<1>2. /\ S[0] = 0 /\ V[0] = 0
      /\ \A i \in Nat \ {0} : S[i] = S[i - 1] + w[i]
      /\ \A i \in Nat \ {0} : V[i] = V[i - 1] + v[i]
  BY <1>1, SumsStep
<1> DEFINE T == {i \in Nat : i <= n /\ ~(V[i] = S[i] /\ S[i] \in Int)}
<1>3. ASSUME T # {} PROVE FALSE
  <2>1. PICK i \in T : \A j \in T : i <= j
    BY <1>3, LeastNumber
  <2>2. i # 0
    BY <1>2
  <2>3. i - 1 \in Nat /\ i - 1 <= n /\ ~(i <= i - 1) /\ i \in 1..n
    BY <2>2
  <2>4. V[i - 1] = S[i - 1] /\ S[i - 1] \in Int
    BY <2>1, <2>3
  <2>5. S[i] = S[i - 1] + w[i] /\ V[i] = V[i - 1] + w[i] /\ w[i] \in Int
    BY <1>2, <2>2, <2>3
  <2> QED
    BY <2>4, <2>5
<1> QED
  BY <1>1, <1>3

\* What is added to the last item is added to the sum.
LEMMA LastGets ==
    ASSUME NEW n \in Nat \ {0}, NEW w, DOMAIN w = 1..n, \A c \in 1..n : w[c] \in Int, NEW d \in Int
    PROVE  SumsOf([w EXCEPT ![n] = w[n] + d])[n] = SumsOf(w)[n] + d
<1>1. PICK v : v = [w EXCEPT ![n] = w[n] + d]
  OBVIOUS
<1>2. v[n] = w[n] + d /\ \A c \in 1..(n - 1) : v[c] = w[c]
  BY <1>1
<1>3. SumsOf(v)[n - 1] = SumsOf(w)[n - 1] /\ SumsOf(w)[n - 1] \in Int
  <2>1. n - 1 \in Nat /\ \A c \in 1..(n - 1) : w[c] \in Int
    OBVIOUS
  <2> QED
    BY <1>2, <2>1, SumsSame
<1>4. /\ SumsOf(v)[n] = SumsOf(v)[n - 1] + v[n]
      /\ SumsOf(w)[n] = SumsOf(w)[n - 1] + w[n]
  BY SumsStep
<1>5. w[n] \in Int
  OBVIOUS
<1>6. PICK a, b : a = SumsOf(w)[n - 1] /\ b = w[n]
  OBVIOUS
<1>7. SumsOf(v)[n] = a + (b + d) /\ SumsOf(w)[n] = a + b /\ a \in Int /\ b \in Int
  BY <1>2, <1>3, <1>4, <1>5, <1>6
<1>8. a + (b + d) = (a + b) + d
  BY <1>7
<1> QED
  BY <1>1, <1>7, <1>8

\* A call of table as the docstring asks for it.
Sized(call) ==
    /\ call \in TableCalls
    /\ call.pct # <<>> => Len(call.pct) = call.headers /\ SumOf(call.pct) = 100

\* What rounding leaves is neither negative nor more than one unit for each column.
LEMMA Remainder ==
    ASSUME NEW call, Sized(call), NEW w, w = [c \in ColumnsOf(call) |-> Share(call, c)]
    PROVE  /\ call.headers \in Nat \ {0} /\ DOMAIN w = 1..call.headers
           /\ \A c \in 1..call.headers : w[c] = Share(call, c) /\ w[c] \in Nat
           /\ SumsOf(w)[call.headers] \in Nat
           /\ TXT_WIDTH - SumsOf(w)[call.headers] \in 0..call.headers
<1>1. PICK n, pct : n = call.headers /\ pct = call.pct
  OBVIOUS
<1>2. n \in Nat \ {0} /\ pct \in Seq(Nat)
  BY <1>1 DEF Sized, TableCalls
<1>3. CASE pct = <<>>
  <2>1. PICK s : s = 42520 \div n
    OBVIOUS
  <2>2. s \in Nat /\ n * s <= 42520 /\ 42520 <= n * s + n
    BY <1>2, <2>1
  <2>3. DOMAIN w = 1..n /\ \A c \in 1..n : w[c] = Share(call, c) /\ w[c] = s
    BY <1>1, <1>3, <2>1 DEF ColumnsOf, Share, TXT_WIDTH
  <2>4. PICK x : x = n * s
    OBVIOUS
  <2>5. SumsOf(w)[n] = x
    <3>1. n \in Nat /\ s \in Nat /\ \A c \in 1..n : w[c] = s
      BY <1>2, <2>2, <2>3
    <3> QED
      BY <2>4, <3>1, SharesEven, Zenon
  <2>7. x \in Nat /\ x <= 42520 /\ 42520 <= x + n
    BY <1>2, <2>2, <2>4
  <2>8. SumsOf(w)[n] \in Nat /\ TXT_WIDTH - SumsOf(w)[n] \in 0..n
    BY <1>2, <2>5, <2>7 DEF TXT_WIDTH
  <2>9. \A c \in 1..n : w[c] = Share(call, c) /\ w[c] \in Nat
    BY <2>2, <2>3
  <2> QED
    BY <1>1, <1>2, <2>3, <2>8, <2>9
<1>4. CASE pct # <<>>
  <2>1. Len(pct) = n /\ SumsOf(pct)[n] = 100 /\ pct \in [1..n -> Nat]
    <3>1. Len(pct) = n /\ SumOf(pct) = 100
      BY <1>1, <1>4 DEF Sized
    <3>2. pct \in [1..n -> Nat]
      BY <1>2, <3>1
    <3> QED
      BY <3>1, <3>2 DEF SumOf
  <2>2. DOMAIN w = 1..n /\ \A c \in 1..n : w[c] = Share(call, c) /\ w[c] = (TXT_WIDTH * pct[c]) \div 100
    BY <1>1, <1>4, <2>1 DEF ColumnsOf, Share
  <2>3. \A c \in 1..n : w[c] \in Nat
    <3> SUFFICES ASSUME NEW c \in 1..n PROVE w[c] \in Nat
      OBVIOUS
    <3>1. PICK p \in Nat : p = pct[c]
      BY <2>1
    <3>2. w[c] = (42520 * p) \div 100
      BY <2>2, <3>1 DEF TXT_WIDTH
    <3> QED
      BY <3>2
  <2>4. n \in 0..n /\ n \in Nat
    BY <1>2
  <2>5. /\ SumsOf(w)[n] \in Nat
        /\ 100 * SumsOf(w)[n] <= TXT_WIDTH * SumsOf(pct)[n]
        /\ TXT_WIDTH * SumsOf(pct)[n] <= 100 * SumsOf(w)[n] + 99 * n
    <3>1. n \in Nat /\ n \in 0..n /\ pct \in [1..n -> Nat] /\ InPercent(w, pct, n)
      BY <2>1, <2>2, <2>4 DEF InPercent
    <3>2. LosesLittle(w, pct, n)
      BY <3>1, SharesInPercent, Zenon
    <3> QED
      BY <3>2 DEF LosesLittle
  <2>6. PICK x : x = SumsOf(w)[n]
    OBVIOUS
  <2>7. x \in Nat /\ 100 * x <= 4252000 /\ 4252000 <= 100 * x + 99 * n
    BY <2>1, <2>5, <2>6 DEF TXT_WIDTH
  <2>8. x \in Nat /\ 42520 - x \in 0..n
    BY <1>2, <2>7
  <2>9. TXT_WIDTH - SumsOf(w)[n] \in 0..n
    BY <2>6, <2>8 DEF TXT_WIDTH
  <2> QED
    BY <1>1, <1>2, <2>2, <2>3, <2>5, <2>9, Zenon
<1> QED
  BY <1>3, <1>4

\* A list of n integers has n items.
LEMMA ListLen ==
    ASSUME NEW n \in Nat, NEW w, w = [c \in 1..n |-> w[c]]
    PROVE  Len(w) = n
<1>1. PICK R : R = {w[c] : c \in 1..n}
  OBVIOUS
<1>2. w \in [1..n -> R]
  BY <1>1
<1>3. w \in Seq(R)
  BY <1>2, SeqDef
<1>4. DOMAIN w = 1..Len(w) /\ Len(w) \in Nat /\ DOMAIN w = 1..n
  BY <1>2, <1>3, LenProperties
<1> QED
  BY <1>4

\* The columns are as wide as the text, and each has its share but for the rounding.
LEMMA WidthsFill ==
    ASSUME NEW call, Sized(call), NEW v, v = ColWidths(call)
    PROVE  /\ call.headers \in Nat \ {0} /\ v = [c \in 1..call.headers |-> v[c]]
           /\ SumOf(v) = TXT_WIDTH
           /\ \A c \in 1..call.headers : v[c] - Share(call, c) \in 0..call.headers
<1>1. PICK n, w : n = call.headers /\ w = [c \in ColumnsOf(call) |-> Share(call, c)]
  OBVIOUS
<1>2. /\ n \in Nat \ {0} /\ DOMAIN w = 1..n
      /\ \A c \in 1..n : w[c] = Share(call, c) /\ w[c] \in Nat
      /\ SumsOf(w)[n] \in Nat /\ TXT_WIDTH - SumsOf(w)[n] \in 0..n
  BY <1>1, Remainder
<1>3. w = [c \in 1..n |-> w[c]] /\ Len(w) = n
  <2>1. w = [c \in 1..n |-> w[c]]
    BY <1>1, <1>2
  <2> QED
    BY <1>2, <2>1, ListLen
<1>4. PICK d : d = TXT_WIDTH - SumsOf(w)[n]
  OBVIOUS
<1>5. v = [w EXCEPT ![n] = w[n] + d]
  BY <1>1, <1>3, <1>4 DEF ColWidths, SumOf
<1>6. v = [c \in 1..n |-> v[c]] /\ v[n] = w[n] + d /\ \A c \in 1..n : c # n => v[c] = w[c]
  BY <1>2, <1>3, <1>5
<1>7. Len(v) = n
  BY <1>2, <1>6, ListLen
<1>8. d \in 0..n /\ d \in Int /\ TXT_WIDTH \in Int
  BY <1>2, <1>4 DEF TXT_WIDTH
<1>9. SumsOf(v)[n] = SumsOf(w)[n] + d
  <2>1. \A c \in 1..n : w[c] \in Int
    BY <1>2
  <2> QED
    BY <1>2, <1>5, <1>8, <2>1, LastGets, ZenonT(30)
<1>10. SumOf(v) = TXT_WIDTH
  BY <1>2, <1>4, <1>7, <1>8, <1>9 DEF SumOf
<1>11. ASSUME NEW c \in 1..n PROVE v[c] - Share(call, c) \in 0..n
  BY <1>2, <1>6, <1>8, SMTT(30)
<1> QED
  BY <1>1, <1>2, <1>6, <1>10, <1>11

\* The tables of a script are sized.
LEMMA CallSized ==
    ASSUME PlanInv, Doing({"table"})
    PROVE  Sized(Call) /\ at \in 1..Len(script) /\ Len(script) \in Nat
<1>1. at \in 1..Len(script) /\ Len(script) \in Nat /\ Call.op = "table" /\ script \in Scripts
  BY ScriptLength DEF Doing, PlanInv, PlanTypeOK
<1>2. script \in Seq(TextRuns \cup TableCalls)
  BY <1>1, ScriptsAssumption DEF TextRuns, TableCalls
<1>3. Call \in TextRuns \cup TableCalls /\ at \in DOMAIN script
  BY <1>1, <1>2 DEF Call
<1>4. Call \in TableCalls
  BY <1>1, <1>3 DEF TextRuns
<1>5. Call.pct # <<>> => Len(Call.pct) = Call.headers /\ SumOf(Call.pct) = 100
  BY <1>1, <1>3, SharesAssumption DEF Call
<1> QED
  BY <1>1, <1>4, <1>5 DEF Sized

\* The cells of a table after its first rows.
CellsFit(cells, widths, n, headers) ==
    /\ \A x \in cells : /\ x.row \in Nat /\ x.row < n
                        /\ x.col \in Nat /\ x.col < headers /\ x.width = widths[x.col + 1]
    /\ \A x, y \in cells : x.row = y.row /\ x.col = y.col => x = y
    /\ n > 0 => \A c \in 1..headers : \E x \in cells : x.row = 0 /\ x.col = c - 1

\* The table under construction fills the width, and its cells lie in it.
TableFits ==
    table # NoTable =>
        /\ {"id", "tbl", "call", "widths", "cells"} \subseteq DOMAIN table
        /\ table.call = at /\ table.widths = ColWidths(Call)
        /\ CellsFit(table.cells, table.widths, k - 1, Call.headers)

FillInv == TableFits /\ TablesFill

\* The table is begun.
LEMMA FillStart ==
    ASSUME PlanInv, FillInv, TableStart
    PROVE  FillInv'
<1>1. /\ table' = [id |-> pid, tbl |-> tid, call |-> at, widths |-> ColWidths(Call),
                   cells |-> {}]
      /\ k' = 1 /\ UNCHANGED <<script, at, paragraphs>>
  BY DEF TableStart
<1>2. /\ {"id", "tbl", "call", "widths", "cells"} \subseteq DOMAIN table'
      /\ table'.call = at /\ table'.widths = ColWidths(Call) /\ table'.cells = {}
  BY <1>1
<1>3. Call' = Call
  BY <1>1 DEF Call
<1>4. CellsFit(table'.cells, table'.widths, k' - 1, Call.headers)
  BY <1>1, <1>2 DEF CellsFit
<1>5. TableFits'
  BY <1>1, <1>2, <1>3, <1>4 DEF TableFits
<1>6. TablesFill'
  BY <1>1 DEF FillInv, TablesFill, Newest
<1> QED
  BY <1>5, <1>6 DEF FillInv

\* The n cells of row r, with ids from p on.
RowOf(p, r, widths, n) ==
    {[id |-> p + c - 1, row |-> r, col |-> c - 1, width |-> widths[c]] : c \in 1..n}

\* One more row, of any length that build_row accepts.
LEMMA RowFits ==
    ASSUME NEW cells, NEW widths, NEW r \in Nat, NEW headers \in Nat, NEW n \in Nat, n <= headers,
           NEW p, CellsFit(cells, widths, r, headers), r = 0 => n = headers, NEW row,
           row = RowOf(p, r, widths, n)
    PROVE  CellsFit(cells \cup row, widths, r + 1, headers)
<1>1. ASSUME NEW x \in row
      PROVE  /\ x.row = r /\ x.col \in Nat /\ x.col < headers
             /\ x = [id |-> p + (x.col + 1) - 1, row |-> r, col |-> x.col,
                     width |-> widths[x.col + 1]]
             /\ x.width = widths[x.col + 1]
  <2>1. PICK c \in 1..n : x = [id |-> p + c - 1, row |-> r, col |-> c - 1, width |-> widths[c]]
    BY DEF RowOf
  <2>2. x.row = r /\ x.col = c - 1 /\ x.width = widths[c]
    BY <2>1
  <2>3. c = x.col + 1 /\ x.col \in Nat /\ x.col < headers
    BY <2>2
  <2> QED
    BY <2>1, <2>2, <2>3
<1>2. \A c \in 1..n : \E x \in row : x.row = r /\ x.col = c - 1
  <2> SUFFICES ASSUME NEW c \in 1..n PROVE \E x \in row : x.row = r /\ x.col = c - 1
    OBVIOUS
  <2>1. PICK x : x = [id |-> p + c - 1, row |-> r, col |-> c - 1, width |-> widths[c]]
    OBVIOUS
  <2>2. x \in row /\ x.row = r /\ x.col = c - 1
    BY <2>1 DEF RowOf
  <2> QED
    BY <2>2
<1>3. \A x \in cells : /\ x.row \in Nat /\ x.row < r
                       /\ x.col \in Nat /\ x.col < headers /\ x.width = widths[x.col + 1]
  BY DEF CellsFit
<1>4. ASSUME NEW x \in cells \cup row
      PROVE  /\ x.row \in Nat /\ x.row < r + 1
             /\ x.col \in Nat /\ x.col < headers /\ x.width = widths[x.col + 1]
  BY <1>1, <1>3
<1>5. ASSUME NEW x \in cells \cup row, NEW y \in cells \cup row, x.row = y.row, x.col = y.col
      PROVE  x = y
  <2>1. CASE x \in cells /\ y \in cells
    BY <1>5, <2>1 DEF CellsFit
  <2>2. CASE x \in row /\ y \in row
    BY <1>1, <1>5, <2>2
  <2>3. CASE (x \in row /\ y \in cells) \/ (x \in cells /\ y \in row)
    BY <1>1, <1>3, <1>5, <2>3
  <2> QED
    BY <2>1, <2>2, <2>3
<1>6. ASSUME NEW c \in 1..headers PROVE \E x \in cells \cup row : x.row = 0 /\ x.col = c - 1
  <2>1. CASE r = 0
    BY <1>2, <2>1
  <2>2. CASE r # 0
    BY <2>2 DEF CellsFit
  <2> QED
    BY <2>1, <2>2
<1> QED
  BY <1>4, <1>5, <1>6 DEF CellsFit

\* A row of the table is built, or the script ends.
LEMMA FillRow ==
    ASSUME PlanInv, FillInv, BuildRow
    PROVE  FillInv'
<1>1. /\ Doing({"table"}) /\ k \in 1..(Len(Call.rows) + 1)
      /\ UNCHANGED <<script, at, paragraphs>>
  BY DEF BuildRow
<1>2. Sized(Call) /\ at <= Len(script) /\ Call.op = "table"
  BY <1>1, CallSized DEF Doing
<1>3. k \in Nat /\ k > 0 /\ table # NoTable /\ CellsIn(k) \in Nat
  BY <1>1, <1>2, RowCells DEF PlanInv, PlanTypeOK
<1>4. /\ {"id", "tbl", "call", "widths", "cells"} \subseteq DOMAIN table
      /\ table.call = at /\ table.widths = ColWidths(Call)
      /\ CellsFit(table.cells, table.widths, k - 1, Call.headers)
  BY <1>3 DEF FillInv, TableFits
<1>5. Call' = Call
  BY <1>1 DEF Call
<1>6. TablesFill'
  BY <1>1 DEF FillInv, TablesFill, Newest
<1>7. CASE UNCHANGED <<table, k>>
  <2>1. TableFits'
    BY <1>1, <1>4, <1>5, <1>7 DEF TableFits
  <2> QED
    BY <1>6, <2>1 DEF FillInv
<1>8. CASE ~UNCHANGED <<table, k>>
  <2>1. PICK row : row = RowOf(pid, k - 1, table.widths, CellsIn(k))
    OBVIOUS
  <2>2. /\ 1..CellsIn(k) \subseteq DOMAIN table.widths
        /\ table' = [table EXCEPT !.cells = @ \cup row] /\ k' = k + 1
    BY <1>8, <2>1 DEF BuildRow, RowOf
  <2>3. /\ DOMAIN table' = DOMAIN table /\ table'.call = table.call
        /\ table'.widths = table.widths /\ table'.cells = table.cells \cup row
    BY <1>4, <2>2
  <2>4. Call.headers \in Nat /\ DOMAIN table.widths = 1..Call.headers
    <3>1. PICK v : v = table.widths
      OBVIOUS
    <3>2. Call.headers \in Nat /\ v = [c \in 1..Call.headers |-> v[c]]
      BY <1>2, <1>4, <3>1, WidthsFill
    <3> QED
      BY <3>1, <3>2
  <2>5. CellsIn(k) <= Call.headers
    BY <1>3, <2>2, <2>4
  <2>6. k - 1 = 0 => CellsIn(k) = Call.headers
    BY <1>3 DEF CellsIn
  <2>7. CellsFit(table.cells \cup row, table.widths, (k - 1) + 1, Call.headers)
    <3>1. PICK r, n, h, v, cells, p : /\ r = k - 1 /\ n = CellsIn(k) /\ h = Call.headers
                                      /\ v = table.widths /\ cells = table.cells /\ p = pid
      OBVIOUS
    <3>2. r \in Nat /\ h \in Nat /\ n \in Nat /\ n <= h /\ (r = 0 => n = h)
      BY <1>3, <2>4, <2>5, <2>6, <3>1
    <3>3. /\ CellsFit(cells, v, r, h)
          /\ row = RowOf(p, r, v, n)
      BY <1>4, <2>1, <3>1
    <3>4. CellsFit(cells \cup row, v, r + 1, h)
      BY <3>2, <3>3, RowFits, Zenon
    <3> QED
      BY <3>1, <3>4
  <2>8. k' - 1 = (k - 1) + 1
    BY <1>3, <2>2
  <2>9. TableFits'
    BY <1>1, <1>4, <1>5, <2>3, <2>7, <2>8 DEF TableFits
  <2> QED
    BY <1>6, <2>9 DEF FillInv
<1> QED
  BY <1>7, <1>8

\* The widths of the header cells are those of the columns.
LEMMA HeaderWidths ==
    ASSUME NEW n \in Nat, NEW cells, NEW v, NEW r \in Nat \ {0}, CellsFit(cells, v, r, n),
           v = [c \in 1..n |-> v[c]]
    PROVE  [c \in 1..n |-> (CHOOSE h \in {x \in cells : x.row = 0} : h.col = c - 1).width] = v
<1>1. ASSUME NEW c \in 1..n
      PROVE  (CHOOSE h \in {x \in cells : x.row = 0} : h.col = c - 1).width = v[c]
  <2>1. PICK header : header = {x \in cells : x.row = 0}
    OBVIOUS
  <2>2. \E x \in header : x.col = c - 1
    BY <2>1 DEF CellsFit
  <2>3. PICK y : y = CHOOSE h \in header : h.col = c - 1
    OBVIOUS
  <2>4. y \in header /\ y.col = c - 1
    BY <2>2, <2>3, Zenon
  <2>5. y.width = v[y.col + 1]
    BY <2>1, <2>4 DEF CellsFit
  <2>6. y.col + 1 = c
    BY <2>4
  <2>7. y.width = v[c]
    BY <2>5, <2>6
  <2> QED
    BY <2>1, <2>3, <2>7, Zenon
<1> QED
  BY <1>1

\* A table whose cells fit fills the width.
LEMMA FillsFrom ==
    ASSUME NEW x, NEW call, Sized(call), NEW v, v = ColWidths(call), NEW r \in Nat,
           r = Len(call.rows), CellsFit(x.cells, v, r + 1, call.headers)
    PROVE  TableFills(x, call)
<1>1. PICK n : n = call.headers
  OBVIOUS
<1>2. /\ n \in Nat \ {0} /\ v = [c \in 1..n |-> v[c]] /\ SumOf(v) = TXT_WIDTH
      /\ \A c \in 1..n : v[c] - Share(call, c) \in 0..n
  BY <1>1, WidthsFill
<1>3. [c \in 1..n |-> (CHOOSE h \in {y \in x.cells : y.row = 0} : h.col = c - 1).width] = v
  <2>1. PICK cells, m : cells = x.cells /\ m = r + 1
    OBVIOUS
  <2>2. n \in Nat /\ m \in Nat \ {0} /\ CellsFit(cells, v, m, n)
    BY <1>1, <1>2, <2>1
  <2>3. [c \in 1..n |-> (CHOOSE h \in {y \in cells : y.row = 0} : h.col = c - 1).width] = v
    BY <1>2, <2>2, HeaderWidths, Zenon
  <2> QED
    BY <2>1, <2>3, Zenon
<1>4. /\ \A y \in x.cells : y.row \in 0..r /\ y.col \in 0..(n - 1)
      /\ \A y, z \in x.cells : y.row = z.row /\ y.col = z.col => y = z
  <2>1. /\ \A y \in x.cells : /\ y.row \in Nat /\ y.row < r + 1
                              /\ y.col \in Nat /\ y.col < n
        /\ \A y, z \in x.cells : y.row = z.row /\ y.col = z.col => y = z
    BY <1>1 DEF CellsFit
  <2> QED
    BY <1>2, <2>1
<1>5. PICK w : w = [c \in 1..n |-> (CHOOSE h \in {y \in x.cells : y.row = 0} : h.col = c - 1).width]
  OBVIOUS
<1>6. SumOf(w) = TXT_WIDTH /\ \A c \in 1..n : w[c] - Share(call, c) \in 0..n
  BY <1>2, <1>3, <1>5, Zenon
<1> QED
  BY <1>1, <1>4, <1>5, <1>6, Zenon DEF TableFills

\* The table is finished.
LEMMA FillEnd ==
    ASSUME PlanInv, IdsInv, FillInv, TableEnd
    PROVE  FillInv'
<1>1. /\ Doing({"table"}) /\ k = Len(Call.rows) + 2 /\ table' = NoTable /\ UNCHANGED script
  BY DEF TableEnd
<1>2. Sized(Call) /\ at <= Len(script) /\ Call.op = "table"
  BY <1>1, CallSized DEF Doing
<1>3. Len(Call.rows) \in Nat /\ k - 1 = Len(Call.rows) + 1 /\ k > 0
  <2>1. Call.rows \in Seq(Nat)
    BY <1>2 DEF Sized, TableCalls
  <2> QED
    BY <1>1, <2>1
<1>4. table # NoTable
  BY <1>2, <1>3 DEF PlanInv, PlanTypeOK
<1>5. /\ table.call = at /\ table.widths = ColWidths(Call)
      /\ CellsFit(table.cells, table.widths, k - 1, Call.headers)
  BY <1>4 DEF FillInv, TableFits
<1>6. PICK x : x = [id |-> table.id, op |-> "table", tbl |-> table.tbl,
                    call |-> table.call, cells |-> table.cells]
  OBVIOUS
<1>7. paragraphs' = Append(paragraphs, x) /\ x.call = at /\ x.cells = table.cells
  BY <1>5, <1>6 DEF TableEnd
<1>8. Newest' = x
  <2>1. paragraphs \in Seq(Range(paragraphs))
    BY DEF IdsInv
  <2>2. Len(paragraphs') = Len(paragraphs) + 1 /\ paragraphs'[Len(paragraphs) + 1] = x
    BY <1>7, <2>1, Appended
  <2> QED
    BY <2>2 DEF Newest
<1>9. script'[x.call] = Call
  BY <1>1, <1>7 DEF Call
<1>10. TableFills(x, Call)
  <2>1. PICK v, r : v = ColWidths(Call) /\ r = Len(Call.rows)
    OBVIOUS
  <2>2. r \in Nat /\ CellsFit(x.cells, v, r + 1, Call.headers)
    BY <1>3, <1>5, <1>7, <2>1
  <2> QED
    BY <1>2, <2>1, <2>2, FillsFrom
<1>11. TablesFill'
  BY <1>8, <1>9, <1>10 DEF TablesFill
<1> QED
  BY <1>1, <1>11 DEF FillInv, TableFits

\* A paragraph of text, or a heading, is no table.
LEMMA FillParagraph ==
    ASSUME PlanInv, IdsInv, FillInv, Paragraph, Doing({"text", "code"})
    PROVE  FillInv'
<1>1. PICK x : x = [id |-> pid, op |-> Call.op, cells |-> {}]
  OBVIOUS
<1>2. /\ table = NoTable /\ table' = NoTable
      /\ paragraphs' = Append(paragraphs, x) /\ x.op # "table"
  BY <1>1 DEF PlanInv, PlanTypeOK, Paragraph, Doing
<1>3. Newest' = x
  <2>1. paragraphs \in Seq(Range(paragraphs))
    BY DEF IdsInv
  <2>2. Len(paragraphs') = Len(paragraphs) + 1 /\ paragraphs'[Len(paragraphs) + 1] = x
    BY <1>2, <2>1, Appended
  <2> QED
    BY <2>2 DEF Newest
<1> QED
  BY <1>2, <1>3 DEF FillInv, TableFits, TablesFill

\* Every step keeps the table and what was appended in shape.
LEMMA FillStep == ASSUME PlanInv, IdsInv, FillInv, [PlanNext]_planVars PROVE FillInv'
<1>1. CASE Texts \/ CodeBlock
  <2>1. /\ Doing({"text", "code"})
        /\ Paragraph
    BY <1>1 DEF Texts, CodeBlock, Doing
  <2> QED
    BY <2>1, FillParagraph
<1>2. CASE WriteSection \/ UNCHANGED planVars
  <2>1. UNCHANGED <<script, at, k, paragraphs, table>>
    BY <1>2 DEF WriteSection, planVars
  <2>2. TablesFill'
    BY <2>1 DEF FillInv, TablesFill, Newest
  <2>3. TableFits'
    BY <2>1 DEF FillInv, TableFits, Call
  <2> QED
    BY <2>2, <2>3 DEF FillInv
<1> QED
  BY <1>1, <1>2, FillStart, FillRow, FillEnd DEF PlanNext

\* Whatever script is run, with tables of any number of columns, rows of any length and
\* shares that add up to 100 as the docstring of table asks: a finished table is as wide
\* as the text, rounding moves no column by more than one unit per column, and no two
\* cells are in one place or outside of the rows and columns that the table declares.
THEOREM TablesFillHolds == PlanSpec => []TablesFill
<1>1. PlanInit => FillInv
  BY DEF PlanInit, FillInv, TableFits, TablesFill
<1>2. FillInv => TablesFill
  BY DEF FillInv
<1> QED
  BY <1>1, <1>2, PlanTypeInit, PlanTypeStep, IdsInit, IdsStep, FillStep, PTL DEF PlanSpec
===============================================================================
