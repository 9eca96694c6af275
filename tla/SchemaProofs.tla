------------------------------ MODULE SchemaProofs -----------------------------
(***************************************************************************)
(* The migrations up and down, whenever one of them dies, for any number   *)
(* of servers of any release and any number of messages: no statement      *)
(* fails, the revision tells the schema, the models fit the newest one,    *)
(* servers of an earlier release go on after a migration, and the service  *)
(* window is known.                                                        *)
(*                                                                         *)
(* The upgrades are one list of 27 statements, All, of which a revision    *)
(* has the first ones: what they leave behind depends on the set of them   *)
(* alone. A downgrade takes back what its upgrade has brought.             *)
(***************************************************************************)
EXTENDS MCHotels, Integers, Sequences, TLAPS

-----------------------------------------------------------------------------
(* The statements of the migrations, one by one.                           *)

(* What a statement is made of.                                            *)
LEMMA StatementForms ==
    /\ \A t, c : /\ Layout!DropColumn(t, c).do = "drop_column" /\ Layout!DropColumn(t, c).table = t
                 /\ Layout!DropColumn(t, c).column = c
    /\ \A t, c : /\ Layout!DropIndex(t, c).do = "drop_index" /\ Layout!DropIndex(t, c).table = t
                 /\ Layout!DropIndex(t, c).index = c
    /\ \A t : Layout!DropTable(t).do = "drop_table" /\ Layout!DropTable(t).table = t
    /\ \A t, c : /\ Layout!Column(t, c).do = "add" /\ Layout!Column(t, c).table = t
                 /\ Layout!Column(t, c).must = {} /\ Layout!Column(t, c).may = {c}
    /\ \A t, key : /\ Layout!Unique(t, key).do = "unique" /\ Layout!Unique(t, key).table = t
                   /\ Layout!Unique(t, key).key = key
    /\ \A t, c : /\ Layout!Index(t, c).do = "index" /\ Layout!Index(t, c).table = t
                 /\ Layout!Index(t, c).index = c
    /\ \A t, must, may, refs :
          /\ Layout!Table(t, must, may, refs).do = "create"
          /\ Layout!Table(t, must, may, refs).table = t
          /\ Layout!Table(t, must, may, refs).must = must
          /\ Layout!Table(t, must, may, refs).may = may
          /\ Layout!Table(t, must, may, refs).refs = refs
    /\ Layout!Backfill.do = "backfill" /\ Layout!Backfill.table = "conversations"
BY DEF Layout!DropColumn, Layout!DropIndex, Layout!DropTable, Layout!Column, Layout!Unique,
       Layout!Index, Layout!Table, Layout!Backfill

(* The statements of all upgrades, one after the other, and how many there *)
(* are up to a revision.                                                   *)
All == Layout!Up1 \o Layout!Up2 \o Layout!Up3
Bound == [r \in 0..3 |-> IF r = 0 THEN 0 ELSE IF r = 1 THEN 16 ELSE IF r = 2 THEN 21 ELSE 27]

(* What each of them does, and to which table. *)
Kind == <<"create", "unique", "index", "create", "unique", "create", "unique", "create",
          "create", "unique", "create", "unique", "create", "unique", "create", "unique",
          "add", "add", "add", "create", "index",
          "add", "add", "backfill", "add", "add", "index">>
Where == <<"hotels", "hotels", "hotels", "staff_users", "staff_users", "rooms", "rooms",
           "guest_stays", "conversations", "conversations", "messages", "messages",
           "escalations", "escalations", "push_subscriptions", "push_subscriptions",
           "hotels", "conversations", "messages", "knowledge_chunks", "knowledge_chunks",
           "conversations", "conversations", "conversations", "messages", "messages", "messages">>
Birth == [hotels |-> 1, staff_users |-> 4, rooms |-> 6, guest_stays |-> 8, conversations |-> 9,
          messages |-> 11, escalations |-> 13, push_subscriptions |-> 15, knowledge_chunks |-> 20]

(* How long the scripts of the upgrades are. *)
LEMMA Lengths == /\ Len(Layout!Up1) = 16 /\ Len(Layout!Up2) = 5 /\ Len(Layout!Up3) = 6
<1>1. Len(Layout!Up1) = 16  BY DEF Layout!Up1
<1>2. Len(Layout!Up2) = 5  BY DEF Layout!Up2
<1>3. Len(Layout!Up3) = 6  BY DEF Layout!Up3
<1> QED  BY <1>1, <1>2, <1>3

(* The members of a script. *)
Elements(s) == {s[i] : i \in 1..Len(s)}
(* The members of all upgrades. *)
Anything == Elements(Layout!Up1) \cup Elements(Layout!Up2) \cup Elements(Layout!Up3)

(* The upgrades are sequences. *)
LEMMA UpTypes ==
    /\ Layout!Up1 \in Seq(Anything) /\ Layout!Up2 \in Seq(Anything) /\ Layout!Up3 \in Seq(Anything)
<1>1. Layout!Up1 \in Seq(Elements(Layout!Up1))  BY DEF Layout!Up1, Elements
<1>2. Layout!Up2 \in Seq(Elements(Layout!Up2))  BY DEF Layout!Up2, Elements
<1>3. Layout!Up3 \in Seq(Elements(Layout!Up3))  BY DEF Layout!Up3, Elements
<1>4. \A T, s : s \in Seq(T) /\ T \subseteq Anything => s \in Seq(Anything)  OBVIOUS
<1> QED  BY <1>1, <1>2, <1>3, <1>4 DEF Anything

(* A concatenation, member by member. *)
LEMMA ConcatShape ==
    ASSUME NEW T, NEW a \in Seq(T), NEW b \in Seq(T)
    PROVE  /\ a \o b \in Seq(T) /\ Len(a \o b) = Len(a) + Len(b)
           /\ \A j \in 1..Len(a) + Len(b) :
                 (a \o b)[j] = IF j <= Len(a) THEN a[j] ELSE b[j - Len(a)]
OBVIOUS

(* The list of all statements, by upgrade. *)
LEMMA AllIsUp ==
    /\ All \in Seq(Anything) /\ Len(All) = 27
    /\ \A i \in 1..16 : All[i] = Layout!Up1[i]
    /\ \A i \in 17..21 : All[i] = Layout!Up2[i - 16]
    /\ \A i \in 22..27 : All[i] = Layout!Up3[i - 21]
<1> DEFINE a == Layout!Up1
           b == Layout!Up2
           c == Layout!Up3
           ab == a \o b
<1>1. /\ a \in Seq(Anything) /\ b \in Seq(Anything) /\ c \in Seq(Anything)
      /\ Len(a) = 16 /\ Len(b) = 5 /\ Len(c) = 6
  BY UpTypes, Lengths
<1> HIDE DEF a, b, c
<1>2. /\ ab \in Seq(Anything) /\ Len(ab) = 21
      /\ \A j \in 1..21 : ab[j] = IF j <= 16 THEN a[j] ELSE b[j - 16]
  <2>1. /\ ab \in Seq(Anything) /\ Len(ab) = Len(a) + Len(b)
        /\ \A j \in 1..Len(a) + Len(b) : ab[j] = IF j <= Len(a) THEN a[j] ELSE b[j - Len(a)]
    BY <1>1, ConcatShape
  <2> HIDE DEF ab
  <2> QED  BY <1>1, <2>1
<1> HIDE DEF ab
<1>3. /\ ab \o c \in Seq(Anything) /\ Len(ab \o c) = 27
      /\ \A j \in 1..27 : (ab \o c)[j] = IF j <= 21 THEN ab[j] ELSE c[j - 21]
  <2> DEFINE abc == ab \o c
  <2>1. /\ abc \in Seq(Anything) /\ Len(abc) = Len(ab) + Len(c)
        /\ \A j \in 1..Len(ab) + Len(c) : abc[j] = IF j <= Len(ab) THEN ab[j] ELSE c[j - Len(ab)]
    BY <1>1, <1>2, ConcatShape
  <2> HIDE DEF abc
  <2>2. abc \in Seq(Anything) /\ Len(abc) = 27
        /\ \A j \in 1..27 : abc[j] = IF j <= 21 THEN ab[j] ELSE c[j - 21]
    BY <1>1, <1>2, <2>1
  <2> QED  BY <2>2 DEF abc
<1>4. All = ab \o c  BY DEF All, ab, a, b, c
<1>5. \A j \in 1..27 : All[j] = IF j <= 21 THEN ab[j] ELSE c[j - 21]
  BY <1>3, <1>4
<1>6. \A i \in 1..16 : All[i] = a[i]
  <2> SUFFICES ASSUME NEW i \in 1..16
               PROVE  All[i] = a[i]
    OBVIOUS
  <2>1. i \in 1..27 /\ i \in 1..21 /\ i <= 21 /\ i <= 16  OBVIOUS
  <2>2. All[i] = ab[i]  BY <1>5, <2>1
  <2>3. ab[i] = a[i]  BY <1>2, <2>1
  <2> QED  BY <2>2, <2>3
<1>7. \A i \in 17..21 : All[i] = b[i - 16]
  <2>1. \A i \in 17..21 : i \in 1..27 /\ i \in 1..21 /\ i <= 21 /\ ~(i <= 16)  OBVIOUS
  <2> QED  BY <1>2, <1>5, <2>1
<1>8. \A i \in 22..27 : All[i] = c[i - 21]
  <2>1. \A i \in 22..27 : i \in 1..27 /\ ~(i <= 21)  OBVIOUS
  <2> QED  BY <1>5, <2>1
<1> QED  BY <1>3, <1>4, <1>6, <1>7, <1>8 DEF a, b, c

(* Kind and Where say what the statements do, and to what. *)
LEMMA OutlineOK == \A i \in 1..27 : All[i].do = Kind[i] /\ All[i].table = Where[i]
<1>1. \A i \in 1..16 : Layout!Up1[i].do = Kind[i] /\ Layout!Up1[i].table = Where[i]
  BY StatementForms DEF Layout!Up1, Kind, Where
<1>2. \A i \in 17..21 : Layout!Up2[i - 16].do = Kind[i] /\ Layout!Up2[i - 16].table = Where[i]
  BY StatementForms DEF Layout!Up2, Kind, Where
<1>3. \A i \in 22..27 : Layout!Up3[i - 21].do = Kind[i] /\ Layout!Up3[i - 21].table = Where[i]
  BY StatementForms DEF Layout!Up3, Kind, Where
<1>4. \A i \in 1..27 : i \in 1..16 \/ i \in 17..21 \/ i \in 22..27
  OBVIOUS
<1>5. \A i \in 1..16 : All[i].do = Kind[i] /\ All[i].table = Where[i]
  <2> SUFFICES ASSUME NEW i \in 1..16
               PROVE  All[i].do = Kind[i] /\ All[i].table = Where[i]
    OBVIOUS
  <2>1. All[i] = Layout!Up1[i]  BY AllIsUp
  <2> QED  BY <1>1, <2>1
<1>6. \A i \in 17..21 : All[i].do = Kind[i] /\ All[i].table = Where[i]
  <2> SUFFICES ASSUME NEW i \in 17..21
               PROVE  All[i].do = Kind[i] /\ All[i].table = Where[i]
    OBVIOUS
  <2>1. All[i] = Layout!Up2[i - 16]  BY AllIsUp
  <2> QED  BY <1>2, <2>1
<1>7. \A i \in 22..27 : All[i].do = Kind[i] /\ All[i].table = Where[i]
  <2> SUFFICES ASSUME NEW i \in 22..27
               PROVE  All[i].do = Kind[i] /\ All[i].table = Where[i]
    OBVIOUS
  <2>1. All[i] = Layout!Up3[i - 21]  BY AllIsUp
  <2> QED  BY <1>3, <2>1
<1> QED  BY Zenon, <1>4, <1>5, <1>6, <1>7

(* Birth says where a table is created; all else is done to it later. *)
LEMMA BirthOK ==
    /\ \A i \in 1..27 : /\ Where[i] \in DOMAIN Birth /\ Birth[Where[i]] <= i
                        /\ Kind[i] = "create" => Birth[Where[i]] = i
    /\ \A t \in DOMAIN Birth : /\ Birth[t] \in 1..27 /\ Kind[Birth[t]] = "create"
                               /\ Where[Birth[t]] = t
BY DEF Birth, Kind, Where

(* The columns that come later than their table. *)
Joining == [sla_seconds |-> 17, opted_out |-> 18, wa_status |-> 19, last_inbound_at |-> 22,
            opted_out_at |-> 23, wa_error_code |-> 25, wa_error_title |-> 26]

(* Which statements create a table. *)
LEMMA CreatesAre == \A i \in 1..27 : Kind[i] = "create" <=> i \in {1, 4, 6, 8, 9, 11, 13, 15, 20}
BY DEF Kind

(* A table that is used has been created before. *)
LEMMA CreatedFirst ==
    /\ All[1] = Layout!Up1[1] /\ All[4] = Layout!Up1[4] /\ All[6] = Layout!Up1[6]
    /\ All[8] = Layout!Up1[8] /\ All[9] = Layout!Up1[9] /\ All[11] = Layout!Up1[11]
    /\ All[13] = Layout!Up1[13] /\ All[15] = Layout!Up1[15] /\ All[20] = Layout!Up2[4]
BY AllIsUp

(* A table refers to tables that have been created before. *)
LEMMA RefsOK ==
    \A i \in 1..27 : Kind[i] = "create" =>
        \A r \in All[i].refs : r \in DOMAIN Birth /\ Birth[r] < i
<1>1. \A i \in {1, 4, 6, 8, 9, 11, 13, 15} :
         \A r \in Layout!Up1[i].refs : r \in DOMAIN Birth /\ Birth[r] < i
  BY StatementForms DEF Layout!Up1, Birth
<1>2. \A r \in Layout!Up2[4].refs : r \in DOMAIN Birth /\ Birth[r] < 20
  BY StatementForms DEF Layout!Up2, Birth
<1> QED  BY <1>1, <1>2, CreatesAre, CreatedFirst

(* No table is created twice. *)
LEMMA NamesAreNew ==
    \A i \in 1..27 : Kind[i] = "create" =>
        \A c \in All[i].must \cup All[i].may : c \notin DOMAIN Joining
<1>1. DOMAIN Joining = {"sla_seconds", "opted_out", "wa_status", "last_inbound_at",
                        "opted_out_at", "wa_error_code", "wa_error_title"}
  BY DEF Joining
<1>2. \A i \in {1, 4, 6, 8, 9, 11, 13, 15} :
         \A c \in Layout!Up1[i].must \cup Layout!Up1[i].may : c \notin DOMAIN Joining
  BY <1>1, StatementForms DEF Layout!Up1
<1>3. \A c \in Layout!Up2[4].must \cup Layout!Up2[4].may : c \notin DOMAIN Joining
  BY <1>1, StatementForms DEF Layout!Up2
<1> QED  BY <1>2, <1>3, CreatesAre, CreatedFirst

(* A column that is added is a new one, and may be empty. *)
LEMMA AddsOK ==
    \A i \in 1..27 : Kind[i] = "add" =>
        /\ All[i].must = {}
        /\ \E c \in DOMAIN Joining : All[i].may = {c} /\ Joining[c] = i
<1>1. \A i \in 1..27 : Kind[i] = "add" => i \in {17, 18, 19} \/ i \in {22, 23, 25, 26}
  BY DEF Kind
<1>2. \A i \in {17, 18, 19} : /\ Layout!Up2[i - 16].must = {}
                              /\ \E c \in DOMAIN Joining : /\ Layout!Up2[i - 16].may = {c}
                                                          /\ Joining[c] = i
  BY StatementForms DEF Layout!Up2, Joining
<1>3. \A i \in {22, 23, 25, 26} : /\ Layout!Up3[i - 21].must = {}
                                  /\ \E c \in DOMAIN Joining : /\ Layout!Up3[i - 21].may = {c}
                                                              /\ Joining[c] = i
  BY StatementForms DEF Layout!Up3, Joining
<1>4. \A i \in {17, 18, 19} : i \in 17..21 /\ All[i] = Layout!Up2[i - 16]
  <2>1. \A i \in {17, 18, 19} : i \in 17..21  OBVIOUS
  <2> QED  BY <2>1, AllIsUp
<1>5. \A i \in {22, 23, 25, 26} : i \in 22..27 /\ All[i] = Layout!Up3[i - 21]
  <2>1. \A i \in {22, 23, 25, 26} : i \in 22..27  OBVIOUS
  <2> QED  BY <2>1, AllIsUp
<1> SUFFICES ASSUME NEW i \in 1..27, Kind[i] = "add"
             PROVE  /\ All[i].must = {}
                    /\ \E c \in DOMAIN Joining : All[i].may = {c} /\ Joining[c] = i
  OBVIOUS
<1>6. CASE i \in {17, 18, 19}
  BY <1>2, <1>4, <1>6
<1>7. CASE i \in {22, 23, 25, 26}
  BY <1>3, <1>5, <1>7
<1> QED  BY <1>1, <1>6, <1>7

(* A key is over columns its table was created with, and is new. *)
LEMMA UniquesOK ==
    \A i \in 1..27 : Kind[i] = "unique" =>
        /\ All[i].key # {} /\ i - 1 \in 1..27 /\ Kind[i - 1] \in {"create", "unique"}
        /\ All[i].key \subseteq All[Birth[Where[i]]].must \cup All[Birth[Where[i]]].may
<1> DEFINE U(i) == Layout!Up1[i]
<1>1. \A i \in 1..27 : Kind[i] = "unique" => i \in {2, 5, 7, 10, 12, 14, 16}
  BY DEF Kind
<1>2. \A i \in {2, 5, 7, 10, 12, 14, 16} : /\ All[i] = U(i) /\ All[i - 1] = U(i - 1)
                                          /\ Birth[Where[i]] = i - 1
  <2>1. \A i \in {2, 5, 7, 10, 12, 14, 16} : i \in 1..16 /\ i - 1 \in 1..16  OBVIOUS
  <2>2. \A i \in {2, 5, 7, 10, 12, 14, 16} : Birth[Where[i]] = i - 1  BY DEF Birth, Where
  <2> QED  BY <2>1, <2>2, AllIsUp
<1>3. \A i \in {2, 5, 7, 10, 12, 14, 16} : /\ U(i).key # {}
                                          /\ U(i).key \subseteq U(i - 1).must \cup U(i - 1).may
  BY SMTT(30), StatementForms DEF Layout!Up1
<1>4. \A i \in {2, 5, 7, 10, 12, 14, 16} : i - 1 \in 1..27 /\ Kind[i - 1] \in {"create", "unique"}
  BY DEF Kind
<1> HIDE DEF U
<1> QED  BY <1>1, <1>2, <1>3, <1>4

(* An index is a new one, over a column of its table. *)
LEMMA IndexesOK ==
    \A i, j \in 1..27 : Kind[i] = "index" /\ Kind[j] = "index" /\ Where[i] = Where[j] => i = j
<1>1. \A i \in 1..27 : Kind[i] = "index" => i \in {3, 21, 27}
  BY DEF Kind
<1>2. Where[3] = "hotels" /\ Where[21] = "knowledge_chunks" /\ Where[27] = "messages"
  BY DEF Where
<1> QED  BY <1>1, <1>2

(* The backfill comes after the column it fills. *)
LEMMA BackfillOK ==
    \A i \in 1..27 : Kind[i] = "backfill" =>
        22 < i /\ Where[i] = "conversations" /\ Where[22] = "conversations"
        /\ Kind[22] = "add" /\ "last_inbound_at" \in All[22].may
<1>1. \A i \in 1..27 : Kind[i] = "backfill" => i = 24
  BY DEF Kind
<1>2. Where[24] = "conversations" /\ Where[22] = "conversations" /\ Kind[22] = "add"
  BY DEF Where, Kind
<1>3. "last_inbound_at" \in Layout!Up3[1].may
  BY StatementForms DEF Layout!Up3
<1>4. All[22] = Layout!Up3[1]
  BY AllIsUp
<1> QED  BY <1>1, <1>2, <1>3, <1>4

-----------------------------------------------------------------------------
(* What the first n of them leave behind.                                  *)
Part(n) == {All[i] : i \in 1..n}

(* What a set of statements has made. *)
LEMMA MadeHas ==
    ASSUME NEW S
    PROVE  LET m == Layout!Made(S) IN
           /\ \A t : t \in m.tables <=> \E s \in S : s.do = "create" /\ s.table = t
           /\ \A p : p \in m.columns <=>
                 \E s \in S : s.do \in {"create", "add"} /\ p \in Layout!Columns(s.table, s.must \cup s.may)
           /\ \A p : p \in m.must <=>
                 \E s \in S : s.do \in {"create", "add"} /\ p \in Layout!Columns(s.table, s.must)
           /\ \A p : p \in m.refs <=>
                 \E s \in S : s.do = "create" /\ p \in Layout!Columns(s.table, s.refs)
           /\ \A p : p \in m.unique <=> \E s \in S : s.do = "unique" /\ p = <<s.table, s.key>>
           /\ \A p : p \in m.indexes <=> \E s \in S : s.do = "index" /\ p = <<s.table, s.index>>
<1> DEFINE m == Layout!Made(S)
           begun == {s \in S : s.do = "create"}
           brought == {s \in S : s.do \in {"create", "add"}}
<1>1. /\ m.tables = {s.table : s \in begun}
      /\ m.columns = UNION {Layout!Columns(s.table, s.must \cup s.may) : s \in brought}
      /\ m.must = UNION {Layout!Columns(s.table, s.must) : s \in brought}
      /\ m.refs = UNION {Layout!Columns(s.table, s.refs) : s \in begun}
      /\ m.unique = {<<s.table, s.key>> : s \in {u \in S : u.do = "unique"}}
      /\ m.indexes = {<<s.table, s.index>> : s \in {i \in S : i.do = "index"}}
  BY DEF Layout!Made
<1> HIDE DEF m
<1>2. \A t : t \in m.tables <=> \E s \in S : s.do = "create" /\ s.table = t
  BY <1>1
<1>3. \A p : p \in m.columns <=>
         \E s \in S : s.do \in {"create", "add"} /\ p \in Layout!Columns(s.table, s.must \cup s.may)
  BY <1>1
<1>4. \A p : p \in m.must <=>
         \E s \in S : s.do \in {"create", "add"} /\ p \in Layout!Columns(s.table, s.must)
  BY <1>1
<1>5. \A p : p \in m.refs <=>
         \E s \in S : s.do = "create" /\ p \in Layout!Columns(s.table, s.refs)
  BY <1>1
<1>6. \A p : p \in m.unique <=> \E s \in S : s.do = "unique" /\ p = <<s.table, s.key>>
  BY <1>1
<1>7. \A p : p \in m.indexes <=> \E s \in S : s.do = "index" /\ p = <<s.table, s.index>>
  BY <1>1
<1> QED  BY <1>2, <1>3, <1>4, <1>5, <1>6, <1>7 DEF m

(* A record of a database. *)
IsRecord(d) ==
    d = [revision |-> d.revision, tables |-> d.tables, columns |-> d.columns, must |-> d.must,
         refs |-> d.refs, unique |-> d.unique, indexes |-> d.indexes,
         lastMessage |-> d.lastMessage, lastInbound |-> d.lastInbound]

(* A statement of an upgrade leaves behind what it says, and nothing else. *)
LEMMA MadeGrows ==
    ASSUME NEW d, IsRecord(d), NEW S, Layout!SameSchema(d, Layout!Made(S)), NEW s,
           s.do \in {"create", "add", "unique", "index", "backfill"}
    PROVE  Layout!SameSchema(Layout!Applied(d, s), Layout!Made(S \cup {s}))
<1> DEFINE e == Layout!Applied(d, s)
           m == Layout!Made(S)
           n == Layout!Made(S \cup {s})
<1>1. /\ d.tables = m.tables /\ d.columns = m.columns /\ d.must = m.must
      /\ d.refs = m.refs /\ d.unique = m.unique /\ d.indexes = m.indexes
  BY DEF Layout!SameSchema
<1>2. /\ e.tables = IF s.do = "create" THEN d.tables \cup {s.table} ELSE d.tables
      /\ e.columns = IF s.do \in {"create", "add"}
                     THEN d.columns \cup Layout!Columns(s.table, s.must \cup s.may)
                     ELSE d.columns
      /\ e.must = IF s.do \in {"create", "add"}
                  THEN d.must \cup Layout!Columns(s.table, s.must) ELSE d.must
      /\ e.refs = IF s.do = "create"
                  THEN d.refs \cup Layout!Columns(s.table, s.refs) ELSE d.refs
      /\ e.unique = IF s.do = "unique"
                    THEN d.unique \cup {<<s.table, s.key>>} ELSE d.unique
      /\ e.indexes = IF s.do = "index"
                     THEN d.indexes \cup {<<s.table, s.index>>} ELSE d.indexes
  <2>1. CASE s.do = "create"
    BY <2>1 DEF Layout!Applied, IsRecord
  <2>2. CASE s.do = "add"
    BY <2>2 DEF Layout!Applied, IsRecord
  <2>3. CASE s.do = "unique"
    BY <2>3 DEF Layout!Applied, IsRecord
  <2>4. CASE s.do = "index"
    BY <2>4 DEF Layout!Applied, IsRecord
  <2>5. CASE s.do = "backfill"
    BY <2>5 DEF Layout!Applied, IsRecord
  <2> QED  BY <2>1, <2>2, <2>3, <2>4, <2>5
<1> HIDE DEF e, m, n
<1>3. \A t : t \in n.tables <=> t \in m.tables \/ (s.do = "create" /\ t = s.table)
  BY MadeHas DEF m, n
<1>4. \A p : p \in n.columns <=>
         p \in m.columns \/ (s.do \in {"create", "add"} /\ p \in Layout!Columns(s.table, s.must \cup s.may))
  <2>1. \A p : p \in m.columns <=>
           \E u \in S : u.do \in {"create", "add"} /\ p \in Layout!Columns(u.table, u.must \cup u.may)
    BY MadeHas DEF m
  <2>2. \A p : p \in n.columns <=>
           \E u \in S \cup {s} : /\ u.do \in {"create", "add"}
                                /\ p \in Layout!Columns(u.table, u.must \cup u.may)
    BY MadeHas DEF n
  <2> QED  BY <2>1, <2>2
<1>5. \A p : p \in n.must <=>
         p \in m.must \/ (s.do \in {"create", "add"} /\ p \in Layout!Columns(s.table, s.must))
  <2>1. \A p : p \in m.must <=>
           \E u \in S : u.do \in {"create", "add"} /\ p \in Layout!Columns(u.table, u.must)
    BY MadeHas DEF m
  <2>2. \A p : p \in n.must <=>
           \E u \in S \cup {s} : u.do \in {"create", "add"} /\ p \in Layout!Columns(u.table, u.must)
    BY MadeHas DEF n
  <2> QED  BY <2>1, <2>2
<1>6. \A p : p \in n.refs <=>
         p \in m.refs \/ (s.do = "create" /\ p \in Layout!Columns(s.table, s.refs))
  BY MadeHas DEF m, n
<1>7. \A p : p \in n.unique <=> p \in m.unique \/ (s.do = "unique" /\ p = <<s.table, s.key>>)
  BY MadeHas DEF m, n
<1>8. \A p : p \in n.indexes <=> p \in m.indexes \/ (s.do = "index" /\ p = <<s.table, s.index>>)
  BY MadeHas DEF m, n
<1>9. e.tables = n.tables
  BY <1>1, <1>2, <1>3
<1>10. e.columns = n.columns
  BY <1>1, <1>2, <1>4
<1>11. e.must = n.must
  BY <1>1, <1>2, <1>5
<1>12. e.refs = n.refs
  BY <1>1, <1>2, <1>6
<1>13. e.unique = n.unique
  BY <1>1, <1>2, <1>7
<1>14. e.indexes = n.indexes
  BY <1>1, <1>2, <1>8
<1> QED  BY <1>9, <1>10, <1>11, <1>12, <1>13, <1>14 DEF Layout!SameSchema, e, n

(* The next statement joins the first n. *)
LEMMA PartGrows == \A n \in 0..26 : Part(n + 1) = Part(n) \cup {All[n + 1]}
<1> SUFFICES ASSUME NEW n \in 0..26
             PROVE  Part(n + 1) = Part(n) \cup {All[n + 1]}
  OBVIOUS
<1>1. \A i : i \in 1..n + 1 <=> i \in 1..n \/ i = n + 1
  OBVIOUS
<1> QED  BY <1>1 DEF Part

(* Who is in the first n. *)
LEMMA InPart ==
    ASSUME NEW n \in 0..27
    PROVE  /\ \A s \in Part(n) : \E i \in 1..27 : i <= n /\ s = All[i]
           /\ \A i \in 1..27 : i <= n => All[i] \in Part(n)
BY DEF Part

(* Each statement of the upgrades applies to what those before it made.    *)
LEMMA UpApplies ==
    ASSUME NEW n \in 0..26, NEW d, Layout!SameSchema(d, Layout!Made(Part(n)))
    PROVE  Layout!Applies(All[n + 1], d)
<1> DEFINE k == n + 1
           m == Layout!Made(Part(n))
           s == All[k]
           t == Where[k]
<1>0. /\ k \in 1..27 /\ n \in 0..27 /\ s.do = Kind[k] /\ s.table = t
      /\ \A i \in 1..27 : i <= n <=> i < k
  BY OutlineOK
<1>1. d.tables = m.tables /\ d.columns = m.columns /\ d.indexes = m.indexes
  BY DEF Layout!SameSchema
<1>2. /\ \A u : u \in m.tables <=> \E i \in 1..27 : i < k /\ Kind[i] = "create" /\ Where[i] = u
      /\ \A p : p \in m.columns <=>
            \E i \in 1..27 : /\ i < k /\ Kind[i] \in {"create", "add"}
                             /\ p \in Layout!Columns(Where[i], All[i].must \cup All[i].may)
      /\ \A p : p \in m.indexes =>
            \E i \in 1..27 : i < k /\ Kind[i] = "index" /\ p = <<Where[i], All[i].index>>
  <2>1. /\ \A x \in Part(n) : \E i \in 1..27 : i < k /\ x = All[i]
        /\ \A i \in 1..27 : i < k => All[i] \in Part(n)
    BY <1>0, InPart
  <2>2. \A u : u \in m.tables <=> \E i \in 1..27 : i < k /\ Kind[i] = "create" /\ Where[i] = u
    BY SMTT(30), <2>1, MadeHas, OutlineOK
  <2>3. \A p : p \in m.columns <=>
            \E i \in 1..27 : /\ i < k /\ Kind[i] \in {"create", "add"}
                             /\ p \in Layout!Columns(Where[i], All[i].must \cup All[i].may)
    <3> TAKE p
    <3>1. p \in m.columns <=>
             \E x \in Part(n) : /\ x.do \in {"create", "add"}
                               /\ p \in Layout!Columns(x.table, x.must \cup x.may)
      BY MadeHas
    <3>2. \A i \in 1..27 : All[i].do = Kind[i] /\ All[i].table = Where[i]
      BY OutlineOK
    <3> HIDE DEF m
    <3> QED  BY ZenonT(30), <2>1, <3>1, <3>2
  <2>4. \A p : p \in m.indexes =>
            \E i \in 1..27 : i < k /\ Kind[i] = "index" /\ p = <<Where[i], All[i].index>>
    <3>1. \A p \in m.indexes : \E x \in Part(n) : x.do = "index" /\ p = <<x.table, x.index>>
      BY MadeHas
    <3> SUFFICES ASSUME NEW p \in m.indexes
                 PROVE  \E i \in 1..27 : /\ i < k /\ Kind[i] = "index"
                                         /\ p = <<Where[i], All[i].index>>
      OBVIOUS
    <3>2. PICK x \in Part(n) : x.do = "index" /\ p = <<x.table, x.index>>
      BY <3>1
    <3>3. PICK i \in 1..27 : i < k /\ x = All[i]
      BY <2>1
    <3>4. Kind[i] = "index" /\ p = <<Where[i], All[i].index>>
      BY <3>2, <3>3, OutlineOK
    <3> QED  BY <3>3, <3>4
  <2> QED  BY <2>2, <2>3, <2>4
<1> HIDE DEF m, s, t, k
<1>3. Kind[k] # "create" => t \in d.tables
  <2>1. Birth[t] \in 1..27 /\ Birth[t] <= k /\ Kind[Birth[t]] = "create" /\ Where[Birth[t]] = t
    BY <1>0, BirthOK DEF t
  <2>2. Kind[k] # "create" => Birth[t] < k
    BY <1>0, <2>1
  <2> QED  BY <1>1, <1>2, <2>1, <2>2
<1>4. CASE Kind[k] = "create"
  <2>1. t \notin d.tables
    <3>1. \A i \in 1..27 : Kind[i] = "create" /\ Where[i] = t => i = k
      BY <1>0, <1>4, BirthOK DEF t
    <3> QED  BY <1>0, <1>1, <1>2, <3>1
  <2>2. s.refs \subseteq d.tables
    <3> SUFFICES ASSUME NEW r \in s.refs
                 PROVE  r \in d.tables
      OBVIOUS
    <3>1. r \in DOMAIN Birth /\ Birth[r] < k
      BY <1>0, <1>4, RefsOK DEF s
    <3>2. Birth[r] \in 1..27 /\ Kind[Birth[r]] = "create" /\ Where[Birth[r]] = r
      BY <3>1, BirthOK
    <3> QED  BY <1>1, <1>2, <3>1, <3>2
  <2> QED  BY <1>0, <1>4, <2>1, <2>2 DEF Layout!Applies, s, k
<1>5. CASE Kind[k] = "add"
  <2>1. PICK c \in DOMAIN Joining : s.may = {c} /\ Joining[c] = k
    BY <1>0, <1>5, AddsOK DEF s
  <2>2. s.must = {}
    BY <1>0, <1>5, AddsOK DEF s
  <2>3. <<t, c>> \notin d.columns
    <3> SUFFICES ASSUME NEW i \in 1..27, i < k, Kind[i] \in {"create", "add"},
                        c \in All[i].must \cup All[i].may
                 PROVE  FALSE
      BY <1>1, <1>2 DEF Layout!Columns
    <3>1. CASE Kind[i] = "create"
      BY <3>1, NamesAreNew
    <3>2. CASE Kind[i] = "add"
      BY <1>0, <2>1, <3>2, AddsOK
    <3> QED  BY <3>1, <3>2
  <2>4. Layout!Columns(t, s.must \cup s.may) \cap d.columns = {}
    BY <2>1, <2>2, <2>3 DEF Layout!Columns
  <2> QED  BY <1>0, <1>3, <1>5, <2>2, <2>4 DEF Layout!Applies, s, k
<1>6. CASE Kind[k] = "unique"
  <2>1. s.key \subseteq All[Birth[t]].must \cup All[Birth[t]].may
    BY <1>0, <1>6, UniquesOK DEF s, t
  <2>2. Birth[t] \in 1..27 /\ Birth[t] <= k /\ Kind[Birth[t]] = "create" /\ Where[Birth[t]] = t
    BY <1>0, BirthOK DEF t
  <2>3. Birth[t] < k
    BY <1>0, <1>6, <2>2
  <2>4. Layout!Columns(t, All[Birth[t]].must \cup All[Birth[t]].may) \subseteq d.columns
    BY <1>1, <1>2, <2>2, <2>3
  <2>5. Layout!Columns(t, s.key) \subseteq d.columns
    BY <2>1, <2>4 DEF Layout!Columns
  <2> QED  BY <1>0, <1>6, <2>5 DEF Layout!Applies, s, k
<1>7. CASE Kind[k] = "index"
  <2>1. <<t, s.index>> \notin d.indexes
    <3> SUFFICES ASSUME NEW i \in 1..27, i < k, Kind[i] = "index", Where[i] = t
                 PROVE  FALSE
      BY <1>1, <1>2
    <3>1. i = k  BY <1>0, <1>7, IndexesOK DEF t
    <3> QED  BY <1>0, <3>1
  <2> QED  BY <1>0, <1>3, <1>7, <2>1 DEF Layout!Applies, s, k
<1>8. CASE Kind[k] = "backfill"
  <2>1. /\ 22 < k /\ t = "conversations" /\ Where[22] = "conversations"
        /\ Kind[22] = "add" /\ "last_inbound_at" \in All[22].may
    BY <1>0, <1>8, BackfillOK DEF t
  <2>2. <<t, "last_inbound_at">> \in Layout!Columns(Where[22], All[22].must \cup All[22].may)
    BY <2>1 DEF Layout!Columns
  <2>3. <<t, "last_inbound_at">> \in d.columns
    BY <1>1, <1>2, <2>1, <2>2
  <2> QED  BY <1>0, <1>8, <2>3 DEF Layout!Applies, s, k
<1> QED
  <2>1. Kind[k] \in {"create", "add", "unique", "index", "backfill"}
    BY <1>0 DEF Kind
  <2> QED  BY <1>4, <1>5, <1>6, <1>7, <1>8, <2>1 DEF s, k

(* The first statements, as the invariant finds them.                      *)
LEMMA UpgradesAre ==
    ASSUME NEW from \in 0..3, NEW to \in from..3, from = to => to = 0
    PROVE  LET u == Layout!Upgrades(from, to) IN
           /\ u \in Seq(Anything) /\ Len(u) = Bound[to] - Bound[from]
           /\ \A i \in 1..Bound[to] - Bound[from] :
                 Bound[from] + i \in 1..27 /\ u[i] = All[Bound[from] + i]
<1> DEFINE x == Layout!Between(1, from, to)
           y == Layout!Between(2, from, to)
           z == Layout!Between(3, from, to)
           u == Layout!Upgrades(from, to)
           xy == x \o y
           B == Bound
<1>1. /\ x = IF from < 1 /\ 1 <= to THEN Layout!Up1 ELSE <<>>
      /\ y = IF from < 2 /\ 2 <= to THEN Layout!Up2 ELSE <<>>
      /\ z = IF from < 3 /\ 3 <= to THEN Layout!Up3 ELSE <<>>
  BY DEF Layout!Between, Layout!Up
<1>2. <<>> \in Seq(Anything) /\ Len(<<>>) = 0
  OBVIOUS
<1>4. u = xy \o z
  BY DEF Layout!Upgrades
<1> HIDE DEF x, y, z, u
<1>3. /\ x \in Seq(Anything) /\ Len(x) = IF from < 1 /\ 1 <= to THEN 16 ELSE 0
      /\ y \in Seq(Anything) /\ Len(y) = IF from < 2 /\ 2 <= to THEN 5 ELSE 0
      /\ z \in Seq(Anything) /\ Len(z) = IF from < 3 /\ 3 <= to THEN 6 ELSE 0
  <2>1. x \in Seq(Anything) /\ Len(x) = IF from < 1 /\ 1 <= to THEN 16 ELSE 0
    <3>1. CASE from < 1 /\ 1 <= to
      <4>1. x = Layout!Up1  BY <1>1, <3>1
      <4> QED  BY <3>1, <4>1, UpTypes, Lengths
    <3>2. CASE ~(from < 1 /\ 1 <= to)
      <4>1. x = <<>>  BY <1>1, <3>2
      <4> QED  BY <1>2, <3>2, <4>1
    <3> QED  BY <3>1, <3>2
  <2>2. y \in Seq(Anything) /\ Len(y) = IF from < 2 /\ 2 <= to THEN 5 ELSE 0
    <3>1. CASE from < 2 /\ 2 <= to
      <4>1. y = Layout!Up2  BY <1>1, <3>1
      <4> QED  BY <3>1, <4>1, UpTypes, Lengths
    <3>2. CASE ~(from < 2 /\ 2 <= to)
      <4>1. y = <<>>  BY <1>1, <3>2
      <4> QED  BY <1>2, <3>2, <4>1
    <3> QED  BY <3>1, <3>2
  <2>3. z \in Seq(Anything) /\ Len(z) = IF from < 3 /\ 3 <= to THEN 6 ELSE 0
    <3>1. CASE from < 3 /\ 3 <= to
      <4>1. z = Layout!Up3  BY <1>1, <3>1
      <4> QED  BY <3>1, <4>1, UpTypes, Lengths
    <3>2. CASE ~(from < 3 /\ 3 <= to)
      <4>1. z = <<>>  BY <1>1, <3>2
      <4> QED  BY <1>2, <3>2, <4>1
    <3> QED  BY <3>1, <3>2
  <2> QED  BY <2>1, <2>2, <2>3
<1>5. /\ xy \in Seq(Anything) /\ Len(xy) = Len(x) + Len(y)
      /\ \A j \in 1..Len(x) + Len(y) : xy[j] = IF j <= Len(x) THEN x[j] ELSE y[j - Len(x)]
  BY <1>3, ConcatShape
<1> HIDE DEF xy
<1>6. /\ u \in Seq(Anything) /\ Len(u) = Len(xy) + Len(z)
      /\ \A j \in 1..Len(xy) + Len(z) : u[j] = IF j <= Len(xy) THEN xy[j] ELSE z[j - Len(xy)]
  <2>1. /\ xy \o z \in Seq(Anything) /\ Len(xy \o z) = Len(xy) + Len(z)
        /\ \A j \in 1..Len(xy) + Len(z) :
              (xy \o z)[j] = IF j <= Len(xy) THEN xy[j] ELSE z[j - Len(xy)]
    <3>1. xy \in Seq(Anything) /\ z \in Seq(Anything)
      BY <1>3, <1>5
    <3> QED  BY <3>1, ConcatShape
  <2> QED  BY <1>4, <2>1
<1>7. /\ B[from] = IF from < 1 THEN 0 ELSE IF from < 2 THEN 16 ELSE IF from < 3 THEN 21 ELSE 27
      /\ B[to] = IF to < 1 THEN 0 ELSE IF to < 2 THEN 16 ELSE IF to < 3 THEN 21 ELSE 27
  BY DEF Bound
<1> HIDE DEF B
<1>10. from \in Nat /\ to \in Nat /\ from <= to /\ to <= 3 /\ B[from] \in Nat /\ B[to] \in Nat
  BY <1>7
<1>11. /\ Len(x) + Len(y) + Len(z) = B[to] - B[from]
       /\ Len(x) \in Nat /\ Len(y) \in Nat /\ Len(z) \in Nat
  <2>1. CASE from = to
    BY <1>3, <1>7, <1>10, <2>1
  <2>2. CASE from < to
    <3>1. CASE from = 0  BY <1>3, <1>7, <1>10, <2>2, <3>1
    <3>2. CASE from = 1  BY <1>3, <1>7, <1>10, <2>2, <3>2
    <3>3. CASE from = 2  BY <1>3, <1>7, <1>10, <2>2, <3>3
    <3> QED  BY <1>10, <2>2, <3>1, <3>2, <3>3
  <2> QED  BY <1>10, <2>1, <2>2
<1>8. Len(u) = B[to] - B[from]
  BY <1>5, <1>6, <1>11
<1>9. ASSUME NEW i \in 1..B[to] - B[from]
      PROVE  B[from] + i \in 1..27 /\ u[i] = All[B[from] + i]
  <2>0. /\ \A j \in 1..16 : All[j] = Layout!Up1[j]
        /\ \A j \in 17..21 : All[j] = Layout!Up2[j - 16]
        /\ \A j \in 22..27 : All[j] = Layout!Up3[j - 21]
    BY AllIsUp
  <2>1. i \in 1..Len(xy) + Len(z) /\ u[i] = IF i <= Len(xy) THEN xy[i] ELSE z[i - Len(xy)]
    BY <1>6, <1>8
  <2>2. B[from] + i \in 1..27 /\ i \in Nat \ {0}
    BY <1>7, <1>10
  <2>3. CASE i <= Len(x)
    <3>1. from = 0 /\ 1 <= to /\ x = Layout!Up1 /\ Len(x) = 16
      <4>1. from < 1 /\ 1 <= to
        BY <1>3, <2>2, <2>3
      <4> QED  BY <1>1, <1>3, <1>10, <4>1
    <3>2. i \in 1..Len(x) + Len(y) /\ i <= Len(xy)
      BY <1>3, <1>5, <2>3
    <3>3. u[i] = x[i] /\ i \in 1..16
      BY <1>5, <2>1, <2>3, <3>1, <3>2
    <3> QED  BY <1>7, <2>0, <2>2, <3>1, <3>3
  <2>4. CASE i > Len(x) /\ i <= Len(xy)
    <3>1. from < 2 /\ 2 <= to /\ y = Layout!Up2 /\ Len(y) = 5
      <4>1. from < 2 /\ 2 <= to
        BY <1>3, <1>5, <1>11, <2>2, <2>4
      <4> QED  BY <1>1, <1>3, <4>1
    <3>2. i \in 1..Len(x) + Len(y) /\ i - Len(x) \in 1..5
      BY <1>3, <1>5, <2>4, <3>1
    <3>3. u[i] = y[i - Len(x)]
      BY <1>5, <2>1, <2>4, <3>2
    <3>4. B[from] + i \in 17..21 /\ (B[from] + i) - 16 = i - Len(x)
      <4>1. CASE from = 0  BY <1>3, <1>7, <1>10, <3>1, <3>2, <4>1
      <4>2. CASE from = 1  BY <1>3, <1>7, <1>10, <3>1, <3>2, <4>2
      <4> QED  BY <1>10, <3>1, <4>1, <4>2
    <3> QED  BY <2>0, <2>2, <3>1, <3>3, <3>4
  <2>5. CASE i > Len(xy)
    <3>1. from < 3 /\ to = 3 /\ z = Layout!Up3 /\ Len(z) = 6
      <4>1. from < 3 /\ 3 <= to
        BY <1>3, <1>5, <1>11, <2>1, <2>2, <2>5
      <4> QED  BY <1>1, <1>3, <1>10, <4>1
    <3>2. i - Len(xy) \in 1..6
      BY SMTT(30), <1>3, <1>5, <2>1, <2>5, <3>1
    <3>3. u[i] = z[i - Len(xy)]
      BY <2>1, <2>5
    <3>4. B[from] + i \in 22..27 /\ (B[from] + i) - 21 = i - Len(xy)
      <4>1. CASE from = 0  BY <1>3, <1>5, <1>7, <3>1, <3>2, <4>1
      <4>2. CASE from = 1  BY <1>3, <1>5, <1>7, <3>1, <3>2, <4>2
      <4>3. CASE from = 2  BY <1>3, <1>5, <1>7, <3>1, <3>2, <4>3
      <4> QED  BY <3>1, <4>1, <4>2, <4>3
    <3> QED  BY <2>0, <2>2, <3>1, <3>3, <3>4
  <2> QED  BY <1>3, <1>5, <2>3, <2>4, <2>5
<1> QED  BY <1>6, <1>8, <1>9 DEF u, B

(* How many statements a revision has. *)
LEMMA BoundIs == Bound[0] = 0 /\ Bound[1] = 16 /\ Bound[2] = 21 /\ Bound[3] = 27
BY DEF Bound

(* A revision has what the first statements have made. *)
LEMMA SchemaAtIs == \A r \in 0..3 : Layout!SchemaAt[r] = Layout!Made(Part(Bound[r]))
<1> SUFFICES ASSUME NEW r \in 0..3
             PROVE  Layout!SchemaAt[r] = Layout!Made(Part(Bound[r]))
  OBVIOUS
<1> DEFINE u == Layout!Upgrades(0, r)
           b == Bound[r]
<1>1. u \in Seq(Anything) /\ Len(u) = b - 0 /\ \A i \in 1..b : u[i] = All[i]
  <2>1. /\ u \in Seq(Anything) /\ Len(u) = b - 0
        /\ \A i \in 1..b - 0 : 0 + i \in 1..27 /\ u[i] = All[0 + i]
    <3>1. /\ u \in Seq(Anything) /\ Len(u) = b - Bound[0]
          /\ \A i \in 1..b - Bound[0] : Bound[0] + i \in 1..27 /\ u[i] = All[Bound[0] + i]
      <4>1. 0 \in 0..3 /\ r \in 0..3 /\ (0 = r => r = 0)  OBVIOUS
      <4> QED  BY <4>1, UpgradesAre
    <3> HIDE DEF u, b
    <3> QED  BY <3>1, BoundIs
  <2>2. b \in Nat  BY BoundIs
  <2> HIDE DEF u, b
  <2> QED  BY <2>1, <2>2
<1>2. b \in Nat  BY BoundIs
<1> HIDE DEF u, b
<1>3. Layout!ToSet(u) = Part(b)
  BY <1>1, <1>2 DEF Layout!ToSet, Part
<1> QED  BY <1>3 DEF Layout!SchemaAt, Layout!Newest, u, b

(* What the statements S of a downgrade leave of a schema m.               *)
Gone(S) == {s.table : s \in {d \in S : d.do = "drop_table"}}
LostColumns(S) == {<<s.table, s.column>> : s \in {d \in S : d.do = "drop_column"}}
LostIndexes(S) == {<<s.table, s.index>> : s \in {d \in S : d.do = "drop_index"}}
Fallen(m, S) ==
    [tables |-> m.tables \ Gone(S),
     columns |-> {p \in m.columns : p[1] \notin Gone(S) /\ p \notin LostColumns(S)},
     must |-> {p \in m.must : p[1] \notin Gone(S) /\ p \notin LostColumns(S)},
     refs |-> {p \in m.refs : p[1] \notin Gone(S)},
     unique |-> {p \in m.unique : p[1] \notin Gone(S)},
     indexes |-> {p \in m.indexes : p[1] \notin Gone(S) /\ p \notin LostIndexes(S)}]

(* A statement of a downgrade takes away what it says, and nothing else. *)
LEMMA FallenGrows ==
    ASSUME NEW d, IsRecord(d), NEW m, NEW S, Layout!SameSchema(d, Fallen(m, S)), NEW s,
           s.do \in {"drop_table", "drop_column", "drop_index"}
    PROVE  Layout!SameSchema(Layout!Applied(d, s), Fallen(m, S \cup {s}))
<1> DEFINE e == Layout!Applied(d, s)
           T == Gone(S)
           C == LostColumns(S)
           I == LostIndexes(S)
<1>1. /\ d.tables = m.tables \ T
      /\ d.columns = {p \in m.columns : p[1] \notin T /\ p \notin C}
      /\ d.must = {p \in m.must : p[1] \notin T /\ p \notin C}
      /\ d.refs = {p \in m.refs : p[1] \notin T}
      /\ d.unique = {p \in m.unique : p[1] \notin T}
      /\ d.indexes = {p \in m.indexes : p[1] \notin T /\ p \notin I}
  BY DEF Layout!SameSchema, Fallen
<1>2. CASE s.do = "drop_table"
  <2>1. /\ e.tables = d.tables \ {s.table}
        /\ e.columns = d.columns \ Layout!OfTable(d.columns, s.table)
        /\ e.must = d.must \ Layout!OfTable(d.must, s.table)
        /\ e.refs = d.refs \ Layout!OfTable(d.refs, s.table)
        /\ e.unique = d.unique \ Layout!OfTable(d.unique, s.table)
        /\ e.indexes = d.indexes \ Layout!OfTable(d.indexes, s.table)
    BY <1>2 DEF Layout!Applied, IsRecord
  <2>2. /\ Gone(S \cup {s}) = T \cup {s.table}
        /\ LostColumns(S \cup {s}) = C /\ LostIndexes(S \cup {s}) = I
    BY <1>2 DEF Gone, LostColumns, LostIndexes
  <2> HIDE DEF e, T, C, I
  <2> QED  BY <1>1, <2>1, <2>2 DEF Layout!SameSchema, Fallen, Layout!OfTable, e
<1>3. CASE s.do = "drop_column"
  <2>1. /\ e.tables = d.tables /\ e.refs = d.refs /\ e.unique = d.unique
        /\ e.indexes = d.indexes
        /\ e.columns = d.columns \ {<<s.table, s.column>>}
        /\ e.must = d.must \ {<<s.table, s.column>>}
    BY <1>3 DEF Layout!Applied, IsRecord
  <2>2. /\ LostColumns(S \cup {s}) = C \cup {<<s.table, s.column>>}
        /\ Gone(S \cup {s}) = T /\ LostIndexes(S \cup {s}) = I
    BY <1>3 DEF Gone, LostColumns, LostIndexes
  <2> HIDE DEF e, T, C, I
  <2> QED  BY <1>1, <2>1, <2>2 DEF Layout!SameSchema, Fallen, e
<1>4. CASE s.do = "drop_index"
  <2>1. /\ e.tables = d.tables /\ e.refs = d.refs /\ e.unique = d.unique
        /\ e.columns = d.columns /\ e.must = d.must
        /\ e.indexes = d.indexes \ {<<s.table, s.index>>}
    BY <1>4 DEF Layout!Applied, IsRecord
  <2>2. /\ LostIndexes(S \cup {s}) = I \cup {<<s.table, s.index>>}
        /\ Gone(S \cup {s}) = T /\ LostColumns(S \cup {s}) = C
    BY <1>4 DEF Gone, LostColumns, LostIndexes
  <2> HIDE DEF e, T, C, I
  <2> QED  BY <1>1, <2>1, <2>2 DEF Layout!SameSchema, Fallen, e
<1> QED  BY <1>2, <1>3, <1>4

(* The statements of the downgrades. *)
LEMMA DownIs ==
    /\ Layout!Down[1] = Layout!Down1 /\ Layout!Down[2] = Layout!Down2
    /\ Layout!Down[3] = Layout!Down3
    /\ Len(Layout!Down1) = 9 /\ Len(Layout!Down2) = 5 /\ Len(Layout!Down3) = 5
<1>1. /\ Layout!Down[1] = Layout!Down1 /\ Layout!Down[2] = Layout!Down2
      /\ Layout!Down[3] = Layout!Down3
  BY DEF Layout!Down
<1>2. Len(Layout!Down1) = 9  BY DEF Layout!Down1
<1>3. Len(Layout!Down2) = 5  BY DEF Layout!Down2
<1>4. Len(Layout!Down3) = 5  BY DEF Layout!Down3
<1> QED  BY <1>1, <1>2, <1>3, <1>4

(* Which tables the first downgrade drops, and when.                       *)
Fall == [push_subscriptions |-> 1, escalations |-> 2, messages |-> 3, conversations |-> 4,
         guest_stays |-> 5, rooms |-> 6, staff_users |-> 7, hotels |-> 9]

(* The first downgrade drops the tables. *)
LEMMA FirstFalls ==
    /\ \A i \in 1..9 : Layout!Down1[i].do \in {"drop_table", "drop_index"}
    /\ \A i \in 1..9 : Layout!Down1[i].do = "drop_index" =>
           i = 8 /\ Layout!Down1[i].table = "hotels"
           /\ Layout!Down1[i].index = "ix_hotels_whatsapp_phone_number_id"
    /\ \A i \in 1..9 : Layout!Down1[i].do = "drop_table" =>
           Layout!Down1[i].table \in DOMAIN Fall /\ Fall[Layout!Down1[i].table] = i
    /\ \A t \in DOMAIN Fall : /\ Fall[t] \in 1..9
                              /\ Layout!Down1[Fall[t]].do = "drop_table"
                              /\ Layout!Down1[Fall[t]].table = t
<1>1. \A i \in 1..9 : Layout!Down1[i].do \in {"drop_table", "drop_index"}
  BY StatementForms DEF Layout!Down1
<1>2. \A i \in 1..9 : Layout!Down1[i].do = "drop_index" =>
           i = 8 /\ Layout!Down1[i].table = "hotels"
           /\ Layout!Down1[i].index = "ix_hotels_whatsapp_phone_number_id"
  BY StatementForms DEF Layout!Down1
<1>3. \A i \in 1..9 : Layout!Down1[i].do = "drop_table" =>
           Layout!Down1[i].table \in DOMAIN Fall /\ Fall[Layout!Down1[i].table] = i
  BY StatementForms DEF Layout!Down1, Fall
<1>4. \A t \in DOMAIN Fall : /\ Fall[t] \in 1..9
                             /\ Layout!Down1[Fall[t]].do = "drop_table"
                             /\ Layout!Down1[Fall[t]].table = t
  BY StatementForms DEF Layout!Down1, Fall
<1> QED  BY <1>1, <1>2, <1>3, <1>4

(* They fall before the tables they refer to.                              *)
LEMMA FallingOrder ==
    /\ \A i \in 1..16 : Where[i] \in DOMAIN Fall
    /\ \A t \in DOMAIN Fall : t \in DOMAIN Birth /\ Birth[t] \in 1..16
    /\ \A i \in 1..16 : Kind[i] = "create" =>
          \A r \in All[i].refs : r \in DOMAIN Fall /\ Fall[Where[i]] < Fall[r]
<1>1. \A i \in 1..16 : Where[i] \in DOMAIN Fall
  BY DEF Where, Fall
<1>2. \A t \in DOMAIN Fall : t \in DOMAIN Birth /\ Birth[t] \in 1..16
  BY DEF Birth, Fall
<1>3. \A i \in {1, 4, 6, 8, 9, 11, 13, 15} :
         \A r \in Layout!Up1[i].refs : r \in DOMAIN Fall /\ Fall[Where[i]] < Fall[r]
  BY StatementForms DEF Layout!Up1, Where, Fall
<1>4. \A i \in 1..16 : Kind[i] = "create" => i \in {1, 4, 6, 8, 9, 11, 13, 15} /\ All[i] = Layout!Up1[i]
  <2>1. \A i \in 1..16 : Kind[i] = "create" => i \in {1, 4, 6, 8, 9, 11, 13, 15}
    BY DEF Kind
  <2> QED  BY <2>1, AllIsUp
<1> QED  BY <1>1, <1>2, <1>3, <1>4

(* The other two. *)
Leave2 == <<"none", "none", "wa_status", "opted_out", "sla_seconds">>
Leave3 == <<"none", "wa_error_title", "wa_error_code", "opted_out_at", "last_inbound_at">>

(* The second takes back a table, its index and three columns. *)
LEMMA SecondFalls ==
    /\ Layout!Down2[1].do = "drop_index" /\ Layout!Down2[1].table = "knowledge_chunks"
    /\ Layout!Down2[1].index = "ix_knowledge_chunks_hotel_id"
    /\ Layout!Down2[2].do = "drop_table" /\ Layout!Down2[2].table = "knowledge_chunks"
    /\ \A i \in 3..5 : /\ Layout!Down2[i].do = "drop_column"
                       /\ Layout!Down2[i].column = Leave2[i]
                       /\ Joining[Leave2[i]] = 22 - i
                       /\ Leave2[i] \in DOMAIN Joining
                       /\ Layout!Down2[i].table = Where[22 - i]
<1>1. \A i \in 3..5 : /\ Layout!Down2[i].do = "drop_column"
                      /\ Layout!Down2[i].column = Leave2[i]
  BY StatementForms DEF Layout!Down2, Leave2
<1>2. \A i \in 3..5 : Joining[Leave2[i]] = 22 - i /\ Leave2[i] \in DOMAIN Joining
  BY DEF Joining, Leave2
<1>3. \A i \in 3..5 : Layout!Down2[i].table = Where[22 - i]
  BY StatementForms DEF Layout!Down2, Where
<1>4. /\ Layout!Down2[1].do = "drop_index" /\ Layout!Down2[1].table = "knowledge_chunks"
      /\ Layout!Down2[1].index = "ix_knowledge_chunks_hotel_id"
      /\ Layout!Down2[2].do = "drop_table" /\ Layout!Down2[2].table = "knowledge_chunks"
  BY StatementForms DEF Layout!Down2
<1> QED  BY <1>1, <1>2, <1>3, <1>4

Place3 == <<27, 26, 25, 23, 22>>

(* The third takes back an index and four columns. *)
LEMMA ThirdFalls ==
    /\ Layout!Down3[1].do = "drop_index" /\ Layout!Down3[1].table = "messages"
    /\ Layout!Down3[1].index = "ix_messages_wa_message_id"
    /\ \A i \in 2..5 : /\ Layout!Down3[i].do = "drop_column"
                       /\ Layout!Down3[i].column = Leave3[i]
                       /\ Leave3[i] \in DOMAIN Joining
                       /\ Joining[Leave3[i]] = Place3[i]
                       /\ Layout!Down3[i].table = Where[Place3[i]]
<1>1. \A i \in 2..5 : /\ Layout!Down3[i].do = "drop_column"
                      /\ Layout!Down3[i].column = Leave3[i]
  BY StatementForms DEF Layout!Down3, Leave3
<1>2. \A i \in 2..5 : Joining[Leave3[i]] = Place3[i] /\ Leave3[i] \in DOMAIN Joining
  BY DEF Joining, Leave3, Place3
<1>3. \A i \in 2..5 : Layout!Down3[i].table = Where[Place3[i]]
  BY StatementForms DEF Layout!Down3, Where, Place3
<1>4. /\ Layout!Down3[1].do = "drop_index" /\ Layout!Down3[1].table = "messages"
      /\ Layout!Down3[1].index = "ix_messages_wa_message_id"
  BY StatementForms DEF Layout!Down3
<1> QED  BY <1>1, <1>2, <1>3, <1>4

(* The columns of a table, as pairs. *)
LEMMA ColumnsHave ==
    \A t, names, p : p \in Layout!Columns(t, names) <=> \E c \in names : p = <<t, c>>
BY DEF Layout!Columns

(* What there is after the first n statements of the upgrades.             *)
LEMMA StateHas ==
    ASSUME NEW n \in 0..27
    PROVE  LET m == Layout!Made(Part(n)) IN
           /\ \A t : t \in m.tables <=> \E i \in 1..27 : i <= n /\ Kind[i] = "create" /\ Where[i] = t
           /\ \A p : p \in m.columns <=>
                 \E i \in 1..27 : /\ i <= n /\ Kind[i] \in {"create", "add"}
                                  /\ p \in Layout!Columns(Where[i], All[i].must \cup All[i].may)
           /\ \A p : p \in m.must <=>
                 \E i \in 1..27 : /\ i <= n /\ Kind[i] = "create"
                                  /\ p \in Layout!Columns(Where[i], All[i].must)
           /\ \A p : p \in m.refs <=>
                 \E i \in 1..27 : /\ i <= n /\ Kind[i] = "create"
                                  /\ p \in Layout!Columns(Where[i], All[i].refs)
           /\ \A p : p \in m.unique <=>
                 \E i \in 1..27 : i <= n /\ Kind[i] = "unique" /\ p = <<Where[i], All[i].key>>
           /\ \A p : p \in m.indexes <=>
                 \E i \in 1..27 : i <= n /\ Kind[i] = "index" /\ p = <<Where[i], All[i].index>>
<1> DEFINE m == Layout!Made(Part(n))
<1>1. /\ \A x \in Part(n) : \E i \in 1..27 : i <= n /\ x = All[i]
      /\ \A i \in 1..27 : i <= n => All[i] \in Part(n)
  BY InPart
<1>2. \A i \in 1..27 : All[i].do = Kind[i] /\ All[i].table = Where[i]
  BY OutlineOK
<1>3. \A t : t \in m.tables <=> \E i \in 1..27 : i <= n /\ Kind[i] = "create" /\ Where[i] = t
  <2> TAKE t
  <2>1. t \in m.tables <=> \E x \in Part(n) : x.do = "create" /\ x.table = t
    BY MadeHas
  <2> HIDE DEF m
  <2> QED  BY <1>1, <1>2, <2>1
<1>4. \A p : p \in m.columns <=>
         \E i \in 1..27 : /\ i <= n /\ Kind[i] \in {"create", "add"}
                          /\ p \in Layout!Columns(Where[i], All[i].must \cup All[i].may)
  <2> TAKE p
  <2>1. p \in m.columns <=>
           \E x \in Part(n) : /\ x.do \in {"create", "add"}
                             /\ p \in Layout!Columns(x.table, x.must \cup x.may)
    BY MadeHas
  <2> HIDE DEF m
  <2> QED  BY ZenonT(30), <1>1, <1>2, <2>1
<1>5. \A p : p \in m.must <=>
         \E i \in 1..27 : i <= n /\ Kind[i] = "create" /\ p \in Layout!Columns(Where[i], All[i].must)
  <2> TAKE p
  <2>1. p \in m.must <=>
           \E x \in Part(n) : x.do \in {"create", "add"} /\ p \in Layout!Columns(x.table, x.must)
    BY MadeHas
  <2>2. p \in m.must <=>
           \E i \in 1..27 : /\ i <= n /\ Kind[i] \in {"create", "add"}
                            /\ p \in Layout!Columns(Where[i], All[i].must)
    <3> HIDE DEF m
    <3> QED  BY SMTT(30), <1>1, <1>2, <2>1
  <2>3. \A i \in 1..27 : Kind[i] = "add" => p \notin Layout!Columns(Where[i], All[i].must)
    BY AddsOK DEF Layout!Columns
  <2> HIDE DEF m
  <2> QED  BY <2>2, <2>3
<1>6. \A p : p \in m.refs <=>
         \E i \in 1..27 : i <= n /\ Kind[i] = "create" /\ p \in Layout!Columns(Where[i], All[i].refs)
  <2> TAKE p
  <2>1. p \in m.refs <=>
           \E x \in Part(n) : x.do = "create" /\ p \in Layout!Columns(x.table, x.refs)
    BY MadeHas
  <2> HIDE DEF m
  <2> QED  BY <1>1, <1>2, <2>1
<1>7. \A p : p \in m.unique <=>
         \E i \in 1..27 : i <= n /\ Kind[i] = "unique" /\ p = <<Where[i], All[i].key>>
  <2> TAKE p
  <2>1. p \in m.unique <=> \E x \in Part(n) : x.do = "unique" /\ p = <<x.table, x.key>>
    BY MadeHas
  <2> HIDE DEF m
  <2> QED  BY SMTT(30), <1>1, <1>2, <2>1
<1>8. \A p : p \in m.indexes <=>
         \E i \in 1..27 : i <= n /\ Kind[i] = "index" /\ p = <<Where[i], All[i].index>>
  <2> TAKE p
  <2>1. p \in m.indexes <=> \E x \in Part(n) : x.do = "index" /\ p = <<x.table, x.index>>
    BY MadeHas
  <2> HIDE DEF m
  <2> QED  BY <1>1, <1>2, <2>1
<1> HIDE DEF m
<1> QED  BY <1>3, <1>4, <1>5, <1>6, <1>7, <1>8 DEF m

(* A downgrade that spares all of the first a statements, and takes back   *)
(* those after them, leaves what the first a have made.                    *)
LEMMA Survivors ==
    ASSUME NEW a \in 0..27, NEW b \in a..27, NEW S,
           \A i \in 1..27 : i <= a => Where[i] \notin Gone(S),
           \A i \in 1..27 : i <= a /\ Kind[i] \in {"create", "add"} =>
               \A c \in All[i].must \cup All[i].may : <<Where[i], c>> \notin LostColumns(S),
           \A i \in 1..27 : i <= a /\ Kind[i] = "index" =>
               <<Where[i], All[i].index>> \notin LostIndexes(S),
           \A i \in 1..27 : a < i /\ i <= b =>
               \/ Where[i] \in Gone(S)
               \/ Kind[i] = "add" /\ \A c \in All[i].may : <<Where[i], c>> \in LostColumns(S)
               \/ Kind[i] = "index" /\ <<Where[i], All[i].index>> \in LostIndexes(S)
               \/ Kind[i] = "backfill"
    PROVE  Layout!SameSchema(Fallen(Layout!Made(Part(b)), S), Layout!Made(Part(a)))
<1> DEFINE m == Layout!Made(Part(b))
           n == Layout!Made(Part(a))
           f == Fallen(m, S)
<1>0. b \in 0..27 /\ \A i \in 1..27 : i <= b <=> i <= a \/ (a < i /\ i <= b)
  OBVIOUS
<1>1. \A i \in 1..27 : a < i /\ i <= b /\ Where[i] \notin Gone(S) => Kind[i] \in {"add", "index", "backfill"}
  OBVIOUS
<1> HIDE DEF m, n
<1>2. f.tables = n.tables
  <2>1. \A t : t \in m.tables <=> \E i \in 1..27 : i <= b /\ Kind[i] = "create" /\ Where[i] = t
    BY <1>0, StateHas DEF m
  <2>2. \A t : t \in n.tables <=> \E i \in 1..27 : i <= a /\ Kind[i] = "create" /\ Where[i] = t
    BY StateHas DEF n
  <2>3. f.tables = m.tables \ Gone(S)
    BY DEF Fallen
  <2> HIDE DEF f
  <2>4. ASSUME NEW t \in f.tables
        PROVE  t \in n.tables
    <3>1. PICK i \in 1..27 : i <= b /\ Kind[i] = "create" /\ Where[i] = t
      BY <2>1, <2>3
    <3>2. Where[i] \notin Gone(S)
      BY <2>3, <3>1
    <3>3. i <= a
      BY <1>0, <1>1, <3>1, <3>2
    <3> QED  BY <2>2, <3>1, <3>3
  <2>5. ASSUME NEW t \in n.tables
        PROVE  t \in f.tables
    <3>1. PICK i \in 1..27 : i <= a /\ Kind[i] = "create" /\ Where[i] = t
      BY <2>2
    <3>2. i <= b  BY <3>1
    <3>3. t \in m.tables
      BY <2>1, <3>1, <3>2
    <3>4. t \notin Gone(S)
      BY <3>1
    <3> QED  BY <2>3, <3>1, <3>3, <3>4
  <2> QED  BY <2>4, <2>5
<1>3. f.columns = n.columns
  <2>1. \A p : p \in m.columns <=>
           \E i \in 1..27 : /\ i <= b /\ Kind[i] \in {"create", "add"}
                            /\ \E c \in All[i].must \cup All[i].may : p = <<Where[i], c>>
    <3> TAKE p
    <3>1. p \in m.columns <=>
             \E i \in 1..27 : /\ i <= b /\ Kind[i] \in {"create", "add"}
                              /\ p \in Layout!Columns(Where[i], All[i].must \cup All[i].may)
      BY <1>0, StateHas DEF m
    <3>2. \A i \in 1..27 : p \in Layout!Columns(Where[i], All[i].must \cup All[i].may) <=>
             \E c \in All[i].must \cup All[i].may : p = <<Where[i], c>>
      BY ColumnsHave
    <3> HIDE DEF m
    <3> QED  BY <3>1, <3>2
  <2>2. \A p : p \in n.columns <=>
           \E i \in 1..27 : /\ i <= a /\ Kind[i] \in {"create", "add"}
                            /\ \E c \in All[i].must \cup All[i].may : p = <<Where[i], c>>
    <3> TAKE p
    <3>1. p \in n.columns <=>
             \E i \in 1..27 : /\ i <= a /\ Kind[i] \in {"create", "add"}
                              /\ p \in Layout!Columns(Where[i], All[i].must \cup All[i].may)
      BY StateHas DEF n
    <3>2. \A i \in 1..27 : p \in Layout!Columns(Where[i], All[i].must \cup All[i].may) <=>
             \E c \in All[i].must \cup All[i].may : p = <<Where[i], c>>
      BY ColumnsHave
    <3> HIDE DEF n
    <3> QED  BY <3>1, <3>2
  <2>3. f.columns = {p \in m.columns : p[1] \notin Gone(S) /\ p \notin LostColumns(S)}
    BY DEF Fallen
  <2> HIDE DEF f
  <2>4. ASSUME NEW p \in f.columns
        PROVE  p \in n.columns
    <3>1. PICK i \in 1..27 : /\ i <= b /\ Kind[i] \in {"create", "add"}
                             /\ \E c \in All[i].must \cup All[i].may : p = <<Where[i], c>>
      BY <2>1, <2>3
    <3>2. PICK c \in All[i].must \cup All[i].may : p = <<Where[i], c>>
      BY <3>1
    <3>3. Where[i] \notin Gone(S) /\ <<Where[i], c>> \notin LostColumns(S)
      BY <2>3, <3>2
    <3>4. Kind[i] = "add" => c \in All[i].may
      BY <3>2, AddsOK
    <3>5. i <= a
      BY <1>0, <1>1, <3>1, <3>3, <3>4
    <3> QED  BY <2>2, <3>1, <3>5
  <2>5. ASSUME NEW p \in n.columns
        PROVE  p \in f.columns
    <3>1. PICK i \in 1..27 : /\ i <= a /\ Kind[i] \in {"create", "add"}
                             /\ \E c \in All[i].must \cup All[i].may : p = <<Where[i], c>>
      BY <2>2
    <3>2. i <= b  BY <3>1
    <3>3. p \in m.columns
      BY <2>1, <3>1, <3>2
    <3>4. p[1] = Where[i] /\ p \notin LostColumns(S)
      BY SMTT(30), <3>1
    <3> QED  BY <2>3, <3>1, <3>3, <3>4
  <2> QED  BY <2>4, <2>5
<1>4. f.must = n.must
  <2>1. \A p : p \in m.must <=>
           \E i \in 1..27 : /\ i <= b /\ Kind[i] = "create"
                            /\ \E c \in All[i].must : p = <<Where[i], c>>
    <3> TAKE p
    <3>1. p \in m.must <=>
             \E i \in 1..27 : /\ i <= b /\ Kind[i] = "create"
                              /\ p \in Layout!Columns(Where[i], All[i].must)
      BY <1>0, StateHas DEF m
    <3>2. \A i \in 1..27 : p \in Layout!Columns(Where[i], All[i].must) <=>
             \E c \in All[i].must : p = <<Where[i], c>>
      BY ColumnsHave
    <3> HIDE DEF m
    <3> QED  BY <3>1, <3>2
  <2>2. \A p : p \in n.must <=>
           \E i \in 1..27 : /\ i <= a /\ Kind[i] = "create"
                            /\ \E c \in All[i].must : p = <<Where[i], c>>
    <3> TAKE p
    <3>1. p \in n.must <=>
             \E i \in 1..27 : /\ i <= a /\ Kind[i] = "create"
                              /\ p \in Layout!Columns(Where[i], All[i].must)
      BY StateHas DEF n
    <3>2. \A i \in 1..27 : p \in Layout!Columns(Where[i], All[i].must) <=>
             \E c \in All[i].must : p = <<Where[i], c>>
      BY ColumnsHave
    <3> HIDE DEF n
    <3> QED  BY <3>1, <3>2
  <2>3. f.must = {p \in m.must : p[1] \notin Gone(S) /\ p \notin LostColumns(S)}
    BY DEF Fallen
  <2> HIDE DEF f
  <2>4. ASSUME NEW p \in f.must
        PROVE  p \in n.must
    <3>1. PICK i \in 1..27 : /\ i <= b /\ Kind[i] = "create"
                             /\ \E c \in All[i].must : p = <<Where[i], c>>
      BY <2>1, <2>3
    <3>2. Where[i] \notin Gone(S)
      BY <2>3, <3>1
    <3>3. i <= a
      BY <1>0, <1>1, <3>1, <3>2
    <3> QED  BY <2>2, <3>1, <3>3
  <2>5. ASSUME NEW p \in n.must
        PROVE  p \in f.must
    <3>1. PICK i \in 1..27 : /\ i <= a /\ Kind[i] = "create"
                             /\ \E c \in All[i].must : p = <<Where[i], c>>
      BY <2>2
    <3>2. i <= b  BY <3>1
    <3>3. p \in m.must
      BY <2>1, <3>1, <3>2
    <3>4. p[1] = Where[i] /\ p \notin LostColumns(S)
      BY <3>1
    <3> QED  BY <2>3, <3>1, <3>3, <3>4
  <2> QED  BY <2>4, <2>5
<1>5. f.refs = n.refs
  <2>1. \A p : p \in m.refs <=>
           \E i \in 1..27 : /\ i <= b /\ Kind[i] = "create"
                            /\ \E c \in All[i].refs : p = <<Where[i], c>>
    <3> TAKE p
    <3>1. p \in m.refs <=>
             \E i \in 1..27 : /\ i <= b /\ Kind[i] = "create"
                              /\ p \in Layout!Columns(Where[i], All[i].refs)
      BY <1>0, StateHas DEF m
    <3>2. \A i \in 1..27 : p \in Layout!Columns(Where[i], All[i].refs) <=>
             \E c \in All[i].refs : p = <<Where[i], c>>
      BY ColumnsHave
    <3> HIDE DEF m
    <3> QED  BY <3>1, <3>2
  <2>2. \A p : p \in n.refs <=>
           \E i \in 1..27 : /\ i <= a /\ Kind[i] = "create"
                            /\ \E c \in All[i].refs : p = <<Where[i], c>>
    <3> TAKE p
    <3>1. p \in n.refs <=>
             \E i \in 1..27 : /\ i <= a /\ Kind[i] = "create"
                              /\ p \in Layout!Columns(Where[i], All[i].refs)
      BY StateHas DEF n
    <3>2. \A i \in 1..27 : p \in Layout!Columns(Where[i], All[i].refs) <=>
             \E c \in All[i].refs : p = <<Where[i], c>>
      BY ColumnsHave
    <3> HIDE DEF n
    <3> QED  BY <3>1, <3>2
  <2>3. f.refs = {p \in m.refs : p[1] \notin Gone(S)}
    BY DEF Fallen
  <2> HIDE DEF f
  <2>4. ASSUME NEW p \in f.refs
        PROVE  p \in n.refs
    <3>1. PICK i \in 1..27 : i <= b /\ Kind[i] = "create" /\ \E c \in All[i].refs : p = <<Where[i], c>>
      BY <2>1, <2>3
    <3>2. Where[i] \notin Gone(S)
      BY <2>3, <3>1
    <3>3. i <= a
      BY <1>0, <1>1, <3>1, <3>2
    <3> QED  BY <2>2, <3>1, <3>3
  <2>5. ASSUME NEW p \in n.refs
        PROVE  p \in f.refs
    <3>1. PICK i \in 1..27 : i <= a /\ Kind[i] = "create" /\ \E c \in All[i].refs : p = <<Where[i], c>>
      BY <2>2
    <3>2. i <= b  BY <3>1
    <3>3. p \in m.refs
      BY <2>1, <3>1, <3>2
    <3>4. p[1] = Where[i]
      BY <3>1
    <3> QED  BY <2>3, <3>1, <3>3, <3>4
  <2> QED  BY <2>4, <2>5
<1>6. f.unique = n.unique
  <2>1. \A p : p \in m.unique <=>
           \E i \in 1..27 : i <= b /\ Kind[i] = "unique" /\ p = <<Where[i], All[i].key>>
    BY <1>0, StateHas DEF m
  <2>2. \A p : p \in n.unique <=>
           \E i \in 1..27 : i <= a /\ Kind[i] = "unique" /\ p = <<Where[i], All[i].key>>
    BY StateHas DEF n
  <2>3. f.unique = {p \in m.unique : p[1] \notin Gone(S)}
    BY DEF Fallen
  <2> HIDE DEF f
  <2>4. ASSUME NEW p \in f.unique
        PROVE  p \in n.unique
    <3>1. PICK i \in 1..27 : i <= b /\ Kind[i] = "unique" /\ p = <<Where[i], All[i].key>>
      BY <2>1, <2>3
    <3>2. Where[i] \notin Gone(S)
      BY <2>3, <3>1
    <3>3. i <= a
      BY <1>0, <1>1, <3>1, <3>2
    <3> QED  BY <2>2, <3>1, <3>3
  <2>5. ASSUME NEW p \in n.unique
        PROVE  p \in f.unique
    <3>1. PICK i \in 1..27 : i <= a /\ Kind[i] = "unique" /\ p = <<Where[i], All[i].key>>
      BY <2>2
    <3>2. i <= b  BY <3>1
    <3>3. p \in m.unique
      BY <2>1, <3>1, <3>2
    <3>4. p[1] = Where[i]
      BY <3>1
    <3> QED  BY <2>3, <3>1, <3>3, <3>4
  <2> QED  BY <2>4, <2>5
<1>7. f.indexes = n.indexes
  <2>1. \A p : p \in m.indexes <=>
           \E i \in 1..27 : i <= b /\ Kind[i] = "index" /\ p = <<Where[i], All[i].index>>
    BY <1>0, StateHas DEF m
  <2>2. \A p : p \in n.indexes <=>
           \E i \in 1..27 : i <= a /\ Kind[i] = "index" /\ p = <<Where[i], All[i].index>>
    BY StateHas DEF n
  <2>3. f.indexes = {p \in m.indexes : p[1] \notin Gone(S) /\ p \notin LostIndexes(S)}
    BY DEF Fallen
  <2> HIDE DEF f
  <2>4. ASSUME NEW p \in f.indexes
        PROVE  p \in n.indexes
    <3>1. PICK i \in 1..27 : i <= b /\ Kind[i] = "index" /\ p = <<Where[i], All[i].index>>
      BY <2>1, <2>3
    <3>2. Where[i] \notin Gone(S) /\ <<Where[i], All[i].index>> \notin LostIndexes(S)
      BY <2>3, <3>1
    <3>3. i <= a
      BY <1>0, <3>1, <3>2
    <3> QED  BY <2>2, <3>1, <3>3
  <2>5. ASSUME NEW p \in n.indexes
        PROVE  p \in f.indexes
    <3>1. PICK i \in 1..27 : i <= a /\ Kind[i] = "index" /\ p = <<Where[i], All[i].index>>
      BY <2>2
    <3>2. i <= b /\ p[1] = Where[i]  BY <3>1
    <3> QED  BY <2>1, <2>3, <3>1, <3>2
  <2> QED  BY <2>4, <2>5
<1> QED  BY <1>2, <1>3, <1>4, <1>5, <1>6, <1>7 DEF Layout!SameSchema, n, m

(* A column joins at one statement. *)
LEMMA JoiningOnce ==
    \A c, d \in DOMAIN Joining : Joining[c] = Joining[d] => c = d
BY DEF Joining

(* The first k statements of a script. *)
First(s, k) == {s[i] : i \in 1..k}

(* The tables, columns and indexes of the first k statements.              *)
LEMMA FirstLose ==
    ASSUME NEW s, NEW k
    PROVE  /\ \A t : t \in Gone(First(s, k)) <=>
                 \E i \in 1..k : s[i].do = "drop_table" /\ s[i].table = t
           /\ \A p : p \in LostColumns(First(s, k)) <=>
                 \E i \in 1..k : s[i].do = "drop_column" /\ p = <<s[i].table, s[i].column>>
           /\ \A p : p \in LostIndexes(First(s, k)) <=>
                 \E i \in 1..k : s[i].do = "drop_index" /\ p = <<s[i].table, s[i].index>>
BY DEF First, Gone, LostColumns, LostIndexes

(* Where the columns join that come later. *)
LEMMA JoiningPlaces == /\ \A c \in DOMAIN Joining : Joining[c] \in 1..27
                       /\ Kind[24] = "backfill" /\ Kind[27] = "index" /\ Kind[20] = "create"
                       /\ Kind[21] = "index"
                       /\ \A i \in {17, 18, 19, 22, 23, 25, 26} : Kind[i] = "add"
                       /\ Where[3] = "hotels" /\ Where[20] = "knowledge_chunks"
                       /\ Where[21] = "knowledge_chunks" /\ Where[27] = "messages"
                       /\ \A i \in 1..27 : Kind[i] = "index" => i \in {3, 21, 27}
                       /\ \A i \in 1..27 : Where[i] = "knowledge_chunks" <=> i \in {20, 21}
<1>1. \A c \in DOMAIN Joining : Joining[c] \in 1..27  BY DEF Joining
<1>2. /\ Kind[24] = "backfill" /\ Kind[27] = "index" /\ Kind[20] = "create" /\ Kind[21] = "index"
      /\ \A i \in {17, 18, 19, 22, 23, 25, 26} : Kind[i] = "add"
      /\ \A i \in 1..27 : Kind[i] = "index" => i \in {3, 21, 27}
  BY DEF Kind
<1>3. /\ Where[3] = "hotels" /\ Where[20] = "knowledge_chunks"
      /\ Where[21] = "knowledge_chunks" /\ Where[27] = "messages"
      /\ \A i \in 1..27 : Where[i] = "knowledge_chunks" <=> i \in {20, 21}
  BY DEF Where
<1> QED  BY <1>1, <1>2, <1>3

(* An index has one statement. *)
LEMMA IndexNames ==
    /\ All[3].index = "ix_hotels_whatsapp_phone_number_id"
    /\ All[21].index = "ix_knowledge_chunks_hotel_id"
    /\ All[27].index = "ix_messages_wa_message_id"
<1>1. All[3] = Layout!Up1[3] /\ All[21] = Layout!Up2[5] /\ All[27] = Layout!Up3[6]
  BY AllIsUp
<1>2. Layout!Up1[3].index = "ix_hotels_whatsapp_phone_number_id"
  BY StatementForms DEF Layout!Up1
<1>3. Layout!Up2[5].index = "ix_knowledge_chunks_hotel_id"
  BY StatementForms DEF Layout!Up2
<1>4. Layout!Up3[6].index = "ix_messages_wa_message_id"
  BY StatementForms DEF Layout!Up3
<1> QED  BY <1>1, <1>2, <1>3, <1>4

(* What joins a table is what one statement adds. *)
LEMMA AddedIs ==
    \A i \in 1..27 : Kind[i] = "add" =>
        \A d \in DOMAIN Joining : Joining[d] = i => All[i].may = {d}
BY AddsOK, JoiningOnce

(* The first downgrade leaves nothing. *)
LEMMA FirstEnds ==
    Layout!SameSchema(Fallen(Layout!Made(Part(16)), First(Layout!Down1, 9)), Layout!Made(Part(0)))
<1> DEFINE S == First(Layout!Down1, 9)
<1>1. \A t \in DOMAIN Fall : t \in Gone(S)
  BY FirstFalls, FirstLose
<1>2. \A i \in 1..27 : 0 < i /\ i <= 16 => Where[i] \in Gone(S)
  <2>1. \A i \in 1..27 : 0 < i /\ i <= 16 => i \in 1..16  OBVIOUS
  <2> QED  BY <1>1, <2>1, FallingOrder
<1> HIDE DEF S
<1>3. \A i \in 1..27 : ~(i <= 0)  OBVIOUS
<1>4. 0 \in 0..27 /\ 16 \in 0..27  OBVIOUS
<1> QED  BY <1>2, <1>3, <1>4, Survivors DEF S

(* The second leaves what the first upgrade has made. *)
LEMMA SecondEnds ==
    Layout!SameSchema(Fallen(Layout!Made(Part(21)), First(Layout!Down2, 5)), Layout!Made(Part(16)))
<1> DEFINE S == First(Layout!Down2, 5)
<1>1. /\ \A t \in Gone(S) : t = "knowledge_chunks"
      /\ "knowledge_chunks" \in Gone(S)
  <2>1. \A i \in 1..5 : Layout!Down2[i].do = "drop_table" => i = 2
    BY SecondFalls
  <2> QED  BY <2>1, SecondFalls, FirstLose
<1>2. \A p : p \in LostColumns(S) <=> \E i \in 3..5 : p = <<Where[22 - i], Leave2[i]>>
  <2>1. \A i \in 1..5 : Layout!Down2[i].do = "drop_column" <=> i \in 3..5
    BY SecondFalls
  <2>2. \A p : p \in LostColumns(S) <=>
           \E i \in 1..5 : /\ Layout!Down2[i].do = "drop_column"
                           /\ p = <<Layout!Down2[i].table, Layout!Down2[i].column>>
    BY FirstLose
  <2>3. \A i \in 3..5 : /\ Layout!Down2[i].table = Where[22 - i]
                        /\ Layout!Down2[i].column = Leave2[i]
    BY SecondFalls
  <2> QED  BY <2>1, <2>2, <2>3
<1>3. \A p \in LostIndexes(S) : p[1] = "knowledge_chunks"
  <2>1. \A i \in 1..5 : Layout!Down2[i].do = "drop_index" => i = 1
    BY SecondFalls
  <2> QED  BY <2>1, SecondFalls, FirstLose
<1> HIDE DEF S
<1>4. \A i \in 1..27 : i <= 16 => Where[i] \notin Gone(S) /\ Where[i] # "knowledge_chunks"
  BY <1>1, JoiningPlaces
<1>5. ASSUME NEW i \in 1..27, i <= 16, Kind[i] \in {"create", "add"},
             NEW c \in All[i].must \cup All[i].may
      PROVE  <<Where[i], c>> \notin LostColumns(S)
  <2> SUFFICES ASSUME NEW j \in 3..5, c = Leave2[j]
               PROVE  FALSE
    BY <1>2
  <2>1. c \in DOMAIN Joining /\ Joining[c] = 22 - j
    BY SecondFalls
  <2>2. Kind[i] = "add"
    BY <1>5, <2>1, NamesAreNew
  <2>3. Joining[c] = i
    BY <1>5, <2>2, AddsOK
  <2> QED  BY <1>5, <2>1, <2>3
<1>6. \A i \in 1..27 : i <= 16 /\ Kind[i] = "index" => <<Where[i], All[i].index>> \notin LostIndexes(S)
  BY <1>3, <1>4
<1>7. ASSUME NEW i \in 1..27, 16 < i, i <= 21
      PROVE  \/ Where[i] \in Gone(S)
             \/ Kind[i] = "add" /\ \A c \in All[i].may : <<Where[i], c>> \in LostColumns(S)
  <2>1. CASE i \in {20, 21}
    BY <1>1, <2>1, JoiningPlaces
  <2>2. CASE i \in {17, 18, 19}
    <3>1. 22 - i \in 3..5 /\ 22 - (22 - i) = i  BY <2>2
    <3>2. Leave2[22 - i] \in DOMAIN Joining /\ Joining[Leave2[22 - i]] = i
      BY <3>1, SecondFalls
    <3>3. Kind[i] = "add"
      BY <2>2, JoiningPlaces
    <3>4. All[i].may = {Leave2[22 - i]}
      BY <3>2, <3>3, AddedIs
    <3>5. <<Where[i], Leave2[22 - i]>> \in LostColumns(S)
      BY <1>2, <3>1
    <3> QED  BY <3>3, <3>4, <3>5
  <2> QED  BY <1>7, <2>1, <2>2
<1>8. 16 \in 0..27 /\ 21 \in 16..27  OBVIOUS
<1>9. \A i \in 1..27 : i <= 16 => Where[i] \notin Gone(S)
  BY <1>4
<1>10. \A i \in 1..27 : i <= 16 /\ Kind[i] \in {"create", "add"} =>
          \A c \in All[i].must \cup All[i].may : <<Where[i], c>> \notin LostColumns(S)
  BY <1>5
<1>11. \A i \in 1..27 : 16 < i /\ i <= 21 =>
          \/ Where[i] \in Gone(S)
          \/ Kind[i] = "add" /\ \A c \in All[i].may : <<Where[i], c>> \in LostColumns(S)
          \/ Kind[i] = "index" /\ <<Where[i], All[i].index>> \in LostIndexes(S)
          \/ Kind[i] = "backfill"
  BY <1>7
<1> QED  BY <1>6, <1>8, <1>9, <1>10, <1>11, Survivors DEF S

(* The third leaves what the first two upgrades have made. *)
LEMMA ThirdEnds ==
    Layout!SameSchema(Fallen(Layout!Made(Part(27)), First(Layout!Down3, 5)), Layout!Made(Part(21)))
<1> DEFINE S == First(Layout!Down3, 5)
<1>1. Gone(S) = {}
  <2>1. \A i \in 1..5 : Layout!Down3[i].do # "drop_table"
    BY ThirdFalls
  <2> QED  BY <2>1, FirstLose
<1>2. \A p : p \in LostColumns(S) <=> \E i \in 2..5 : p = <<Where[Place3[i]], Leave3[i]>>
  <2>1. \A i \in 1..5 : Layout!Down3[i].do = "drop_column" <=> i \in 2..5
    BY ThirdFalls
  <2>2. \A p : p \in LostColumns(S) <=>
           \E i \in 1..5 : /\ Layout!Down3[i].do = "drop_column"
                           /\ p = <<Layout!Down3[i].table, Layout!Down3[i].column>>
    BY FirstLose
  <2>3. \A i \in 2..5 : /\ Layout!Down3[i].table = Where[Place3[i]]
                        /\ Layout!Down3[i].column = Leave3[i]
    BY ThirdFalls
  <2> QED  BY <2>1, <2>2, <2>3
<1>3. \A p : p \in LostIndexes(S) <=> p = <<"messages", "ix_messages_wa_message_id">>
  <2>1. \A i \in 1..5 : Layout!Down3[i].do = "drop_index" <=> i = 1
    BY ThirdFalls
  <2> QED  BY <2>1, ThirdFalls, FirstLose
<1> HIDE DEF S
<1>9. /\ Place3[2] = 26 /\ Place3[3] = 25 /\ Place3[4] = 23 /\ Place3[5] = 22
  BY DEF Place3
<1>4. \A i \in 1..27 : i <= 21 => Where[i] \notin Gone(S)
  BY <1>1
<1>5. ASSUME NEW i \in 1..27, i <= 21, Kind[i] \in {"create", "add"},
             NEW c \in All[i].must \cup All[i].may
      PROVE  <<Where[i], c>> \notin LostColumns(S)
  <2> SUFFICES ASSUME NEW j \in 2..5, c = Leave3[j]
               PROVE  FALSE
    BY <1>2
  <2>1. c \in DOMAIN Joining /\ Joining[c] = Place3[j]
    BY ThirdFalls
  <2>2. Kind[i] = "add"
    BY <1>5, <2>1, NamesAreNew
  <2>3. Joining[c] = i
    BY <1>5, <2>2, AddsOK
  <2>4. Place3[j] >= 22
    BY <1>9
  <2> QED  BY <1>5, <2>1, <2>3, <2>4
<1>6. \A i \in 1..27 : i <= 21 /\ Kind[i] = "index" => <<Where[i], All[i].index>> \notin LostIndexes(S)
  BY <1>3, JoiningPlaces
<1>7. ASSUME NEW i \in 1..27, 21 < i, i <= 27
      PROVE  \/ Kind[i] = "add" /\ \A c \in All[i].may : <<Where[i], c>> \in LostColumns(S)
             \/ Kind[i] = "index" /\ <<Where[i], All[i].index>> \in LostIndexes(S)
             \/ Kind[i] = "backfill"
  <2>1. CASE i \in {24, 27}
    BY <1>3, <2>1, JoiningPlaces, IndexNames
  <2>2. CASE i \in {22, 23, 25, 26}
    <3>1. PICK j \in 2..5 : Place3[j] = i
      <4>1. 2 \in 2..5 /\ 3 \in 2..5 /\ 4 \in 2..5 /\ 5 \in 2..5  OBVIOUS
      <4> QED  BY <1>9, <2>2, <4>1
    <3>2. Leave3[j] \in DOMAIN Joining /\ Joining[Leave3[j]] = i
      BY <3>1, ThirdFalls
    <3>3. Kind[i] = "add"
      BY <2>2, JoiningPlaces
    <3>4. All[i].may = {Leave3[j]}
      BY <3>2, <3>3, AddedIs
    <3>5. <<Where[i], Leave3[j]>> \in LostColumns(S)
      BY <1>2, <3>1
    <3> QED  BY <3>3, <3>4, <3>5
  <2> QED  BY <1>7, <2>1, <2>2
<1>8. 21 \in 0..27 /\ 27 \in 21..27  OBVIOUS
<1> QED  BY <1>4, <1>5, <1>6, <1>7, <1>8, Survivors DEF S

(* Each statement of the first downgrade finds what it drops. *)
LEMMA FirstApplies ==
    ASSUME NEW k \in 0..8, NEW d,
           Layout!SameSchema(d, Fallen(Layout!Made(Part(16)), First(Layout!Down1, k)))
    PROVE  Layout!Applies(Layout!Down1[k + 1], d)
<1> DEFINE S == First(Layout!Down1, k)
           m == Layout!Made(Part(16))
           s == Layout!Down1[k + 1]
<1>0. k + 1 \in 1..9 /\ \A i \in 1..9 : i \in 1..k <=> i < k + 1
  OBVIOUS
<1>1. /\ d.tables = m.tables \ Gone(S)
      /\ d.refs = {p \in m.refs : p[1] \notin Gone(S)}
      /\ d.indexes = {p \in m.indexes : p[1] \notin Gone(S) /\ p \notin LostIndexes(S)}
  BY DEF Layout!SameSchema, Fallen
<1>2. \A t \in DOMAIN Fall : t \in Gone(S) <=> Fall[t] < k + 1
  <2>1. \A t : t \in Gone(S) <=>
           \E i \in 1..k : Layout!Down1[i].do = "drop_table" /\ Layout!Down1[i].table = t
    BY FirstLose
  <2>2. \A i \in 1..k : i \in 1..9
    BY <1>0
  <2> HIDE DEF S
  <2> QED  BY <1>0, <2>1, <2>2, FirstFalls
<1>3. LostIndexes(S) # {} => k + 1 > 8
  <2>1. \A p : p \in LostIndexes(S) =>
           \E i \in 1..k : Layout!Down1[i].do = "drop_index"
    BY FirstLose
  <2>2. \A i \in 1..k : i \in 1..9 /\ i < k + 1
    BY <1>0
  <2> HIDE DEF S
  <2> QED  BY <2>1, <2>2, FirstFalls
<1>6. /\ \A t : t \in m.tables <=> \E i \in 1..27 : i <= 16 /\ Kind[i] = "create" /\ Where[i] = t
      /\ \A p : p \in m.refs <=>
            \E i \in 1..27 : /\ i <= 16 /\ Kind[i] = "create"
                             /\ p \in Layout!Columns(Where[i], All[i].refs)
      /\ \A p : p \in m.indexes <=>
            \E i \in 1..27 : i <= 16 /\ Kind[i] = "index" /\ p = <<Where[i], All[i].index>>
  <2>1. 16 \in 0..27  OBVIOUS
  <2> QED  BY <2>1, StateHas
<1> HIDE DEF S, m
<1>4. CASE s.do = "drop_table"
  <2> DEFINE t == s.table
  <2>1. t \in DOMAIN Fall /\ Fall[t] = k + 1
    BY <1>0, <1>4, FirstFalls
  <2>2. t \in d.tables
    <3>1. Birth[t] \in 1..27 /\ Birth[t] <= 16 /\ Kind[Birth[t]] = "create" /\ Where[Birth[t]] = t
      BY <2>1, FallingOrder, BirthOK
    <3>2. t \in m.tables
      BY <1>6, <3>1
    <3>3. t \notin Gone(S)
      BY <1>2, <2>1
    <3> QED  BY <1>1, <3>2, <3>3
  <2>3. ASSUME NEW r \in d.refs, r[2] = t
        PROVE  FALSE
    <3> HIDE DEF t, s
    <3>1. r \in m.refs /\ r[1] \notin Gone(S)
      BY <1>1
    <3>2. PICK i \in 1..27 : /\ i <= 16 /\ Kind[i] = "create"
                             /\ r \in Layout!Columns(Where[i], All[i].refs)
      BY <1>6, <3>1
    <3>3. r[1] = Where[i] /\ r[2] \in All[i].refs /\ i \in 1..16
      BY <3>2 DEF Layout!Columns
    <3>4. Where[i] \in DOMAIN Fall /\ Fall[Where[i]] < Fall[t]
      BY <2>3, <3>2, <3>3, FallingOrder
    <3> QED  BY <1>2, <2>1, <3>1, <3>3, <3>4
  <2> QED  BY <1>4, <2>2, <2>3 DEF Layout!Applies
<1>5. CASE s.do = "drop_index"
  <2>1. k + 1 = 8 /\ s.table = "hotels" /\ s.index = "ix_hotels_whatsapp_phone_number_id"
    BY <1>0, <1>5, FirstFalls
  <2>2. <<"hotels", "ix_hotels_whatsapp_phone_number_id">> \in m.indexes
    <3>1. Kind[3] = "index"  BY DEF Kind
    <3>2. 3 \in 1..27 /\ 3 <= 16  OBVIOUS
    <3> QED  BY <1>6, <3>1, <3>2, IndexNames, JoiningPlaces
  <2>3. "hotels" \in DOMAIN Fall /\ Fall["hotels"] = 9
    BY DEF Fall
  <2>4. "hotels" \notin Gone(S)
    BY <1>2, <2>1, <2>3
  <2>5. LostIndexes(S) = {}
    BY <1>3, <2>1
  <2> QED  BY <1>1, <1>5, <2>1, <2>2, <2>4, <2>5 DEF Layout!Applies
<1> QED  BY <1>0, <1>4, <1>5, FirstFalls

(* A column that has joined, and has not left yet. *)
LEMMA ColumnIsThere ==
    ASSUME NEW n \in 0..27, NEW c \in DOMAIN Joining, Joining[c] <= n,
           Kind[Joining[c]] = "add"
    PROVE  <<Where[Joining[c]], c>> \in Layout!Made(Part(n)).columns
<1> DEFINE i == Joining[c]
           m == Layout!Made(Part(n))
<1>1. i \in 1..27 /\ i <= n  BY JoiningPlaces
<1>2. All[i].may = {c}
  BY <1>1, AddedIs
<1>3. <<Where[i], c>> \in Layout!Columns(Where[i], All[i].must \cup All[i].may)
  BY <1>2 DEF Layout!Columns
<1> HIDE DEF i, m
<1>4. \A p : p \in m.columns <=>
         \E j \in 1..27 : /\ j <= n /\ Kind[j] \in {"create", "add"}
                          /\ p \in Layout!Columns(Where[j], All[j].must \cup All[j].may)
  BY StateHas DEF m
<1>5. <<Where[i], c>> \in m.columns
  BY <1>1, <1>3, <1>4 DEF i
<1> QED  BY <1>5 DEF i, m

(* Each statement of the second does. *)
LEMMA SecondApplies ==
    ASSUME NEW k \in 0..4, NEW d,
           Layout!SameSchema(d, Fallen(Layout!Made(Part(21)), First(Layout!Down2, k)))
    PROVE  Layout!Applies(Layout!Down2[k + 1], d)
<1> DEFINE S == First(Layout!Down2, k)
           m == Layout!Made(Part(21))
           s == Layout!Down2[k + 1]
<1>0. k + 1 \in 1..5 /\ \A i \in 1..k : i \in 1..5 /\ i < k + 1
  OBVIOUS
<1>1. /\ d.tables = m.tables \ Gone(S)
      /\ d.refs = {p \in m.refs : p[1] \notin Gone(S)}
      /\ d.columns = {p \in m.columns : p[1] \notin Gone(S) /\ p \notin LostColumns(S)}
      /\ d.indexes = {p \in m.indexes : p[1] \notin Gone(S) /\ p \notin LostIndexes(S)}
  BY DEF Layout!SameSchema, Fallen
<1>2. \A t \in Gone(S) : t = "knowledge_chunks" /\ 2 < k + 1
  <2>1. \A i \in 1..5 : Layout!Down2[i].do = "drop_table" => i = 2
    BY SecondFalls
  <2> QED  BY <1>0, <2>1, SecondFalls, FirstLose
<1>3. \A p \in LostIndexes(S) : 1 < k + 1
  <2>1. \A i \in 1..5 : Layout!Down2[i].do = "drop_index" => i = 1
    BY SecondFalls
  <2> QED  BY <1>0, <2>1, FirstLose
<1>4. \A p \in LostColumns(S) : \E i \in 3..5 : i < k + 1 /\ p[2] = Leave2[i]
  <2>1. \A i \in 1..5 : Layout!Down2[i].do = "drop_column" => i \in 3..5
    BY SecondFalls
  <2>2. \A p : p \in LostColumns(S) <=>
           \E i \in 1..k : /\ Layout!Down2[i].do = "drop_column"
                           /\ p = <<Layout!Down2[i].table, Layout!Down2[i].column>>
    BY FirstLose
  <2> HIDE DEF S
  <2> QED  BY <1>0, <2>1, <2>2, SecondFalls
<1>6. 21 \in 0..27  OBVIOUS
<1>9. /\ \A t : t \in m.tables <=> \E i \in 1..27 : i <= 21 /\ Kind[i] = "create" /\ Where[i] = t
      /\ \A p : p \in m.refs <=>
            \E i \in 1..27 : /\ i <= 21 /\ Kind[i] = "create"
                             /\ p \in Layout!Columns(Where[i], All[i].refs)
      /\ \A p : p \in m.indexes <=>
            \E i \in 1..27 : i <= 21 /\ Kind[i] = "index" /\ p = <<Where[i], All[i].index>>
  <2>1. 21 \in 0..27  OBVIOUS
  <2> QED  BY <2>1, StateHas
<1> HIDE DEF S, m
<1>5. CASE k = 0
  <2>1. s.do = "drop_index" /\ s.table = "knowledge_chunks" /\ s.index = "ix_knowledge_chunks_hotel_id"
    BY <1>5, SecondFalls
  <2>2. <<"knowledge_chunks", "ix_knowledge_chunks_hotel_id">> \in m.indexes
    <3>1. 21 \in 1..27 /\ 21 <= 21  OBVIOUS
    <3> QED  BY <1>9, <3>1, IndexNames, JoiningPlaces
  <2>3. Gone(S) = {} /\ LostIndexes(S) = {}
    BY <1>2, <1>3, <1>5
  <2> QED  BY <1>1, <2>1, <2>2, <2>3 DEF Layout!Applies
<1>7. CASE k = 1
  <2>1. s.do = "drop_table" /\ s.table = "knowledge_chunks"
    BY <1>7, SecondFalls
  <2>2. "knowledge_chunks" \in m.tables
    <3>1. 20 \in 1..27 /\ 20 <= 21  OBVIOUS
    <3> QED  BY <1>9, <3>1, JoiningPlaces
  <2>3. Gone(S) = {}
    BY <1>2, <1>7
  <2>4. ASSUME NEW r \in d.refs, r[2] = "knowledge_chunks"
        PROVE  FALSE
    <3>1. r \in m.refs
      BY <1>1
    <3>2. PICK i \in 1..27 : /\ i <= 21 /\ Kind[i] = "create"
                             /\ r \in Layout!Columns(Where[i], All[i].refs)
      BY <1>9, <3>1
    <3>3. r[2] \in All[i].refs
      BY <3>2 DEF Layout!Columns
    <3>4. Birth["knowledge_chunks"] < i
      BY <2>4, <3>2, <3>3, RefsOK
    <3>5. Birth["knowledge_chunks"] = 20
      BY DEF Birth
    <3> QED  BY <3>2, <3>4, <3>5, JoiningPlaces
  <2> QED  BY <1>1, <2>1, <2>2, <2>3, <2>4 DEF Layout!Applies
<1>8. CASE k \in 2..4
  <2> DEFINE j == k + 1
             c == Leave2[j]
  <2>1. /\ j \in 3..5 /\ s.do = "drop_column" /\ s.column = c /\ s.table = Where[22 - j]
        /\ c \in DOMAIN Joining /\ Joining[c] = 22 - j
    <3>1. j \in 3..5  BY <1>8
    <3> QED  BY <3>1, SecondFalls
  <2>2. 22 - j \in {17, 18, 19} /\ 22 - j <= 21
    BY <2>1
  <2>3. <<Where[22 - j], c>> \in m.columns
    BY <1>6, <2>1, <2>2, ColumnIsThere, JoiningPlaces DEF m
  <2>4. Where[22 - j] # "knowledge_chunks"
    BY <2>2, JoiningPlaces
  <2>5. <<Where[22 - j], c>> \notin LostColumns(S)
    <3> SUFFICES ASSUME NEW i \in 3..5, i < j, c = Leave2[i]
                 PROVE  FALSE
      BY <1>4
    <3>1. Joining[c] = 22 - i
      BY SecondFalls
    <3> QED  BY <2>1, <3>1
  <2>6. <<Where[22 - j], c>> \in d.columns
    BY <1>1, <1>2, <2>3, <2>4, <2>5
  <2> QED  BY <2>1, <2>6 DEF Layout!Applies
<1> QED  BY <1>5, <1>7, <1>8

(* Each statement of the third does. *)
LEMMA ThirdApplies ==
    ASSUME NEW k \in 0..4, NEW d,
           Layout!SameSchema(d, Fallen(Layout!Made(Part(27)), First(Layout!Down3, k)))
    PROVE  Layout!Applies(Layout!Down3[k + 1], d)
<1> DEFINE S == First(Layout!Down3, k)
           m == Layout!Made(Part(27))
           s == Layout!Down3[k + 1]
<1>0. k + 1 \in 1..5 /\ \A i \in 1..k : i \in 1..5 /\ i < k + 1
  OBVIOUS
<1>1. /\ d.columns = {p \in m.columns : p[1] \notin Gone(S) /\ p \notin LostColumns(S)}
      /\ d.indexes = {p \in m.indexes : p[1] \notin Gone(S) /\ p \notin LostIndexes(S)}
  BY DEF Layout!SameSchema, Fallen
<1>2. Gone(S) = {}
  <2>1. \A i \in 1..5 : Layout!Down3[i].do # "drop_table"
    BY ThirdFalls
  <2> QED  BY <1>0, <2>1, FirstLose
<1>3. \A p \in LostIndexes(S) : 1 < k + 1
  <2>1. \A i \in 1..5 : Layout!Down3[i].do = "drop_index" => i = 1
    BY ThirdFalls
  <2> QED  BY <1>0, <2>1, FirstLose
<1>4. \A p \in LostColumns(S) : \E i \in 2..5 : i < k + 1 /\ p[2] = Leave3[i]
  <2>1. \A i \in 1..5 : Layout!Down3[i].do = "drop_column" => i \in 2..5
    BY ThirdFalls
  <2>2. \A p : p \in LostColumns(S) <=>
           \E i \in 1..k : /\ Layout!Down3[i].do = "drop_column"
                           /\ p = <<Layout!Down3[i].table, Layout!Down3[i].column>>
    BY FirstLose
  <2> HIDE DEF S
  <2> QED  BY <1>0, <2>1, <2>2, ThirdFalls
<1>6. 27 \in 0..27  OBVIOUS
<1>9. Place3[2] = 26 /\ Place3[3] = 25 /\ Place3[4] = 23 /\ Place3[5] = 22
  BY DEF Place3
<1>7. /\ \A t : t \in m.tables <=> \E i \in 1..27 : i <= 27 /\ Kind[i] = "create" /\ Where[i] = t
      /\ \A p : p \in m.refs <=>
            \E i \in 1..27 : /\ i <= 27 /\ Kind[i] = "create"
                             /\ p \in Layout!Columns(Where[i], All[i].refs)
      /\ \A p : p \in m.indexes <=>
            \E i \in 1..27 : i <= 27 /\ Kind[i] = "index" /\ p = <<Where[i], All[i].index>>
  <2>1. 27 \in 0..27  OBVIOUS
  <2> QED  BY <2>1, StateHas
<1> HIDE DEF S, m
<1>5. CASE k = 0
  <2>1. s.do = "drop_index" /\ s.table = "messages" /\ s.index = "ix_messages_wa_message_id"
    BY <1>5, ThirdFalls
  <2>2. <<"messages", "ix_messages_wa_message_id">> \in m.indexes
    <3>1. 27 \in 1..27 /\ 27 <= 27  OBVIOUS
    <3> QED  BY <1>7, <3>1, IndexNames, JoiningPlaces
  <2>3. LostIndexes(S) = {}
    BY <1>3, <1>5
  <2> QED  BY <1>1, <1>2, <2>1, <2>2, <2>3 DEF Layout!Applies
<1>8. CASE k \in 1..4
  <2> DEFINE j == k + 1
             c == Leave3[j]
  <2>1. /\ j \in 2..5 /\ s.do = "drop_column" /\ s.column = c /\ s.table = Where[Place3[j]]
        /\ c \in DOMAIN Joining /\ Joining[c] = Place3[j]
    <3>1. j \in 2..5  BY <1>8
    <3> QED  BY <3>1, ThirdFalls
  <2>2. Place3[j] \in {22, 23, 25, 26} /\ Place3[j] <= 27
    BY <1>9, <2>1
  <2>3. <<Where[Place3[j]], c>> \in m.columns
    BY <1>6, <2>1, <2>2, ColumnIsThere, JoiningPlaces DEF m
  <2>5. <<Where[Place3[j]], c>> \notin LostColumns(S)
    <3> SUFFICES ASSUME NEW i \in 2..5, i < j, c = Leave3[i]
                 PROVE  FALSE
      BY <1>4
    <3>1. Joining[c] = Place3[i]
      BY ThirdFalls
    <3>2. Place3[i] # Place3[j]
      BY <1>9, <2>1
    <3> QED  BY <2>1, <3>1, <3>2
  <2>6. <<Where[Place3[j]], c>> \in d.columns
    BY <1>1, <1>2, <2>3, <2>5
  <2> QED  BY <2>1, <2>6 DEF Layout!Applies
<1> QED  BY <1>5, <1>8

(* Each downgrade applies, statement by statement, and ends where the      *)
(* revision before has been.                                               *)
LEMMA DowngradeApplies ==
    ASSUME NEW r \in 1..3, NEW k \in 0..Len(Layout!Down[r]) - 1, NEW d,
           Layout!SameSchema(d, Fallen(Layout!Made(Part(Bound[r])), First(Layout!Down[r], k)))
    PROVE  Layout!Applies(Layout!Down[r][k + 1], d)
<1>1. CASE r = 1
  <2>1. Layout!Down[r] = Layout!Down1 /\ k \in 0..8 /\ Bound[r] = 16
    BY <1>1, DownIs, BoundIs
  <2> QED  BY <2>1, FirstApplies
<1>2. CASE r = 2
  <2>1. Layout!Down[r] = Layout!Down2 /\ k \in 0..4 /\ Bound[r] = 21
    BY <1>2, DownIs, BoundIs
  <2> QED  BY <2>1, SecondApplies
<1>3. CASE r = 3
  <2>1. Layout!Down[r] = Layout!Down3 /\ k \in 0..4 /\ Bound[r] = 27
    BY <1>3, DownIs, BoundIs
  <2> QED  BY <2>1, ThirdApplies
<1> QED  BY <1>1, <1>2, <1>3

(* A downgrade ends at the revision before. *)
LEMMA DowngradeEnds ==
    ASSUME NEW r \in 1..3
    PROVE  Layout!SameSchema(Fallen(Layout!Made(Part(Bound[r])),
                                    First(Layout!Down[r], Len(Layout!Down[r]))),
                             Layout!Made(Part(Bound[r - 1])))
<1>1. CASE r = 1  BY <1>1, FirstEnds, DownIs, BoundIs
<1>2. CASE r = 2  BY <1>2, SecondEnds, DownIs, BoundIs
<1>3. CASE r = 3  BY <1>3, ThirdEnds, DownIs, BoundIs
<1> QED  BY <1>1, <1>2, <1>3

(* What joins which table after its creation. *)
Joiners ==
    [hotels |-> {"sla_seconds"}, staff_users |-> {}, rooms |-> {}, guest_stays |-> {},
     conversations |-> {"opted_out", "last_inbound_at", "opted_out_at"},
     messages |-> {"wa_status", "wa_error_code", "wa_error_title"},
     escalations |-> {}, push_subscriptions |-> {}, knowledge_chunks |-> {}]

(* The tables of the models are those created. *)
LEMMA TablesAre ==
    /\ DOMAIN Birth = {"hotels", "staff_users", "rooms", "guest_stays", "conversations",
                       "messages", "escalations", "push_subscriptions", "knowledge_chunks"}
    /\ DOMAIN Layout!Models = DOMAIN Birth /\ DOMAIN Joiners = DOMAIN Birth
BY DEF Birth, Layout!Models, Joiners

(* Joiners says which columns join which table. *)
LEMMA JoinersAre ==
    /\ \A c \in DOMAIN Joining : Where[Joining[c]] \in DOMAIN Birth /\ c \in Joiners[Where[Joining[c]]]
    /\ \A t \in DOMAIN Birth : \A c \in Joiners[t] : c \in DOMAIN Joining /\ Where[Joining[c]] = t
<1>1. \A c \in DOMAIN Joining : c \in Joiners[Where[Joining[c]]]
  BY DEF Joining, Joiners, Where
<1>2. \A t \in DOMAIN Birth : \A c \in Joiners[t] : c \in DOMAIN Joining /\ Where[Joining[c]] = t
  BY TablesAre DEF Joining, Joiners, Where
<1>3. \A c \in DOMAIN Joining : Where[Joining[c]] \in DOMAIN Birth
  BY JoiningPlaces, BirthOK
<1> QED  BY <1>1, <1>2, <1>3

(* The models map what a table was created with and what has joined it.    *)
LEMMA ModelsAre ==
    \A t \in DOMAIN Birth :
        Layout!Models[t] = All[Birth[t]].must \cup All[Birth[t]].may \cup Joiners[t]
<1> DEFINE G(t) == All[Birth[t]].must \cup All[Birth[t]].may \cup Joiners[t]
           U(i) == Layout!Up1[i].must \cup Layout!Up1[i].may
<1>0. /\ Birth["hotels"] = 1 /\ Birth["staff_users"] = 4 /\ Birth["rooms"] = 6
      /\ Birth["guest_stays"] = 8 /\ Birth["conversations"] = 9 /\ Birth["messages"] = 11
      /\ Birth["escalations"] = 13 /\ Birth["push_subscriptions"] = 15
      /\ Birth["knowledge_chunks"] = 20
  BY DEF Birth
<1>1. Layout!Models["hotels"] = G("hotels")
  <2>1. Layout!Models["hotels"] = U(1) \cup {"sla_seconds"}
    BY StatementForms DEF Layout!Models, Layout!Up1
  <2>2. Joiners["hotels"] = {"sla_seconds"}  BY DEF Joiners
  <2> QED  BY <1>0, <2>1, <2>2, CreatedFirst
<1>2. Layout!Models["staff_users"] = G("staff_users")
  <2>1. Layout!Models["staff_users"] = U(4)
    BY StatementForms DEF Layout!Models, Layout!Up1
  <2>2. Joiners["staff_users"] = {}  BY DEF Joiners
  <2> QED  BY <1>0, <2>1, <2>2, CreatedFirst
<1>3. Layout!Models["rooms"] = G("rooms")
  <2>1. Layout!Models["rooms"] = U(6)
    BY StatementForms DEF Layout!Models, Layout!Up1
  <2>2. Joiners["rooms"] = {}  BY DEF Joiners
  <2> QED  BY <1>0, <2>1, <2>2, CreatedFirst
<1>4. Layout!Models["guest_stays"] = G("guest_stays")
  <2>1. Layout!Models["guest_stays"] = U(8)
    BY StatementForms DEF Layout!Models, Layout!Up1
  <2>2. Joiners["guest_stays"] = {}  BY DEF Joiners
  <2> QED  BY <1>0, <2>1, <2>2, CreatedFirst
<1>5. Layout!Models["conversations"] = G("conversations")
  <2>1. Layout!Models["conversations"] = U(9) \cup {"opted_out", "last_inbound_at", "opted_out_at"}
    BY StatementForms DEF Layout!Models, Layout!Up1
  <2>2. Joiners["conversations"] = {"opted_out", "last_inbound_at", "opted_out_at"}  BY DEF Joiners
  <2> QED  BY <1>0, <2>1, <2>2, CreatedFirst
<1>6. Layout!Models["messages"] = G("messages")
  <2>1. Layout!Models["messages"] = U(11) \cup {"wa_status", "wa_error_code", "wa_error_title"}
    BY StatementForms DEF Layout!Models, Layout!Up1
  <2>2. Joiners["messages"] = {"wa_status", "wa_error_code", "wa_error_title"}  BY DEF Joiners
  <2> QED  BY <1>0, <2>1, <2>2, CreatedFirst
<1>7. Layout!Models["escalations"] = G("escalations")
  <2>1. Layout!Models["escalations"] = U(13)
    BY StatementForms DEF Layout!Models, Layout!Up1
  <2>2. Joiners["escalations"] = {}  BY DEF Joiners
  <2> QED  BY <1>0, <2>1, <2>2, CreatedFirst
<1>8. Layout!Models["push_subscriptions"] = G("push_subscriptions")
  <2>1. Layout!Models["push_subscriptions"] = U(15)
    BY StatementForms DEF Layout!Models, Layout!Up1
  <2>2. Joiners["push_subscriptions"] = {}  BY DEF Joiners
  <2> QED  BY <1>0, <2>1, <2>2, CreatedFirst
<1>9. Layout!Models["knowledge_chunks"] = G("knowledge_chunks")
  <2>1. Layout!Models["knowledge_chunks"] = Layout!Up2[4].must \cup Layout!Up2[4].may
    BY StatementForms DEF Layout!Models, Layout!Up2
  <2>2. Joiners["knowledge_chunks"] = {}  BY DEF Joiners
  <2> QED  BY <1>0, <2>1, <2>2, CreatedFirst
<1> HIDE DEF G
<1>10. \A t \in DOMAIN Birth : Layout!Models[t] = G(t)
  BY <1>1, <1>2, <1>3, <1>4, <1>5, <1>6, <1>7, <1>8, <1>9, TablesAre
<1> QED  BY <1>10 DEF G

(* The newest revision has the columns of the models. *)
LEMMA HeadColumns == Layout!Made(Part(27)).columns = Layout!ModelColumns
<1> DEFINE m == Layout!Made(Part(27))
<1>1. \A p : p \in m.columns <=>
         \E i \in 1..27 : /\ i <= 27 /\ Kind[i] \in {"create", "add"}
                          /\ p \in Layout!Columns(Where[i], All[i].must \cup All[i].may)
  <2>1. 27 \in 0..27  OBVIOUS
  <2> QED  BY <2>1, StateHas
<1> HIDE DEF m
<1>2. ASSUME NEW p \in m.columns
      PROVE  p \in Layout!ModelColumns
  <2>1. PICK i \in 1..27 : /\ Kind[i] \in {"create", "add"}
                           /\ p \in Layout!Columns(Where[i], All[i].must \cup All[i].may)
    BY <1>1
  <2>2. PICK c \in All[i].must \cup All[i].may : p = <<Where[i], c>>
    BY <2>1, ColumnsHave
  <2>3. Where[i] \in DOMAIN Birth
    BY BirthOK
  <2>4. c \in Layout!Models[Where[i]]
    <3>1. CASE Kind[i] = "create"
      <4>1. Birth[Where[i]] = i
        BY <3>1, BirthOK
      <4> QED  BY <2>3, <4>1, ModelsAre
    <3>2. CASE Kind[i] = "add"
      <4>1. c \in DOMAIN Joining /\ Joining[c] = i
        BY <3>2, AddsOK
      <4>2. c \in Joiners[Where[i]]
        BY <4>1, JoinersAre
      <4> QED  BY <2>3, <4>2, ModelsAre
    <3> QED  BY <2>1, <3>1, <3>2
  <2>5. p \in Layout!Columns(Where[i], Layout!Models[Where[i]])
    BY <2>2, <2>4, ColumnsHave
  <2> QED  BY <2>3, <2>5, TablesAre DEF Layout!ModelColumns
<1>3. ASSUME NEW p \in Layout!ModelColumns
      PROVE  p \in m.columns
  <2>1. PICK t \in DOMAIN Birth : p \in Layout!Columns(t, Layout!Models[t])
    BY TablesAre DEF Layout!ModelColumns
  <2>2. PICK c \in Layout!Models[t] : p = <<t, c>>
    BY <2>1, ColumnsHave
  <2>3. CASE c \in Joiners[t]
    <3>1. c \in DOMAIN Joining /\ Where[Joining[c]] = t
      BY <2>3, JoinersAre
    <3>2. Joining[c] \in 1..27 /\ Kind[Joining[c]] = "add"
      BY <3>1 DEF Joining, Kind
    <3> QED  BY <2>2, <3>1, <3>2, ColumnIsThere DEF m
  <2>4. CASE c \in All[Birth[t]].must \cup All[Birth[t]].may
    <3>1. Birth[t] \in 1..27 /\ Kind[Birth[t]] = "create" /\ Where[Birth[t]] = t /\ Birth[t] <= 27
      BY BirthOK
    <3>2. p \in Layout!Columns(Where[Birth[t]], All[Birth[t]].must \cup All[Birth[t]].may)
      BY <2>2, <2>4, <3>1, ColumnsHave
    <3> QED  BY <1>1, <3>1, <3>2
  <2> QED  BY <2>2, <2>3, <2>4, ModelsAre
<1> QED  BY <1>2, <1>3 DEF m

(* The newest revision has the keys of the models. *)
LEMMA HeadKeys == Layout!Made(Part(27)).unique = Layout!ModelKeys
<1> DEFINE m == Layout!Made(Part(27))
           K(i) == <<Where[i], All[i].key>>
<1>1. \A p : p \in m.unique <=> \E i \in 1..27 : i <= 27 /\ Kind[i] = "unique" /\ p = K(i)
  <2>1. 27 \in 0..27  OBVIOUS
  <2> QED  BY <2>1, StateHas
<1>2. \A i \in 1..27 : Kind[i] = "unique" <=> i \in {2, 5, 7, 10, 12, 14, 16}
  BY DEF Kind
<1>3. /\ K(2) = <<"hotels", {"whatsapp_phone_number_id"}>>
      /\ K(5) = <<"staff_users", {"hotel_id", "email"}>>
      /\ K(7) = <<"rooms", {"hotel_id", "room_number"}>>
      /\ K(10) = <<"conversations", {"hotel_id", "wa_id"}>>
      /\ K(12) = <<"messages", {"hotel_id", "wa_message_id"}>>
      /\ K(14) = <<"escalations", {"message_id"}>>
      /\ K(16) = <<"push_subscriptions", {"staff_user_id", "endpoint"}>>
  <2>1. \A i \in {2, 5, 7, 10, 12, 14, 16} : All[i] = Layout!Up1[i]
    <3>1. \A i \in {2, 5, 7, 10, 12, 14, 16} : i \in 1..16  OBVIOUS
    <3> QED  BY <3>1, AllIsUp
  <2>2. /\ Where[2] = "hotels" /\ Layout!Up1[2].key = {"whatsapp_phone_number_id"}
        /\ Where[5] = "staff_users" /\ Layout!Up1[5].key = {"hotel_id", "email"}
        /\ Where[7] = "rooms" /\ Layout!Up1[7].key = {"hotel_id", "room_number"}
        /\ Where[10] = "conversations" /\ Layout!Up1[10].key = {"hotel_id", "wa_id"}
        /\ Where[12] = "messages" /\ Layout!Up1[12].key = {"hotel_id", "wa_message_id"}
        /\ Where[14] = "escalations" /\ Layout!Up1[14].key = {"message_id"}
        /\ Where[16] = "push_subscriptions" /\ Layout!Up1[16].key = {"staff_user_id", "endpoint"}
    BY StatementForms DEF Layout!Up1, Where
  <2> QED  BY <2>1, <2>2
<1> HIDE DEF m, K
<1>4. \A p : p \in m.unique <=> p \in {K(2), K(5), K(7), K(10), K(12), K(14), K(16)}
  BY <1>1, <1>2
<1>5. m.unique = {K(2), K(5), K(7), K(10), K(12), K(14), K(16)}
  BY <1>4
<1> QED  BY <1>3, <1>5 DEF m, Layout!ModelKeys

(* A release works with its own revision, and with every later one: what   *)
(* has come since is not asked for, unless it is in a table of its own.    *)
LEMMA LaterServes ==
    ASSUME NEW old \in 1..3, NEW r \in old..3, NEW d,
           Layout!SameSchema(d, Layout!Made(Part(Bound[r])))
    PROVE  Layout!Serves(old, d)
<1> DEFINE a == Bound[old]
           b == Bound[r]
           m == Layout!Made(Part(a))
           n == Layout!Made(Part(b))
<1>1. a \in 0..27 /\ b \in 0..27 /\ a <= b
  BY BoundIs
<1>2. Layout!Mapped(old) = m.columns
  <2>1. CASE old = 3
    BY <2>1, HeadColumns, BoundIs DEF Layout!Mapped, Layout!Newest
  <2>2. CASE old # 3
    BY <2>2, SchemaAtIs DEF Layout!Mapped, Layout!Newest
  <2> QED  BY <2>1, <2>2
<1>3. d.columns = n.columns /\ d.must = n.must
  BY DEF Layout!SameSchema
<1> HIDE DEF a, b, m, n
<1>4. \A p : p \in m.columns <=>
         \E i \in 1..27 : /\ i <= a /\ Kind[i] \in {"create", "add"}
                          /\ p \in Layout!Columns(Where[i], All[i].must \cup All[i].may)
  BY <1>1, StateHas DEF m
<1>5. \A p : p \in n.columns <=>
         \E i \in 1..27 : /\ i <= b /\ Kind[i] \in {"create", "add"}
                          /\ p \in Layout!Columns(Where[i], All[i].must \cup All[i].may)
  BY <1>1, StateHas DEF n
<1>6. \A p : p \in n.must <=>
         \E i \in 1..27 : i <= b /\ Kind[i] = "create" /\ p \in Layout!Columns(Where[i], All[i].must)
  BY <1>1, StateHas DEF n
<1>7. m.columns \subseteq n.columns
  <2>1. \A i \in 1..27 : i <= a => i <= b  BY <1>1
  <2> QED  BY <1>4, <1>5, <2>1
<1>8. ASSUME NEW p \in n.must, NEW q \in m.columns, q[1] = p[1]
      PROVE  p \in m.columns
  <2>1. PICK i \in 1..27 : i <= b /\ Kind[i] = "create" /\ p \in Layout!Columns(Where[i], All[i].must)
    BY <1>6
  <2>2. PICK j \in 1..27 : /\ j <= a /\ Kind[j] \in {"create", "add"}
                           /\ q \in Layout!Columns(Where[j], All[j].must \cup All[j].may)
    BY <1>4
  <2>3. PICK c \in All[i].must : p = <<Where[i], c>>
    BY <2>1, ColumnsHave
  <2>4. Where[i] = Where[j]
    <3>1. PICK e \in All[j].must \cup All[j].may : q = <<Where[j], e>>
      BY <2>2, ColumnsHave
    <3> QED  BY <1>8, <2>3, <3>1
  <2>5. Birth[Where[i]] = i /\ Birth[Where[j]] <= j /\ Birth[Where[j]] \in 1..27
    BY <2>1, BirthOK
  <2>6. i <= a
    BY <1>1, <2>2, <2>4, <2>5
  <2>7. p \in Layout!Columns(Where[i], All[i].must \cup All[i].may)
    BY <2>3, ColumnsHave
  <2> QED  BY <1>4, <2>1, <2>6, <2>7
<1> QED  BY <1>2, <1>3, <1>7, <1>8 DEF Layout!Serves

(* The column of the service window, and a database that knows of none. *)
Window == <<"conversations", "last_inbound_at">>
Unknown(d) == Window \notin d.columns /\ d.lastInbound = 0

(* The statements there are. *)
IsStatement(s) ==
    /\ s.do \in {"create", "add", "unique", "index", "drop_table", "drop_column", "drop_index",
                "backfill"}
    /\ s.do = "unique" => s.key # {}
    /\ s.do = "backfill" => s.table = "conversations"

(* A statement of an upgrade. *)
Rises(s) == IsStatement(s) /\ s.do \in {"create", "add", "unique", "index", "backfill"}

(* A statement that leaves the window out. *)
Early(s) ==
    /\ IsStatement(s) /\ s.do # "backfill"
    /\ s.do \in {"create", "add"} => "last_inbound_at" \notin s.must \cup s.may

(* A statement that takes the window away. *)
Forgets(s) ==
    s.do = "drop_column" /\ s.table = "conversations" /\ s.column = "last_inbound_at"

(* What each script does to the window. *)
LEMMA ThirdDowngrade ==
    /\ \A i \in 1..Len(Layout!Down3) : /\ IsStatement(Layout!Down3[i])
                                       /\ Layout!Down3[i].do \in {"drop_index", "drop_column"}
    /\ 5 \in 1..Len(Layout!Down3) /\ Forgets(Layout!Down3[5])
<1>1. \A t, c : IsStatement(Layout!DropColumn(t, c)) /\ IsStatement(Layout!DropIndex(t, c))
  BY StatementForms DEF IsStatement
<1>2. Len(Layout!Down3) = 5
  BY DEF Layout!Down3
<1>3. \A i \in 1..5 : \E t, c : \/ Layout!Down3[i] = Layout!DropIndex(t, c)
                               \/ Layout!Down3[i] = Layout!DropColumn(t, c)
  BY DEF Layout!Down3
<1>4. Forgets(Layout!Down3[5])
  BY StatementForms DEF Layout!Down3, Forgets
<1> QED  BY <1>1, <1>2, <1>3, <1>4, StatementForms

LEMMA SecondDowngrade == \A i \in 1..Len(Layout!Down2) : Early(Layout!Down2[i])
<1>1. \A t, c : /\ Early(Layout!DropColumn(t, c)) /\ Early(Layout!DropIndex(t, c))
               /\ Early(Layout!DropTable(t))
  BY StatementForms DEF Early, IsStatement
<1>2. Len(Layout!Down2) = 5
  BY DEF Layout!Down2
<1>3. \A i \in 1..5 : Early(Layout!Down2[i])
  BY <1>1 DEF Layout!Down2
<1> QED  BY <1>2, <1>3

LEMMA FirstDowngrade == \A i \in 1..Len(Layout!Down1) : Early(Layout!Down1[i])
<1>1. \A t, c : Early(Layout!DropIndex(t, c)) /\ Early(Layout!DropTable(t))
  BY StatementForms DEF Early, IsStatement
<1>2. Len(Layout!Down1) = 9
  BY DEF Layout!Down1
<1>3. \A i \in 1..9 : Early(Layout!Down1[i])
  BY <1>1 DEF Layout!Down1
<1> QED  BY <1>2, <1>3

LEMMA ThirdUpgrade ==
    /\ \A i \in 1..Len(Layout!Up3) : Rises(Layout!Up3[i])
    /\ 3 \in 1..Len(Layout!Up3) /\ Layout!Up3[3].do = "backfill"
<1>1. /\ \A t, c : Rises(Layout!Column(t, c)) /\ Rises(Layout!Index(t, c))
      /\ Rises(Layout!Backfill)
  BY StatementForms DEF Rises, IsStatement
<1>2. Len(Layout!Up3) = 6
  BY DEF Layout!Up3
<1>3. \A i \in 1..6 : Rises(Layout!Up3[i])
  BY <1>1 DEF Layout!Up3
<1>4. Layout!Up3[3].do = "backfill"
  BY StatementForms DEF Layout!Up3
<1> QED  BY <1>2, <1>3, <1>4

LEMMA SecondUpgrade == \A i \in 1..Len(Layout!Up2) : Rises(Layout!Up2[i]) /\ Early(Layout!Up2[i])
<1>1. /\ \A t, c : Rises(Layout!Column(t, c)) /\ Rises(Layout!Index(t, c)) /\ Early(Layout!Index(t, c))
      /\ \A t, c : c # "last_inbound_at" => Early(Layout!Column(t, c))
      /\ \A t, must, may, refs :
            /\ Rises(Layout!Table(t, must, may, refs))
            /\ "last_inbound_at" \notin must \cup may => Early(Layout!Table(t, must, may, refs))
  BY StatementForms DEF Rises, Early, IsStatement
<1>2. Len(Layout!Up2) = 5
  BY DEF Layout!Up2
<1>3. \A i \in 1..5 : Rises(Layout!Up2[i]) /\ Early(Layout!Up2[i])
  BY <1>1 DEF Layout!Up2
<1> QED  BY <1>2, <1>3

LEMMA FirstUpgrade == \A i \in 1..Len(Layout!Up1) : Rises(Layout!Up1[i]) /\ Early(Layout!Up1[i])
<1>1. /\ \A t, c : Rises(Layout!Index(t, c)) /\ Early(Layout!Index(t, c))
      /\ \A t, key : key # {} => Rises(Layout!Unique(t, key)) /\ Early(Layout!Unique(t, key))
      /\ \A t, must, may, refs :
            /\ Rises(Layout!Table(t, must, may, refs))
            /\ "last_inbound_at" \notin must \cup may => Early(Layout!Table(t, must, may, refs))
  BY StatementForms DEF Rises, Early, IsStatement
<1>2. Len(Layout!Up1) = 16
  BY DEF Layout!Up1
<1>3. \A i \in 1..16 : Rises(Layout!Up1[i]) /\ Early(Layout!Up1[i])
  BY <1>1 DEF Layout!Up1
<1> QED  BY <1>2, <1>3

(* A statement keeps a database a consistent one. *)
LEMMA StatementsKeepConsistency ==
    ASSUME NEW d, IsRecord(d), Layout!Consistent(d), NEW s, IsStatement(s), Layout!Applies(s, d),
           s.do = "drop_table" => d.lastInbound = 0
    PROVE  IsRecord(Layout!Applied(d, s)) /\ Layout!Consistent(Layout!Applied(d, s))
<1> DEFINE e == Layout!Applied(d, s)
<1>0. MaxMessages \in Nat
  BY PartsAssumption DEF Layout!SchemaAssumption
<1> USE <1>0 DEF Layout!Consistent, Layout!Applies, IsRecord, Layout!Columns,
              Layout!OfTable, Layout!Newest
<1>1. CASE s.do = "create"
  BY <1>1 DEF Layout!Applied, IsStatement
<1>2. CASE s.do = "add"
  <2>1. e = [d EXCEPT !.columns = @ \cup Layout!Columns(s.table, s.must \cup s.may),
                      !.must = @ \cup Layout!Columns(s.table, s.must)]
    BY <1>2 DEF Layout!Applied
  <2>2. /\ e.columns = d.columns \cup Layout!Columns(s.table, s.must \cup s.may)
        /\ e.must = d.must \cup Layout!Columns(s.table, s.must)
        /\ e.tables = d.tables /\ e.refs = d.refs /\ e.unique = d.unique
        /\ e.revision = d.revision /\ e.lastMessage = d.lastMessage
        /\ e.lastInbound = d.lastInbound
    BY <2>1
  <2>3. IsRecord(e)  BY <2>1
  <2>4. s.table \in d.tables  BY <1>2
  <2> HIDE DEF e
  <2>5. e.must \subseteq e.columns
    BY <2>2
  <2>6. \A p \in e.columns : p[1] \in e.tables
    BY <2>2, <2>4
  <2> QED  BY <2>2, <2>3, <2>5, <2>6 DEF e
<1>3. CASE s.do = "unique"
  <2>1. s.table \in d.tables
    <3>1. PICK k : k \in s.key  BY <1>3 DEF IsStatement
    <3>2. <<s.table, k>> \in d.columns  BY <1>3, <3>1
    <3> QED  BY <3>2
  <2>2. e = [d EXCEPT !.unique = @ \cup {<<s.table, s.key>>}]
    BY <1>3 DEF Layout!Applied
  <2>3. /\ e.unique = d.unique \cup {<<s.table, s.key>>} /\ e.tables = d.tables
        /\ e.columns = d.columns /\ e.must = d.must /\ e.refs = d.refs
        /\ e.revision = d.revision /\ e.lastMessage = d.lastMessage
        /\ e.lastInbound = d.lastInbound
    BY <2>2
  <2>4. IsRecord(e)  BY <2>2
  <2> HIDE DEF e
  <2> QED  BY <2>1, <2>3, <2>4 DEF e
<1>4. CASE s.do = "index"
  BY <1>4 DEF Layout!Applied, IsStatement
<1>5. CASE s.do = "drop_table"
  <2>1. e = [d EXCEPT !.tables = @ \ {s.table},
                      !.columns = @ \ Layout!OfTable(@, s.table),
                      !.must = @ \ Layout!OfTable(@, s.table),
                      !.refs = @ \ Layout!OfTable(@, s.table),
                      !.unique = @ \ Layout!OfTable(@, s.table),
                      !.indexes = @ \ Layout!OfTable(@, s.table),
                      !.lastMessage = IF s.table = "messages" THEN 0 ELSE @]
    BY <1>5 DEF Layout!Applied
  <2>2. /\ e.tables = d.tables \ {s.table}
        /\ e.columns = {p \in d.columns : p[1] # s.table}
        /\ e.must = {p \in d.must : p[1] # s.table}
        /\ e.refs = {p \in d.refs : p[1] # s.table}
        /\ e.unique = {p \in d.unique : p[1] # s.table}
    BY <2>1
  <2>3. /\ e.revision = d.revision /\ e.lastInbound = d.lastInbound
        /\ e.lastMessage = IF s.table = "messages" THEN 0 ELSE d.lastMessage
    BY <2>1
  <2>4. IsRecord(e)  BY <2>1
  <2> HIDE DEF e
  <2>5. e.lastMessage \in 0..MaxMessages /\ e.lastInbound \in 0..e.lastMessage
    BY <1>5, <2>3
  <2>6. e.must \subseteq e.columns
    BY <2>2
  <2>7. \A p \in e.columns \cup e.refs \cup e.unique : p[1] \in e.tables
    BY <2>2
  <2>8. e.revision \in 0..3  BY <2>3
  <2> QED  BY <2>4, <2>5, <2>6, <2>7, <2>8 DEF e
<1>6. CASE s.do = "drop_column"
  <2>1. e = [d EXCEPT !.columns = @ \ {<<s.table, s.column>>},
                      !.must = @ \ {<<s.table, s.column>>},
                      !.lastInbound = IF s.column = "last_inbound_at" THEN 0 ELSE @]
    BY <1>6 DEF Layout!Applied
  <2>2. /\ e.columns = d.columns \ {<<s.table, s.column>>}
        /\ e.must = d.must \ {<<s.table, s.column>>}
        /\ e.tables = d.tables /\ e.refs = d.refs /\ e.unique = d.unique
        /\ e.revision = d.revision /\ e.lastMessage = d.lastMessage
        /\ e.lastInbound = IF s.column = "last_inbound_at" THEN 0 ELSE d.lastInbound
    BY <2>1
  <2>3. IsRecord(e)  BY <2>1
  <2> HIDE DEF e
  <2>4. e.lastMessage \in 0..MaxMessages /\ e.lastInbound \in 0..e.lastMessage
    BY <2>2
  <2>5. e.must \subseteq e.columns
    BY <2>2
  <2>6. \A p \in e.columns \cup e.refs \cup e.unique : p[1] \in e.tables
    BY <2>2
  <2>7. e.revision \in 0..3  BY <2>2
  <2> QED  BY <2>3, <2>4, <2>5, <2>6, <2>7 DEF e
<1>7. CASE s.do = "drop_index"
  BY <1>7 DEF Layout!Applied, IsStatement
<1>8. CASE s.do = "backfill"
  BY <1>8 DEF Layout!Applied, IsStatement
<1> QED  BY <1>1, <1>2, <1>3, <1>4, <1>5, <1>6, <1>7, <1>8 DEF IsStatement

-----------------------------------------------------------------------------
(* The statements of the upgrades, and of the downgrades. *)
Rising == Elements(Layout!Up1) \cup Elements(Layout!Up2) \cup Elements(Layout!Up3)
Falling == Elements(Layout!Down1) \cup Elements(Layout!Down2) \cup Elements(Layout!Down3)
Statements == Rising \cup Falling

(* All of them are statements. *)
LEMMA TheyAreStatements == \A s \in Statements : IsStatement(s)
BY FirstUpgrade, SecondUpgrade, ThirdUpgrade, FirstDowngrade, SecondDowngrade, ThirdDowngrade
DEF Statements, Rising, Falling, Elements, Rises, Early

(* The scripts are sequences of them. *)
LEMMA Scripts ==
    /\ Layout!Up1 \in Seq(Statements) /\ Layout!Up2 \in Seq(Statements)
    /\ Layout!Up3 \in Seq(Statements) /\ Layout!Down1 \in Seq(Statements)
    /\ Layout!Down2 \in Seq(Statements) /\ Layout!Down3 \in Seq(Statements)
<1>1. Layout!Up1 \in Seq(Elements(Layout!Up1))
  BY DEF Layout!Up1, Elements
<1>2. Layout!Up2 \in Seq(Elements(Layout!Up2))
  BY DEF Layout!Up2, Elements
<1>3. Layout!Up3 \in Seq(Elements(Layout!Up3))
  BY DEF Layout!Up3, Elements
<1>4. Layout!Down1 \in Seq(Elements(Layout!Down1))
  BY DEF Layout!Down1, Elements
<1>5. Layout!Down2 \in Seq(Elements(Layout!Down2))
  BY DEF Layout!Down2, Elements
<1>6. Layout!Down3 \in Seq(Elements(Layout!Down3))
  BY DEF Layout!Down3, Elements
<1>7. \A T, s : s \in Seq(T) /\ T \subseteq Statements => s \in Seq(Statements)
  OBVIOUS
<1> QED  BY <1>1, <1>2, <1>3, <1>4, <1>5, <1>6, <1>7 DEF Statements, Rising, Falling

(* The members of a concatenation. *)
LEMMA ConcatElements ==
    ASSUME NEW T, NEW a \in Seq(T), NEW b \in Seq(T)
    PROVE  a \o b \in Seq(T) /\ Elements(a \o b) = Elements(a) \cup Elements(b)
<1>1. /\ a \o b \in Seq(T) /\ Len(a \o b) = Len(a) + Len(b)
      /\ \A j \in 1..Len(a) + Len(b) :
            (a \o b)[j] = IF j <= Len(a) THEN a[j] ELSE b[j - Len(a)]
  OBVIOUS
<1>2. Len(a) \in Nat /\ Len(b) \in Nat
  OBVIOUS
<1>3. \A x \in Elements(a \o b) : x \in Elements(a) \cup Elements(b)
  <2> SUFFICES ASSUME NEW j \in 1..Len(a) + Len(b)
               PROVE  \/ \E i \in 1..Len(a) : (a \o b)[j] = a[i]
                      \/ \E i \in 1..Len(b) : (a \o b)[j] = b[i]
    BY <1>1 DEF Elements
  <2>1. j <= Len(a) => j \in 1..Len(a)  BY <1>2
  <2>2. ~(j <= Len(a)) => j - Len(a) \in 1..Len(b)  BY <1>2
  <2> QED  BY <1>1, <2>1, <2>2
<1>4. \A i \in 1..Len(a) : i \in 1..Len(a) + Len(b) /\ (a \o b)[i] = a[i]
  BY <1>1, <1>2
<1>5. \A i \in 1..Len(b) : Len(a) + i \in 1..Len(a) + Len(b) /\ (a \o b)[Len(a) + i] = b[i]
  <2> SUFFICES ASSUME NEW i \in 1..Len(b)
               PROVE  Len(a) + i \in 1..Len(a) + Len(b) /\ (a \o b)[Len(a) + i] = b[i]
    OBVIOUS
  <2>1. /\ Len(a) + i \in 1..Len(a) + Len(b) /\ ~(Len(a) + i <= Len(a))
        /\ (Len(a) + i) - Len(a) = i
    BY <1>2
  <2> QED  BY <1>1, <2>1
<1>6. Elements(a) \subseteq Elements(a \o b) /\ Elements(b) \subseteq Elements(a \o b)
  <2>1. \A k \in 1..Len(a) + Len(b) : (a \o b)[k] \in Elements(a \o b)
    BY <1>1 DEF Elements
  <2>2. \A i \in 1..Len(a) : a[i] \in Elements(a \o b)
    BY <1>4, <2>1
  <2>3. \A i \in 1..Len(b) : b[i] \in Elements(a \o b)
    BY <1>5, <2>1
  <2> QED  BY <2>2, <2>3 DEF Elements
<1> QED  BY <1>1, <1>3, <1>6

(* An upgrade, and what it does to the window. *)
LEMMA UpgradesShape ==
    ASSUME NEW from \in 0..3, NEW to \in from + 1 .. 3
    PROVE  LET list == Layout!Upgrades(from, to) IN
           /\ list \in Seq(Statements) /\ \A s \in Elements(list) : Rises(s)
           /\ to = 3 => \E s \in Elements(list) : s.do = "backfill"
           /\ to # 3 => \A s \in Elements(list) : Early(s)
<1> DEFINE B(r) == Layout!Between(r, from, to)
<1>0. <<>> \in Seq(Statements) /\ Elements(<<>>) = {}
  BY DEF Elements
<1>1. /\ B(1) \in Seq(Statements) /\ \A s \in Elements(B(1)) : Rises(s) /\ Early(s)
  <2>1. B(1) \in {Layout!Up1, <<>>}  BY DEF Layout!Between, Layout!Up
  <2> QED  BY <1>0, <2>1, FirstUpgrade, Scripts DEF Elements
<1>2. /\ B(2) \in Seq(Statements) /\ \A s \in Elements(B(2)) : Rises(s) /\ Early(s)
  <2>1. B(2) \in {Layout!Up2, <<>>}  BY DEF Layout!Between, Layout!Up
  <2> QED  BY <1>0, <2>1, SecondUpgrade, Scripts DEF Elements
<1>3. /\ B(3) \in Seq(Statements) /\ \A s \in Elements(B(3)) : Rises(s)
      /\ to = 3 => \E s \in Elements(B(3)) : s.do = "backfill"
      /\ to # 3 => B(3) = <<>>
  <2>1. B(3) = IF to = 3 THEN Layout!Up3 ELSE <<>>  BY DEF Layout!Between, Layout!Up
  <2> QED  BY <1>0, <2>1, ThirdUpgrade, Scripts DEF Elements
<1>4. Layout!Upgrades(from, to) = B(1) \o B(2) \o B(3)
  BY DEF Layout!Upgrades
<1> HIDE DEF B
<1>5. /\ Layout!Upgrades(from, to) \in Seq(Statements)
      /\ Elements(Layout!Upgrades(from, to)) = Elements(B(1)) \cup Elements(B(2)) \cup Elements(B(3))
  <2> DEFINE c == B(1) \o B(2)
  <2>1. c \in Seq(Statements) /\ Elements(c) = Elements(B(1)) \cup Elements(B(2))
    BY <1>1, <1>2, ConcatElements
  <2>2. Layout!Upgrades(from, to) = c \o B(3)
    BY <1>4
  <2> HIDE DEF c
  <2>3. c \o B(3) \in Seq(Statements) /\ Elements(c \o B(3)) = Elements(c) \cup Elements(B(3))
    BY <1>3, <2>1, ConcatElements
  <2> QED  BY <2>1, <2>2, <2>3
<1> QED  BY <1>0, <1>1, <1>2, <1>3, <1>5

(* A downgrade, and what it does to the window. *)
LEMMA DowngradeShape ==
    ASSUME NEW from \in 1..3
    PROVE  LET list == Layout!Down[from] IN
           /\ list \in Seq(Statements)
           /\ from # 3 => \A s \in Elements(list) : Early(s)
           /\ from = 3 => /\ \A s \in Elements(list) : s.do \in {"drop_index", "drop_column"}
                          /\ \E s \in Elements(list) : Forgets(s)
<1>1. Layout!Down[1] = Layout!Down1 /\ Layout!Down[2] = Layout!Down2 /\ Layout!Down[3] = Layout!Down3
  BY DEF Layout!Down
<1>2. CASE from = 1
  BY <1>1, <1>2, FirstDowngrade, Scripts DEF Elements
<1>3. CASE from = 2
  BY <1>1, <1>3, SecondDowngrade, Scripts DEF Elements
<1>4. CASE from = 3
  BY <1>1, <1>4, ThirdDowngrade, Scripts DEF Elements
<1> QED  BY <1>2, <1>3, <1>4

-----------------------------------------------------------------------------
(* While a database is not at the newest revision it has no window, and an *)
(* upgrade to that brings one and fills it; what the downgrade from it has *)
(* still to do, or has done, takes the window away.                        *)
Windows ==
    /\ db.revision # 3 => Unknown(db)
    /\ db.revision # 3 /\ target = 3 =>
          /\ \A s \in Elements(statements) : Rises(s)
          /\ \/ \E s \in Elements(statements) : s.do = "backfill"
             \/ work.lastInbound = work.lastMessage
    /\ db.revision # 3 /\ target # 3 =>
          /\ \A s \in Elements(statements) : Early(s)
          /\ Unknown(work)
    /\ db.revision = 3 /\ target # 3 =>
          /\ \A s \in Elements(statements) : s.do \in {"drop_index", "drop_column"}
          /\ (\E s \in Elements(statements) : Forgets(s)) \/ Unknown(work)

(* The types, and the window in every database and transaction. *)
LayoutInv ==
    /\ Layout!TypeOK /\ IsRecord(db) /\ IsRecord(work)
    /\ statements \in Seq(Statements)
    /\ target = db.revision => statements = <<>>
    /\ Windows
    /\ WindowIsKnown

(* An empty script. *)
LEMMA NoElements == <<>> \in Seq(Statements) /\ Elements(<<>>) = {}
BY DEF Elements

(* It holds at first. *)
LEMMA LayoutStarts == Layout!Init => LayoutInv
<1>0. MaxMessages \in Nat
  BY PartsAssumption DEF Layout!SchemaAssumption
<1> SUFFICES ASSUME Layout!Init
             PROVE  LayoutInv
  OBVIOUS
<1>1. Layout!Consistent(Layout!Empty) /\ IsRecord(Layout!Empty) /\ Unknown(Layout!Empty)
  BY <1>0 DEF Layout!Empty, Layout!Consistent, IsRecord, Unknown, Layout!Newest
<1>2. Layout!Empty.revision = 0
  BY DEF Layout!Empty
<1>3. Layout!TypeOK
  <2>1. missed \in BOOLEAN  BY DEF Layout!Init
  <2>2. runs \in [Fleet -> 1..3] /\ target \in 0..3  BY DEF Layout!Init, Layout!Newest
  <2>3. Layout!Consistent(db) /\ Layout!Consistent(work)  BY <1>1 DEF Layout!Init
  <2> QED  BY <2>1, <2>2, <2>3 DEF Layout!TypeOK, Layout!Newest
<1>4. Windows
  BY <1>1, <1>2, NoElements DEF Layout!Init, Windows
<1>5. WindowIsKnown
  BY <1>2 DEF Layout!Init, WindowIsKnown, Layout!WindowIsKnown, Layout!Newest
<1> QED  BY <1>1, <1>3, <1>4, <1>5, NoElements DEF Layout!Init, LayoutInv

(* One lemma per action. *)
LEMMA StartUpgradeOK ==
    ASSUME LayoutInv, NEW r \in 1..3, Layout!StartUpgrade(r)
    PROVE  LayoutInv'
<1>1. /\ r \in db.revision + 1 .. 3 /\ target' = r /\ db.revision \in 0..3
      /\ statements' = Layout!Upgrades(db.revision, r)
      /\ work' = db /\ UNCHANGED <<db, runs, missed>>
  BY DEF Layout!StartUpgrade, LayoutInv, Layout!TypeOK, Layout!Consistent, Layout!Newest
<1>2. /\ statements' \in Seq(Statements) /\ \A s \in Elements(statements') : Rises(s)
      /\ r = 3 => \E s \in Elements(statements') : s.do = "backfill"
      /\ r # 3 => \A s \in Elements(statements') : Early(s)
  BY <1>1, UpgradesShape
<1>3. db.revision # 3 /\ r # db.revision
  BY <1>1
<1>4. Layout!TypeOK'
  BY <1>1 DEF LayoutInv, Layout!TypeOK, Layout!Consistent, Layout!Newest
<1>5. Windows'
  BY <1>1, <1>2, <1>3 DEF LayoutInv, Windows, Unknown
<1>6. WindowIsKnown'
  BY <1>1 DEF LayoutInv, WindowIsKnown, Layout!WindowIsKnown
<1> QED  BY <1>1, <1>2, <1>3, <1>4, <1>5, <1>6 DEF LayoutInv, IsRecord

LEMMA StartDowngradeOK ==
    ASSUME LayoutInv, Layout!StartDowngrade
    PROVE  LayoutInv'
<1>1. /\ db.revision \in 1..3 /\ target' = db.revision - 1
      /\ statements' = Layout!Down[db.revision]
      /\ work' = db /\ UNCHANGED <<db, runs, missed>>
  BY DEF Layout!StartDowngrade, LayoutInv, Layout!TypeOK, Layout!Consistent, Layout!Newest
<1>2. /\ statements' \in Seq(Statements)
      /\ db.revision # 3 => \A s \in Elements(statements') : Early(s)
      /\ db.revision = 3 =>
            /\ \A s \in Elements(statements') : s.do \in {"drop_index", "drop_column"}
            /\ \E s \in Elements(statements') : Forgets(s)
  BY <1>1, DowngradeShape
<1>3. target' # 3 /\ target' # db.revision /\ target' \in 0..3
  BY <1>1
<1>4. Layout!TypeOK'
  BY <1>1, <1>3 DEF LayoutInv, Layout!TypeOK, Layout!Consistent, Layout!Newest
<1>5. Windows'
  BY <1>1, <1>2, <1>3 DEF LayoutInv, Windows, Unknown
<1>6. WindowIsKnown'
  BY <1>1 DEF LayoutInv, WindowIsKnown, Layout!WindowIsKnown
<1> QED  BY <1>1, <1>2, <1>3, <1>4, <1>5, <1>6 DEF LayoutInv, IsRecord

(* What a statement does to the window. *)
LEMMA StatementAndWindow ==
    ASSUME NEW d, IsRecord(d), Layout!Consistent(d), NEW s, IsStatement(s), Layout!Applies(s, d)
    PROVE  LET e == Layout!Applied(d, s) IN
           /\ s.do = "backfill" => e.lastInbound = e.lastMessage
           /\ s.do \notin {"drop_table", "drop_column", "backfill"} =>
                 e.lastInbound = d.lastInbound /\ e.lastMessage = d.lastMessage
           /\ Early(s) /\ Unknown(d) => Unknown(e)
           /\ Forgets(s) => Unknown(e)
           /\ s.do \in {"drop_index", "drop_column"} /\ Unknown(d) => Unknown(e)
<1> USE DEF Unknown, Window, Layout!Columns, Layout!OfTable
<1>1. CASE s.do = "create"
  BY <1>1 DEF Layout!Applied, IsRecord, Early, Forgets
<1>2. CASE s.do = "add"
  BY <1>2 DEF Layout!Applied, IsRecord, Early, Forgets
<1>3. CASE s.do = "unique"
  BY <1>3 DEF Layout!Applied, IsRecord, Early, Forgets
<1>4. CASE s.do = "index"
  BY <1>4 DEF Layout!Applied, IsRecord, Early, Forgets
<1>5. CASE s.do = "drop_table"
  BY <1>5 DEF Layout!Applied, IsRecord, Early, Forgets
<1>6. CASE s.do = "drop_column"
  BY <1>6 DEF Layout!Applied, IsRecord, Early, Forgets
<1>7. CASE s.do = "drop_index"
  BY <1>7 DEF Layout!Applied, IsRecord, Early, Forgets
<1>8. CASE s.do = "backfill"
  BY <1>8 DEF Layout!Applied, IsRecord, Early, Forgets
<1> QED  BY <1>1, <1>2, <1>3, <1>4, <1>5, <1>6, <1>7, <1>8 DEF IsStatement

(* The members of the rest of a script. *)
LEMMA TailElements ==
    ASSUME NEW T, NEW s \in Seq(T), s # <<>>
    PROVE  /\ Tail(s) \in Seq(T) /\ Head(s) \in T
           /\ Elements(s) = {Head(s)} \cup Elements(Tail(s))
<1>1. /\ Tail(s) \in Seq(T) /\ Len(Tail(s)) = Len(s) - 1
      /\ \A j \in 1..Len(s) - 1 : Tail(s)[j] = s[j + 1]
      /\ Head(s) \in T /\ Head(s) = s[1] /\ Len(s) \in Nat \ {0}
  OBVIOUS
<1>2. \A i \in 1..Len(s) : i = 1 \/ (i - 1 \in 1..Len(s) - 1 /\ (i - 1) + 1 = i)
  BY <1>1
<1>3. \A j \in 1..Len(s) - 1 : j + 1 \in 1..Len(s)
  BY <1>1
<1>4. \A x \in Elements(s) : x = Head(s) \/ x \in Elements(Tail(s))
  <2> SUFFICES ASSUME NEW i \in 1..Len(s)
               PROVE  s[i] = Head(s) \/ \E j \in 1..Len(s) - 1 : s[i] = Tail(s)[j]
    BY <1>1 DEF Elements
  <2> QED  BY <1>1, <1>2
<1>5. \A x \in Elements(Tail(s)) : x \in Elements(s)
  BY <1>1, <1>3 DEF Elements
<1>6. Head(s) \in Elements(s)
  BY <1>1 DEF Elements
<1> QED  BY <1>1, <1>4, <1>5, <1>6

LEMMA ExecuteOK ==
    ASSUME LayoutInv, Layout!Execute
    PROVE  LayoutInv'
<1> DEFINE s == Head(statements)
<1>1. /\ statements # <<>> /\ Layout!Applies(s, work)
      /\ work' = Layout!Applied(work, s) /\ statements' = Tail(statements)
      /\ UNCHANGED <<db, target, runs, missed>>
  BY DEF Layout!Execute
<1>2. /\ statements' \in Seq(Statements) /\ s \in Statements
      /\ Elements(statements) = {s} \cup Elements(statements')
  BY <1>1, TailElements DEF LayoutInv
<1> HIDE DEF s
<1>3. IsStatement(s)
  BY <1>2, TheyAreStatements
<1>4. IsRecord(work) /\ Layout!Consistent(work) /\ target # db.revision
  BY <1>1 DEF LayoutInv, Layout!TypeOK
<1>5. s.do = "drop_table" => work.lastInbound = 0
  BY <1>2, <1>4 DEF LayoutInv, Windows, Rises, Unknown
<1>6. IsRecord(work') /\ Layout!Consistent(work')
  BY <1>1, <1>3, <1>4, <1>5, StatementsKeepConsistency
<1>7. /\ s.do = "backfill" => work'.lastInbound = work'.lastMessage
      /\ s.do \notin {"drop_table", "drop_column", "backfill"} =>
            work'.lastInbound = work.lastInbound /\ work'.lastMessage = work.lastMessage
      /\ Early(s) /\ Unknown(work) => Unknown(work')
      /\ Forgets(s) => Unknown(work')
      /\ s.do \in {"drop_index", "drop_column"} /\ Unknown(work) => Unknown(work')
  BY <1>1, <1>3, <1>4, StatementAndWindow
<1>8. Layout!TypeOK'
  BY <1>1, <1>6 DEF LayoutInv, Layout!TypeOK, Layout!Consistent
<1>9. Windows'
  <2>1. CASE db.revision # 3 /\ target = 3
    BY <1>1, <1>2, <1>7, <2>1 DEF LayoutInv, Windows, Rises, Unknown
  <2>2. CASE db.revision # 3 /\ target # 3
    BY <1>1, <1>2, <1>7, <2>2 DEF LayoutInv, Windows, Unknown
  <2>3. CASE db.revision = 3
    BY <1>1, <1>2, <1>7, <2>3 DEF LayoutInv, Windows, Unknown
  <2> QED  BY <2>1, <2>2, <2>3
<1>10. WindowIsKnown'
  BY <1>1 DEF LayoutInv, WindowIsKnown, Layout!WindowIsKnown
<1> QED  BY <1>1, <1>2, <1>4, <1>6, <1>8, <1>9, <1>10 DEF LayoutInv, IsRecord

LEMMA CommitOK ==
    ASSUME LayoutInv, Layout!Commit
    PROVE  LayoutInv'
<1>1. /\ statements = <<>> /\ target # db.revision /\ target \in 0..3
      /\ work' = [work EXCEPT !.revision = target] /\ db' = work' /\ missed' = FALSE
      /\ UNCHANGED <<statements, target, runs>>
  BY DEF Layout!Commit, LayoutInv, Layout!TypeOK, Layout!Newest
<1>2. IsRecord(work) /\ Layout!Consistent(work)
  BY DEF LayoutInv, Layout!TypeOK
<1>3. /\ IsRecord(work') /\ work'.revision = target
      /\ work'.tables = work.tables /\ work'.columns = work.columns /\ work'.must = work.must
      /\ work'.refs = work.refs /\ work'.unique = work.unique
      /\ work'.lastMessage = work.lastMessage /\ work'.lastInbound = work.lastInbound
  BY <1>1, <1>2 DEF IsRecord
<1>4. Layout!Consistent(work')
  BY <1>1, <1>2, <1>3 DEF Layout!Consistent, Layout!Newest
<1>5. Layout!TypeOK'
  BY <1>1, <1>4 DEF LayoutInv, Layout!TypeOK, Layout!Consistent, Layout!Newest
<1>6. /\ target = 3 => work.lastInbound = work.lastMessage
      /\ target # 3 => Unknown(work)
  BY <1>1, NoElements DEF LayoutInv, Windows
<1>7. Windows'
  BY <1>1, <1>3, <1>6, NoElements DEF Windows, Unknown
<1>8. WindowIsKnown'
  BY <1>1, <1>3, <1>6 DEF WindowIsKnown, Layout!WindowIsKnown, Layout!Newest
<1> QED  BY <1>1, <1>3, <1>5, <1>7, <1>8, NoElements DEF LayoutInv, IsRecord

LEMMA RollBackOK ==
    ASSUME LayoutInv, Layout!RollBack
    PROVE  LayoutInv'
<1>1. /\ work' = db /\ statements' = <<>> /\ target' = db.revision
      /\ UNCHANGED <<db, runs, missed>>
  BY DEF Layout!RollBack
<1>2. Layout!TypeOK'
  BY <1>1 DEF LayoutInv, Layout!TypeOK, Layout!Consistent
<1>3. Windows'
  BY <1>1, NoElements DEF LayoutInv, Windows, Unknown
<1>4. WindowIsKnown'
  BY <1>1 DEF LayoutInv, WindowIsKnown, Layout!WindowIsKnown
<1> QED  BY <1>1, <1>2, <1>3, <1>4, NoElements DEF LayoutInv, IsRecord

(* The models know the window. *)
LEMMA WindowIsMapped == Window \in Layout!ModelColumns
<1>1. "conversations" \in DOMAIN Layout!Models
  BY DEF Layout!Models
<1>2. "last_inbound_at" \in Layout!Models["conversations"]
  BY DEF Layout!Models
<1> QED  BY <1>1, <1>2 DEF Layout!ModelColumns, Layout!Columns, Window

LEMMA ReceiveOK ==
    ASSUME LayoutInv, NEW s \in Fleet, Layout!Receive(s)
    PROVE  LayoutInv'
<1>0. MaxMessages \in Nat
  BY PartsAssumption DEF Layout!SchemaAssumption
<1>1. /\ statements = <<>> /\ target = db.revision /\ db.lastMessage < MaxMessages
      /\ Layout!Serves(runs[s], db)
      /\ db' = [db EXCEPT !.lastMessage = @ + 1,
                          !.lastInbound = IF runs[s] = 3 THEN db.lastMessage + 1 ELSE @]
      /\ work' = db' /\ missed' = (db.revision = 3 /\ runs[s] # 3)
      /\ UNCHANGED <<statements, target, runs>>
  BY DEF Layout!Receive, Layout!Idle, Layout!Newest
<1>2. IsRecord(db) /\ Layout!Consistent(db)
  BY DEF LayoutInv, Layout!TypeOK
<1>3. /\ IsRecord(db') /\ db'.revision = db.revision
      /\ db'.tables = db.tables /\ db'.columns = db.columns /\ db'.must = db.must
      /\ db'.refs = db.refs /\ db'.unique = db.unique
      /\ db'.lastMessage = db.lastMessage + 1
      /\ db'.lastInbound = IF runs[s] = 3 THEN db.lastMessage + 1 ELSE db.lastInbound
  BY <1>1, <1>2 DEF IsRecord
<1>4. Layout!Consistent(db')
  <2>1. db.lastMessage \in 0..MaxMessages /\ db.lastInbound \in 0..db.lastMessage
    BY <1>2 DEF Layout!Consistent
  <2>2. db'.lastMessage \in 0..MaxMessages /\ db'.lastInbound \in 0..db'.lastMessage
    BY <1>0, <1>1, <1>3, <2>1
  <2> QED  BY <1>2, <1>3, <2>2 DEF Layout!Consistent
<1>5. Layout!TypeOK'
  BY <1>1, <1>4 DEF LayoutInv, Layout!TypeOK
<1>6. db.revision # 3 => runs[s] # 3
  <2> SUFFICES ASSUME db.revision # 3, runs[s] = 3
               PROVE  FALSE
    OBVIOUS
  <2>1. Layout!ModelColumns \subseteq db.columns
    BY <1>1 DEF Layout!Serves, Layout!Mapped, Layout!Newest
  <2> QED  BY <2>1, WindowIsMapped DEF LayoutInv, Windows, Unknown
<1>7. Windows'
  BY <1>1, <1>3, <1>6, NoElements DEF LayoutInv, Windows, Unknown
<1>8. WindowIsKnown'
  BY <1>1, <1>3 DEF LayoutInv, WindowIsKnown, Layout!WindowIsKnown, Layout!Newest
<1> QED  BY <1>1, <1>3, <1>5, <1>7, <1>8, NoElements DEF LayoutInv, IsRecord

LEMMA OtherReleasesOK ==
    ASSUME LayoutInv,
           \/ \E s \in Fleet : \E r \in 1..3 : Layout!Restart(s, r)
           \/ UNCHANGED schemaVars
    PROVE  LayoutInv'
<1>1. /\ runs' \in [Fleet -> 1..3]
      /\ UNCHANGED <<db, work, statements, target, missed>>
  BY DEF Layout!Restart, schemaVars, LayoutInv, Layout!TypeOK, Layout!Newest
<1>2. Layout!TypeOK'
  BY <1>1 DEF LayoutInv, Layout!TypeOK, Layout!Consistent, Layout!Newest
<1> QED  BY <1>1, <1>2
         DEF LayoutInv, Windows, Unknown, IsRecord, WindowIsKnown, Layout!WindowIsKnown

(* All steps together. *)
LEMMA LayoutStep ==
    ASSUME LayoutInv, [Layout!Next]_schemaVars
    PROVE  LayoutInv'
BY StartUpgradeOK, StartDowngradeOK, ExecuteOK, CommitOK, RollBackOK, ReceiveOK,
   OtherReleasesOK
DEF Layout!Next, Layout!Newest
-----------------------------------------------------------------------------
(* The revision tells the schema. While an upgrade is under way, its       *)
(* transaction has what the statements so far have made, and those to come *)
(* are the next ones; while a downgrade is, what they have left of its     *)
(* revision.                                                               *)
UpgradeGoes ==
    \E n \in 0..27 :
        /\ n + Len(statements) = Bound[target]
        /\ \A i \in 1..Len(statements) : statements[i] = All[n + i]
        /\ Layout!SameSchema(work, Layout!Made(Part(n)))

DowngradeGoes ==
    LET script == Layout!Down[db.revision] IN
    /\ target = db.revision - 1
    /\ \E k \in 0..Len(script) :
          /\ k + Len(statements) = Len(script)
          /\ \A i \in 1..Len(statements) : statements[i] = script[k + i]
          /\ Layout!SameSchema(work, Fallen(Layout!Made(Part(Bound[db.revision])), First(script, k)))

SchemaInv ==
    /\ Layout!SameSchema(db, Layout!Made(Part(Bound[db.revision])))
    /\ target > db.revision => UpgradeGoes
    /\ target < db.revision => DowngradeGoes

(* Nothing has fallen of a schema yet. *)
LEMMA NothingFalls == \A m : Layout!SameSchema(m, Fallen(m, {}))
BY DEF Layout!SameSchema, Fallen, Gone, LostColumns, LostIndexes

(* An empty database has what no statement leaves behind. *)
LEMMA SchemaStarts == Layout!Init => SchemaInv
<1> SUFFICES ASSUME Layout!Init
             PROVE  SchemaInv
  OBVIOUS
<1>1. db = Layout!Empty /\ target = 0 /\ db.revision = 0
  BY DEF Layout!Init, Layout!Empty
<1>2. Part(0) = {}
  BY DEF Part
<1>3. Layout!SameSchema(Layout!Empty, Layout!Made({}))
  BY DEF Layout!SameSchema, Layout!Made, Layout!Empty
<1> QED  BY <1>1, <1>2, <1>3, BoundIs DEF SchemaInv

(* One lemma per action. *)
LEMMA UpgradeStarts ==
    ASSUME LayoutInv, SchemaInv, NEW r \in 1..3, Layout!StartUpgrade(r)
    PROVE  SchemaInv'
<1>1. /\ r \in db.revision + 1 .. 3 /\ target' = r /\ db.revision \in 0..3
      /\ statements' = Layout!Upgrades(db.revision, r)
      /\ work' = db /\ db' = db
  BY DEF Layout!StartUpgrade, LayoutInv, Layout!TypeOK, Layout!Consistent, Layout!Newest
<1> DEFINE from == db.revision
           n == Bound[from]
<1>2. /\ statements' \in Seq(Anything) /\ Len(statements') = Bound[r] - n
      /\ \A i \in 1..Bound[r] - n : n + i \in 1..27 /\ statements'[i] = All[n + i]
  <2>1. r \in from..3 /\ from # r  BY <1>1
  <2>2. /\ Layout!Upgrades(from, r) \in Seq(Anything)
        /\ Len(Layout!Upgrades(from, r)) = Bound[r] - n
        /\ \A i \in 1..Bound[r] - n :
              n + i \in 1..27 /\ Layout!Upgrades(from, r)[i] = All[n + i]
    BY <1>1, <2>1, UpgradesAre
  <2> QED  BY <1>1, <2>2
<1>3. n \in 0..27 /\ Bound[r] \in 0..27
  BY <1>1, BoundIs
<1>4. Layout!SameSchema(work', Layout!Made(Part(n)))
  BY <1>1 DEF SchemaInv
<1> HIDE DEF n
<1>5. n + Len(statements') = Bound[r]
  <2> DEFINE b == Bound[r]
             l == Len(statements')
  <2>1. l = b - n  BY <1>2
  <2>2. n \in 0..27 /\ b \in 0..27  BY <1>3
  <2> HIDE DEF b, l
  <2>3. n + l = b  BY <2>1, <2>2
  <2> QED  BY <2>3 DEF b, l
<1>6. \A i \in 1..Len(statements') : statements'[i] = All[n + i]
  BY <1>2
<1>7. UpgradeGoes'
  BY <1>1, <1>3, <1>4, <1>5, <1>6 DEF UpgradeGoes
<1> QED  BY <1>1, <1>7 DEF SchemaInv

LEMMA DowngradeStarts ==
    ASSUME LayoutInv, SchemaInv, Layout!StartDowngrade
    PROVE  SchemaInv'
<1>1. /\ db.revision \in 1..3 /\ target' = db.revision - 1
      /\ statements' = Layout!Down[db.revision]
      /\ work' = db /\ db' = db
  BY DEF Layout!StartDowngrade, LayoutInv, Layout!TypeOK, Layout!Consistent, Layout!Newest
<1> DEFINE script == Layout!Down[db.revision]
           m == Layout!Made(Part(Bound[db.revision]))
<1>2. First(script, 0) = {}
  BY DEF First
<1>3. Layout!SameSchema(work', Fallen(m, First(script, 0)))
  <2>1. Layout!SameSchema(db, m)  BY DEF SchemaInv
  <2> HIDE DEF m, script
  <2> QED  BY <1>1, <1>2, <2>1, NothingFalls DEF Layout!SameSchema
<1>4. Len(script) \in Nat
  BY <1>1, DownIs
<1> HIDE DEF m
<1>5. \E k \in 0..Len(script) :
          /\ k + Len(script) = Len(script)
          /\ \A i \in 1..Len(script) : script[i] = script[k + i]
          /\ Layout!SameSchema(work', Fallen(m, First(script, k)))
  <2>1. 0 \in 0..Len(script) /\ 0 + Len(script) = Len(script)  BY <1>4
  <2>2. \A i \in 1..Len(script) : 0 + i = i  BY <1>4
  <2> HIDE DEF script
  <2> QED  BY <1>3, <2>1, <2>2
<1>6. DowngradeGoes'
  BY <1>1, <1>5 DEF DowngradeGoes, m
<1> QED  BY <1>1, <1>6 DEF SchemaInv

(* Upgrades make, downgrades drop. *)
LEMMA StatementRises ==
    \A i \in 1..27 : All[i].do \in {"create", "add", "unique", "index", "backfill"}
BY OutlineOK DEF Kind

LEMMA StatementFalls ==
    \A r \in 1..3 : \A i \in 1..Len(Layout!Down[r]) :
        Layout!Down[r][i].do \in {"drop_table", "drop_column", "drop_index"}
<1>1. \A i \in 1..9 : Layout!Down1[i].do \in {"drop_table", "drop_column", "drop_index"}
  BY FirstFalls
<1>2. \A i \in 1..5 : Layout!Down2[i].do \in {"drop_table", "drop_column", "drop_index"}
  <2>1. \A i \in 1..5 : i = 1 \/ i = 2 \/ i \in 3..5  OBVIOUS
  <2> QED  BY <2>1, SecondFalls
<1>3. \A i \in 1..5 : Layout!Down3[i].do \in {"drop_table", "drop_column", "drop_index"}
  <2>1. \A i \in 1..5 : i = 1 \/ i \in 2..5  OBVIOUS
  <2> QED  BY <2>1, ThirdFalls
<1>4. Len(Layout!Down[1]) = 9 /\ Layout!Down[1] = Layout!Down1
  BY DownIs
<1>5. Len(Layout!Down[2]) = 5 /\ Layout!Down[2] = Layout!Down2
  BY DownIs
<1>6. Len(Layout!Down[3]) = 5 /\ Layout!Down[3] = Layout!Down3
  BY DownIs
<1>7. ASSUME NEW r \in 1..3, NEW i \in 1..Len(Layout!Down[r])
      PROVE  Layout!Down[r][i].do \in {"drop_table", "drop_column", "drop_index"}
  <2>1. CASE r = 1  BY <1>1, <1>4, <1>7, <2>1
  <2>2. CASE r = 2  BY <1>2, <1>5, <1>7, <2>2
  <2>3. CASE r = 3  BY <1>3, <1>6, <1>7, <2>3
  <2> QED  BY <2>1, <2>2, <2>3
<1> QED  BY <1>7

(* A script without its first statement. *)
LEMMA TailOfScript ==
    ASSUME NEW T, NEW s \in Seq(T), s # <<>>, NEW all2, NEW n \in Nat,
           \A i \in 1..Len(s) : s[i] = all2[n + i]
    PROVE  /\ Head(s) = all2[n + 1] /\ Len(Tail(s)) = Len(s) - 1 /\ Len(s) \in Nat \ {0}
           /\ \A i \in 1..Len(Tail(s)) : Tail(s)[i] = all2[(n + 1) + i]
<1>1. /\ Tail(s) \in Seq(T) /\ Len(Tail(s)) = Len(s) - 1
      /\ \A j \in 1..Len(s) - 1 : Tail(s)[j] = s[j + 1]
      /\ Head(s) = s[1] /\ Len(s) \in Nat \ {0}
  OBVIOUS
<1>2. Head(s) = all2[n + 1]
  BY <1>1
<1>3. ASSUME NEW j \in 1..Len(s) - 1
      PROVE  Tail(s)[j] = all2[(n + 1) + j]
  <2>1. j + 1 \in 1..Len(s) /\ n + (j + 1) = (n + 1) + j  BY <1>1
  <2>2. s[j + 1] = all2[n + (j + 1)]  BY <2>1
  <2> QED  BY <1>1, <2>1, <2>2
<1> QED  BY <1>1, <1>2, <1>3

(* What there is to do applies. *)
LEMMA NextApplies ==
    ASSUME LayoutInv, SchemaInv, statements # <<>>
    PROVE  Layout!Applies(Head(statements), work)
<1>1. target # db.revision /\ target \in 0..3 /\ db.revision \in 0..3
  BY DEF LayoutInv, Layout!TypeOK, Layout!Consistent, Layout!Newest
<1>2. statements \in Seq(Statements)
  BY DEF LayoutInv
<1>3. CASE target > db.revision
  <2>1. PICK n \in 0..27 :
           /\ n + Len(statements) = Bound[target]
           /\ \A i \in 1..Len(statements) : statements[i] = All[n + i]
           /\ Layout!SameSchema(work, Layout!Made(Part(n)))
    BY <1>3 DEF SchemaInv, UpgradeGoes
  <2>2. Head(statements) = All[n + 1] /\ Len(statements) \in Nat \ {0}
    BY <1>2, <2>1, TailOfScript
  <2>3. n \in 0..26
    <3>1. Bound[target] <= 27 /\ Bound[target] \in Nat  BY <1>1, BoundIs
    <3> QED  BY <2>1, <2>2, <3>1
  <2> QED  BY <2>1, <2>2, <2>3, UpApplies
<1>4. CASE target < db.revision
  <2> DEFINE script == Layout!Down[db.revision]
  <2>1. PICK k \in 0..Len(script) :
           /\ k + Len(statements) = Len(script)
           /\ \A i \in 1..Len(statements) : statements[i] = script[k + i]
           /\ Layout!SameSchema(work, Fallen(Layout!Made(Part(Bound[db.revision])), First(script, k)))
    BY <1>4 DEF SchemaInv, DowngradeGoes
  <2>2. Head(statements) = script[k + 1] /\ Len(statements) \in Nat \ {0}
    BY <1>2, <2>1, TailOfScript
  <2>3. db.revision \in 1..3 /\ Len(script) \in Nat
    BY <1>1, <1>4, DownIs
  <2>4. k \in 0..Len(script) - 1
    BY <2>1, <2>2, <2>3
  <2> QED  BY <2>1, <2>2, <2>3, <2>4, DowngradeApplies
<1> QED  BY <1>1, <1>3, <1>4

(* A statement is executed. *)
LEMMA ScriptStep ==
    ASSUME LayoutInv, SchemaInv, Layout!Execute
    PROVE  SchemaInv'
<1>1. /\ statements # <<>> /\ work' = Layout!Applied(work, Head(statements))
      /\ statements' = Tail(statements) /\ db' = db /\ target' = target
  BY DEF Layout!Execute
<1>2. target \in 0..3 /\ db.revision \in 0..3 /\ IsRecord(work) /\ statements \in Seq(Statements)
  BY DEF LayoutInv, Layout!TypeOK, Layout!Consistent, Layout!Newest
<1>3. ASSUME target > db.revision
      PROVE  UpgradeGoes'
  <2>1. PICK n \in 0..27 :
           /\ n + Len(statements) = Bound[target]
           /\ \A i \in 1..Len(statements) : statements[i] = All[n + i]
           /\ Layout!SameSchema(work, Layout!Made(Part(n)))
    BY <1>3 DEF SchemaInv, UpgradeGoes
  <2>2. /\ Head(statements) = All[n + 1] /\ Len(statements) \in Nat \ {0}
        /\ Len(statements') = Len(statements) - 1
        /\ \A i \in 1..Len(statements') : statements'[i] = All[(n + 1) + i]
    <3>1. statements \in Seq(Statements) /\ statements # <<>> /\ n \in Nat
      BY <1>1, <1>2, <2>1
    <3>2. \A i \in 1..Len(statements) : statements[i] = All[n + i]
      BY <2>1
    <3>3. /\ Head(statements) = All[n + 1] /\ Len(Tail(statements)) = Len(statements) - 1
          /\ Len(statements) \in Nat \ {0}
          /\ \A i \in 1..Len(Tail(statements)) : Tail(statements)[i] = All[(n + 1) + i]
      BY <3>1, <3>2, TailOfScript
    <3>4. statements' = Tail(statements)
      BY <1>1
    <3> QED  BY <3>3, <3>4
  <2>3. n \in 0..26 /\ (n + 1) + Len(statements') = Bound[target]
    <3>1. Bound[target] <= 27 /\ Bound[target] \in Nat  BY <1>2, BoundIs
    <3>2. n \in 0..27 /\ n + Len(statements) = Bound[target]  BY <2>1
    <3>3. Len(statements) \in Nat \ {0} /\ Len(statements') = Len(statements) - 1  BY <2>2
    <3> QED  BY <3>1, <3>2, <3>3
  <2>4. Part(n + 1) = Part(n) \cup {All[n + 1]}
    BY <2>3, PartGrows
  <2>5. Layout!SameSchema(work', Layout!Made(Part(n + 1)))
    <3>1. n + 1 \in 1..27  BY <2>3
    <3>2. All[n + 1].do \in {"create", "add", "unique", "index", "backfill"}
      BY <3>1, StatementRises
    <3> QED  BY <1>1, <1>2, <2>1, <2>2, <2>4, <3>2, MadeGrows
  <2>6. n + 1 \in 0..27  BY <2>3
  <2> QED  BY <1>1, <2>2, <2>3, <2>5, <2>6 DEF UpgradeGoes
<1>4. ASSUME target < db.revision
      PROVE  DowngradeGoes'
  <2> DEFINE script == Layout!Down[db.revision]
             m == Layout!Made(Part(Bound[db.revision]))
  <2>1. PICK k \in 0..Len(script) :
           /\ k + Len(statements) = Len(script)
           /\ \A i \in 1..Len(statements) : statements[i] = script[k + i]
           /\ Layout!SameSchema(work, Fallen(m, First(script, k)))
    BY <1>4 DEF SchemaInv, DowngradeGoes
  <2>2. /\ Head(statements) = script[k + 1] /\ Len(statements) \in Nat \ {0}
        /\ Len(statements') = Len(statements) - 1
        /\ \A i \in 1..Len(statements') : statements'[i] = script[(k + 1) + i]
    BY <1>1, <1>2, <2>1, TailOfScript
  <2>3. db.revision \in 1..3 /\ Len(script) \in Nat
    BY <1>2, <1>4, DownIs
  <2>4. k + 1 \in 0..Len(script) /\ k + 1 \in 1..Len(script) /\ (k + 1) + Len(statements') = Len(script)
    <3> DEFINE a == Len(script)
               b == Len(statements)
               c == Len(statements')
    <3>1. k \in 0..a /\ a \in Nat /\ k + b = a /\ b \in Nat \ {0} /\ c = b - 1
      BY <2>1, <2>2, <2>3
    <3> HIDE DEF a, b, c
    <3>2. k + 1 \in 0..a /\ k + 1 \in 1..a /\ (k + 1) + c = a
      BY <3>1
    <3> QED  BY <3>2 DEF a, b, c
  <2>5. script[k + 1].do \in {"drop_table", "drop_column", "drop_index"}
    BY <2>3, <2>4, StatementFalls
  <2> HIDE DEF script, m
  <2>6. First(script, k + 1) = First(script, k) \cup {script[k + 1]}
    <3>1. \A i : i \in 1..k + 1 <=> i \in 1..k \/ i = k + 1  BY <2>3
    <3> QED  BY <3>1 DEF First
  <2>7. Layout!SameSchema(work', Fallen(m, First(script, k + 1)))
    BY <1>1, <1>2, <2>1, <2>2, <2>5, <2>6, FallenGrows
  <2>8. target = db.revision - 1
    BY <1>4 DEF SchemaInv, DowngradeGoes
  <2>9. \E j \in 0..Len(script) :
           /\ j + Len(statements') = Len(script)
           /\ \A i \in 1..Len(statements') : statements'[i] = script[j + i]
           /\ Layout!SameSchema(work', Fallen(m, First(script, j)))
    BY <2>2, <2>4, <2>7
  <2> QED  BY <1>1, <2>8, <2>9 DEF DowngradeGoes, script, m
<1> QED  BY <1>1, <1>3, <1>4 DEF SchemaInv

(* A revision is reached. *)
LEMMA CommitKeepsSchema ==
    ASSUME LayoutInv, SchemaInv, Layout!Commit
    PROVE  SchemaInv'
<1>1. /\ statements = <<>> /\ target # db.revision /\ target \in 0..3 /\ db.revision \in 0..3
      /\ work' = [work EXCEPT !.revision = target] /\ db' = work' /\ target' = target
  BY DEF Layout!Commit, LayoutInv, Layout!TypeOK, Layout!Consistent, Layout!Newest
<1>2. IsRecord(work)
  BY DEF LayoutInv
<1>3. Layout!SameSchema(db', work) /\ db'.revision = target
  BY <1>1, <1>2 DEF IsRecord, Layout!SameSchema
<1>4. Len(statements) = 0
  BY <1>1
<1>5. Layout!SameSchema(work, Layout!Made(Part(Bound[target])))
  <2>1. CASE target > db.revision
    <3>1. PICK n \in 0..27 : /\ n + Len(statements) = Bound[target]
                             /\ Layout!SameSchema(work, Layout!Made(Part(n)))
      BY <2>1 DEF SchemaInv, UpgradeGoes
    <3>2. n = Bound[target]  BY <1>4, <3>1
    <3> QED  BY <3>1, <3>2
  <2>2. CASE target < db.revision
    <3> DEFINE script == Layout!Down[db.revision]
               m == Layout!Made(Part(Bound[db.revision]))
    <3>1. PICK k \in 0..Len(script) : /\ k + Len(statements) = Len(script)
                                    /\ Layout!SameSchema(work, Fallen(m, First(script, k)))
      BY <2>2 DEF SchemaInv, DowngradeGoes
    <3>2. target = db.revision - 1 /\ db.revision \in 1..3
      BY <1>1, <2>2 DEF SchemaInv, DowngradeGoes
    <3>3. k = Len(script)
      BY <1>4, <3>1
    <3>4. Layout!SameSchema(Fallen(m, First(script, Len(script))), Layout!Made(Part(Bound[db.revision - 1])))
      BY <3>2, DowngradeEnds
    <3> HIDE DEF m, script
    <3> QED  BY <3>1, <3>2, <3>3, <3>4 DEF Layout!SameSchema
  <2> QED  BY <1>1, <2>1, <2>2
<1>6. Layout!SameSchema(db', Layout!Made(Part(Bound[target])))
  BY <1>3, <1>5 DEF Layout!SameSchema
<1> QED  BY <1>1, <1>3, <1>6 DEF SchemaInv

(* What else there is leaves the schema alone. *)
LEMMA OthersKeepSchema ==
    ASSUME LayoutInv, SchemaInv,
           \/ Layout!RollBack
           \/ \E s \in Fleet : Layout!Receive(s) \/ \E r \in 1..3 : Layout!Restart(s, r)
           \/ UNCHANGED schemaVars
    PROVE  SchemaInv'
<1>0. IsRecord(db) /\ db.revision \in 0..3
  BY DEF LayoutInv, Layout!TypeOK, Layout!Consistent, Layout!Newest
<1>1. CASE Layout!RollBack
  BY <1>0, <1>1 DEF Layout!RollBack, SchemaInv
<1>2. ASSUME NEW s \in Fleet, Layout!Receive(s)
      PROVE  SchemaInv'
  <2>1. /\ Layout!SameSchema(db', db) /\ db'.revision = db.revision
        /\ target' = target /\ target = db.revision
    BY <1>0, <1>2 DEF Layout!Receive, Layout!Idle, IsRecord, Layout!SameSchema
  <2>2. Layout!SameSchema(db', Layout!Made(Part(Bound[db.revision])))
    BY <2>1 DEF SchemaInv, Layout!SameSchema
  <2> QED  BY <1>0, <2>1, <2>2 DEF SchemaInv
<1>3. ASSUME NEW s \in Fleet, NEW r \in 1..3, Layout!Restart(s, r)
      PROVE  SchemaInv'
  BY <1>3 DEF Layout!Restart, SchemaInv, UpgradeGoes, DowngradeGoes
<1>4. CASE UNCHANGED schemaVars
  BY <1>4 DEF schemaVars, SchemaInv, UpgradeGoes, DowngradeGoes
<1> QED  BY <1>1, <1>2, <1>3, <1>4

(* All steps together. *)
LEMMA SchemaStep ==
    ASSUME LayoutInv, SchemaInv, [Layout!Next]_schemaVars
    PROVE  SchemaInv'
BY UpgradeStarts, DowngradeStarts, ScriptStep, CommitKeepsSchema, OthersKeepSchema
DEF Layout!Next, Layout!Newest

(* What the invariant says of the schema. *)
LEMMA SchemaShows ==
    ASSUME LayoutInv, SchemaInv
    PROVE  MigrationsCompose /\ ServersGoOn
<1>0. db.revision \in 0..3 /\ runs \in [Fleet -> 1..3]
  BY DEF LayoutInv, Layout!TypeOK, Layout!Consistent, Layout!Newest
<1>1. Layout!EveryStatementApplies
  BY NextApplies DEF Layout!EveryStatementApplies
<1>2. Layout!RevisionTellsSchema
  BY <1>0, SchemaAtIs DEF SchemaInv, Layout!RevisionTellsSchema
<1>3. Layout!ModelsMatchHead
  BY HeadColumns, HeadKeys, BoundIs
  DEF SchemaInv, Layout!ModelsMatchHead, Layout!Newest, Layout!SameSchema
<1>4. Layout!OldReleasesGoOn
  <2> SUFFICES ASSUME NEW s \in Fleet, runs[s] <= db.revision
               PROVE  Layout!Serves(runs[s], db)
    BY DEF Layout!OldReleasesGoOn
  <2>1. runs[s] \in 1..3 /\ db.revision \in runs[s]..3
    BY <1>0
  <2> QED  BY <2>1, LaterServes DEF SchemaInv
<1> QED  BY <1>1, <1>2, <1>3, <1>4 DEF MigrationsCompose, ServersGoOn

-----------------------------------------------------------------------------
(* Of the parts of MCHotels, each takes the steps of its own specification *)
(* or none.                                                                *)
LEMMA SafeSpec == MCSpec => MCInit /\ [][MCNext]_all
BY PTL DEF MCSpec

(* Each part starts in one of its initial states. *)
LEMMA PartsStart ==
    ASSUME MCInit
    PROVE  Init /\ Layout!Init /\ Routing!Init /\ Vectors!Init
BY DEF MCInit

(* Each part takes one of its steps, or none. *)
LEMMA PartsStep ==
    ASSUME [MCNext]_all
    PROVE  /\ [Next]_vars /\ [Layout!Next]_schemaVars
           /\ [Routing!Next]_routingVars /\ [Vectors!Next]_cacheVars
BY DEF MCNext, all

(* The invariant of the migrations. *)
LEMMA SchemaStrengthening == MCSpec => [](LayoutInv /\ SchemaInv)
<1>1. MCInit => LayoutInv /\ SchemaInv
  BY PartsStart, LayoutStarts, SchemaStarts
<1>2. (LayoutInv /\ SchemaInv) /\ [MCNext]_all => (LayoutInv /\ SchemaInv)'
  BY PartsStep, LayoutStep, SchemaStep
<1> QED  BY <1>1, <1>2, SafeSpec, PTL

(* Whenever a migration up or down dies, no statement of a later one fails, *)
(* and the revision a database names is the schema it has.                 *)
THEOREM MigrationsAlwaysCompose == MCSpec => []MigrationsCompose
BY SchemaStrengthening, SchemaShows, PTL

(* The newest models fit the newest schema, and a server of any release    *)
(* goes on after later migrations.                                         *)
THEOREM ServersAlwaysGoOn == MCSpec => []ServersGoOn
BY SchemaStrengthening, SchemaShows, PTL

(* At the newest revision the service window of a conversation is that of  *)
(* its last message, for conversations of before that migration as well,   *)
(* unless a server of an older release has stored a message since.         *)
THEOREM WindowIsAlwaysKnown == MCSpec => []WindowIsKnown
<1>1. LayoutInv => WindowIsKnown
  BY DEF LayoutInv, WindowIsKnown
<1> QED  BY <1>1, SchemaStrengthening, PTL
=============================================================================
