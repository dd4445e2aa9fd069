------------------------- MODULE FilterConfigProofs -------------------------
(***************************************************************************)
(* The vector of conditions and the table of the database, for any texts,  *)
(* conditions and bound: their types, and for the commands of the menus,   *)
(* the toolbar and the dialog that the table keeps the filter and that an  *)
(* exclusion takes the inclusion of the same back.                         *)
(***************************************************************************)
EXTENDS FilterConfig, WellFoundedInduction, SequenceTheorems, TLAPS

(* What Kept returns.  The prover does not know of recursive functions:    *)
(* that there is one, and what it computes, is by induction on the length. *)

LEMMA NumbersWellFounded ==
    \E R : IsWellFoundedOn(R, Nat) /\ \A x, y \in Nat : <<y, x>> \in R <=> y < x
<1>1. IsWellFoundedOn(OpToRel(<, Nat), Nat)
  BY NatLessThanWellFounded
<1>2. \A x, y \in Nat : <<y, x>> \in OpToRel(<, Nat) <=> y < x
  BY DEF OpToRel
<1> QED
  BY <1>1, <1>2

(* Induction, as a statement about a set of numbers.                       *)
LEMMA SetInduction ==
    ASSUME NEW S \in SUBSET Nat, 0 \in S, \A n \in S : n + 1 \in S
    PROVE  S = Nat
<1>1. PICK R : IsWellFoundedOn(R, Nat) /\ \A x, y \in Nat : <<y, x>> \in R <=> y < x
  BY NumbersWellFounded
<1>2. SUFFICES ASSUME Nat \ S # {} PROVE FALSE
  OBVIOUS
<1>3. PICK m \in Nat \ S : \A n \in Nat \ S : ~(<<n, m>> \in R)
  BY <1>1, <1>2, WFMin
<1>4. m - 1 \in Nat
  BY <1>3
<1>5. m - 1 \in S
  <2>1. m \in Nat /\ m - 1 < m
    BY <1>3
  <2>2. <<m - 1, m>> \in R
    BY <1>1, <1>4, <2>1
  <2> QED
    BY <1>3, <1>4, <2>2
<1> QED
  BY <1>3, <1>4, <1>5

(* The list of the first n places that are kept, as the definition builds  *)
(* it.                                                                     *)
KeptNext(f, s, places, n) ==
    IF n = 0 THEN <<>>
    ELSE IF n \in places THEN Append(f[n - 1], s[n]) ELSE f[n - 1]

Builds(f, s, places, last) == f = [n \in 0 .. last |-> KeptNext(f, s, places, n)]

LEMMA KeptBuilt ==
    ASSUME NEW S, NEW s \in Seq(S), NEW places
    PROVE  \E f \in [0 .. Len(s) -> Seq(S)] :
              /\ Builds(f, s, places, Len(s))
              /\ Kept(s, places) = f[Len(s)]
<1> DEFINE Good == {n \in Nat : n <= Len(s) =>
              \E f \in [0 .. n -> Seq(S)] : Builds(f, s, places, n)}
<1>1. 0 \in Good
  <2> DEFINE f == [n \in 0 .. 0 |-> <<>>]
  <2>1. f \in [0 .. 0 -> Seq(S)]
    OBVIOUS
  <2>2. Builds(f, s, places, 0)
    BY DEF Builds, KeptNext
  <2> HIDE DEF f
  <2> QED
    BY <2>1, <2>2
<1>2. ASSUME NEW n \in Good PROVE n + 1 \in Good
  <2> SUFFICES ASSUME n + 1 <= Len(s)
               PROVE  \E f \in [0 .. n + 1 -> Seq(S)] : Builds(f, s, places, n + 1)
    OBVIOUS
  <2>1. PICK f \in [0 .. n -> Seq(S)] : Builds(f, s, places, n)
    OBVIOUS
  <2> DEFINE g == [m \in 0 .. n + 1 |->
                      IF m <= n THEN f[m] ELSE KeptNext(f, s, places, n + 1)]
  <2>2. KeptNext(f, s, places, n + 1) \in Seq(S)
    BY DEF KeptNext
  <2>3. g \in [0 .. n + 1 -> Seq(S)]
    BY <2>2
  <2>4. ASSUME NEW m \in 0 .. n + 1 PROVE g[m] = KeptNext(g, s, places, m)
    <3>1. m # 0 => g[m - 1] = f[m - 1]
      OBVIOUS
    <3>2. CASE m <= n
      <4>1. g[m] = f[m] /\ m \in 0 .. n
        BY <3>2
      <4>2. f[m] = KeptNext(f, s, places, m)
        BY <2>1, <4>1 DEF Builds
      <4> HIDE DEF g
      <4> QED
        BY <3>1, <4>1, <4>2 DEF KeptNext
    <3>3. CASE m = n + 1
      BY <3>1, <3>3 DEF KeptNext
    <3> QED
      BY <3>2, <3>3
  <2>5. g = [m \in 0 .. n + 1 |-> g[m]]
    OBVIOUS
  <2> HIDE DEF g
  <2>6. Builds(g, s, places, n + 1)
    BY <2>4, <2>5 DEF Builds
  <2> QED
    BY <2>3, <2>6
<1>3. Good = Nat
  <2> HIDE DEF Good
  <2>1. Good \in SUBSET Nat
    BY DEF Good
  <2> QED
    BY <1>1, <1>2, <2>1, SetInduction
<1>4. \E f \in [0 .. Len(s) -> Seq(S)] : Builds(f, s, places, Len(s))
  BY <1>3
<1> DEFINE k == CHOOSE f : Builds(f, s, places, Len(s))
<1>5. Builds(k, s, places, Len(s))
  BY <1>4, Zenon
<1>6. Kept(s, places) = k[Len(s)]
  BY DEF Kept, Builds, KeptNext
<1>7. k \in [0 .. Len(s) -> Seq(S)]
  <2> HIDE DEF k
  <2> DEFINE Typed == {n \in Nat : n <= Len(s) => k[n] \in Seq(S)}
  <2>1. \A n \in 0 .. Len(s) : k[n] = KeptNext(k, s, places, n)
    BY <1>5 DEF Builds
  <2>2. 0 \in Typed
    <3>1. 0 \in 0 .. Len(s) /\ <<>> \in Seq(S)
      OBVIOUS
    <3> QED
      BY <2>1, <3>1 DEF KeptNext
  <2>3. ASSUME NEW n \in Typed PROVE n + 1 \in Typed
    <3> SUFFICES ASSUME n + 1 <= Len(s) PROVE k[n + 1] \in Seq(S)
      OBVIOUS
    <3>1. n + 1 \in 0 .. Len(s) /\ n + 1 # 0 /\ (n + 1) - 1 = n
      OBVIOUS
    <3>2. k[n] \in Seq(S) /\ s[n + 1] \in S
      OBVIOUS
    <3>3. k[n + 1] = IF n + 1 \in places THEN Append(k[n], s[n + 1]) ELSE k[n]
      BY <2>1, <3>1 DEF KeptNext
    <3> QED
      BY <3>2, <3>3
  <2>4. Typed = Nat
    <3> HIDE DEF Typed
    <3>1. Typed \in SUBSET Nat
      BY DEF Typed
    <3> QED
      BY <2>2, <2>3, <3>1, SetInduction
  <2> QED
    BY <2>4, <1>5 DEF Builds
<1> QED
  BY <1>5, <1>6, <1>7

(* The places of s from which Kept takes its elements.                     *)
Selects(k, s, places, last, at) ==
    /\ Len(k) <= last
    /\ at \in [1 .. Len(k) -> 1 .. last]
    /\ \A i \in 1 .. Len(k) : at[i] \in places /\ k[i] = s[at[i]]
    /\ \A i, j \in 1 .. Len(k) : at[i] = at[j] => i = j
    /\ \A p \in 1 .. last : p \in places => \E i \in 1 .. Len(k) : at[i] = p

LEMMA KeptSelects ==
    ASSUME NEW S, NEW s \in Seq(S), NEW places
    PROVE  /\ Kept(s, places) \in Seq(S)
           /\ \E at : Selects(Kept(s, places), s, places, Len(s), at)
<1>1. PICK f \in [0 .. Len(s) -> Seq(S)] :
         /\ Builds(f, s, places, Len(s))
         /\ Kept(s, places) = f[Len(s)]
  BY KeptBuilt
<1>2. \A n \in 0 .. Len(s) : f[n] = KeptNext(f, s, places, n)
  BY <1>1 DEF Builds
<1> DEFINE Good == {n \in Nat : n <= Len(s) => \E at : Selects(f[n], s, places, n, at)}
<1>3. 0 \in Good
  <2>1. f[0] = <<>>
    BY <1>2 DEF KeptNext
  <2>2. Selects(f[0], s, places, 0, [i \in 1 .. 0 |-> 0])
    BY <2>1 DEF Selects
  <2> QED
    BY <2>2
<1>4. ASSUME NEW n \in Good PROVE n + 1 \in Good
  <2> SUFFICES ASSUME n + 1 <= Len(s)
               PROVE  \E at : Selects(f[n + 1], s, places, n + 1, at)
    OBVIOUS
  <2>1. PICK at : Selects(f[n], s, places, n, at)
    OBVIOUS
  <2>2. n \in Nat /\ f[n] \in Seq(S) /\ Len(f[n]) \in Nat
    OBVIOUS
  <2>3. CASE n + 1 \notin places
    <3>1. f[n + 1] = f[n]
      BY <1>2, <2>3 DEF KeptNext
    <3>2. Selects(f[n + 1], s, places, n + 1, at)
      BY <2>1, <2>2, <2>3, <3>1 DEF Selects
    <3> QED
      BY <3>2
  <2>4. CASE n + 1 \in places
    <3>10. PICK len \in Nat : len = Len(f[n])
      BY <2>2
    <3> DEFINE to == [i \in 1 .. len + 1 |-> IF i <= len THEN at[i] ELSE n + 1]
    <3>1. f[n + 1] = Append(f[n], s[n + 1])
      BY <1>2, <2>4 DEF KeptNext
    <3>2. Len(f[n + 1]) = len + 1
      BY <2>2, <3>10, <3>1
    <3>3. \A i \in 1 .. len + 1 :
             f[n + 1][i] = IF i <= len THEN f[n][i] ELSE s[n + 1]
      BY <2>2, <3>10, <3>1
    <3>4. to \in [1 .. len + 1 -> 1 .. n + 1]
      BY <2>1, <3>10 DEF Selects
    <3>5. \A i \in 1 .. len + 1 : to[i] \in places /\ f[n + 1][i] = s[to[i]]
      BY <2>1, <3>10, <2>4, <3>3 DEF Selects
    <3>11. to[len + 1] = n + 1 /\ \A i \in 1 .. len : to[i] = at[i]
      OBVIOUS
    <3>12. \A i \in 1 .. len : at[i] \in 1 .. n
      BY <2>1, <3>10 DEF Selects
    <3> HIDE DEF to
    <3>6. \A i, j \in 1 .. len + 1 : to[i] = to[j] => i = j
      <4> SUFFICES ASSUME NEW i \in 1 .. len + 1, NEW j \in 1 .. len + 1, to[i] = to[j]
                   PROVE  i = j
        OBVIOUS
      <4>1. (i \in 1 .. len \/ i = len + 1) /\ (j \in 1 .. len \/ j = len + 1)
        OBVIOUS
      <4>2. \A x, y \in 1 .. len : at[x] = at[y] => x = y
        BY <2>1, <3>10 DEF Selects
      <4>3. CASE i \in 1 .. len /\ j \in 1 .. len
        BY <3>11, <4>2, <4>3
      <4>4. CASE i = len + 1 /\ j \in 1 .. len
        BY <2>2, <3>11, <3>12, <4>4
      <4>5. CASE i \in 1 .. len /\ j = len + 1
        BY <2>2, <3>11, <3>12, <4>5
      <4> QED
        BY <4>1, <4>3, <4>4, <4>5
    <3>7. \A p \in 1 .. n + 1 : p \in places => \E i \in 1 .. len + 1 : to[i] = p
      <4> SUFFICES ASSUME NEW p \in 1 .. n + 1, p \in places
                   PROVE  \E i \in 1 .. len + 1 : to[i] = p
        OBVIOUS
      <4>1. CASE p = n + 1
        BY <3>11, <4>1
      <4>2. CASE p <= n
        <5>1. PICK i \in 1 .. len : at[i] = p
          BY <2>1, <3>10, <4>2 DEF Selects
        <5>2. i \in 1 .. len + 1 /\ to[i] = p
          BY <3>11, <5>1
        <5> QED
          BY <5>2
      <4> QED
        BY <4>1, <4>2
    <3>8. len + 1 <= n + 1
      BY <2>1, <3>10 DEF Selects
    <3>9. Selects(f[n + 1], s, places, n + 1, to)
      BY <3>2, <3>4, <3>5, <3>6, <3>7, <3>8 DEF Selects
    <3> QED
      BY <3>9
  <2> QED
    BY <2>3, <2>4
<1>5. Good = Nat
  <2> HIDE DEF Good
  <2>1. Good \in SUBSET Nat
    BY DEF Good
  <2> QED
    BY <1>3, <1>4, <2>1, SetInduction
<1> QED
  BY <1>1, <1>5

-----------------------------------------------------------------------------
(* Types of what the commands make and of what the statements leave.       *)

LEMMA AdjustedTyped ==
    ASSUME NEW info \in Infos
    PROVE  Adjusted(info) \in Infos
<1>1. \A number \in Texts \cup {DefaultText, 0} :
         [info EXCEPT !.type = "number", !.data = number] \in Infos
  BY DEF Infos
<1>2. info.text \in Texts \cup {DefaultText, 0}
  BY DEF Infos
<1> QED
  BY <1>1, <1>2 DEF Adjusted

LEMMA InfoTyped ==
    ASSUME NEW cond \in NumberConds \cup TextConds,
           NEW compare_mode \in {"FLT_EQUALS", "FLT_CONTAINS",
                                 "FLT_START_WITH", "FLT_END_WITH"},
           NEW filter_mode \in {"FLT_INCLUDE", "FLT_EXCLUDE"},
           NEW text \in Texts \cup {DefaultText},
           NEW bk_clr \in {"none", "event", "default"}
    PROVE  /\ Info(cond, compare_mode, filter_mode, text, bk_clr) \in Infos
           /\ DialogInfo(cond, compare_mode, filter_mode, text) \in Infos
<1>1. \A colour \in {"none", "event", "default"} :
         Info(cond, compare_mode, filter_mode, text, colour) \in Infos
  <2> TAKE colour \in {"none", "event", "default"}
  <2> DEFINE info ==
        [cond |-> cond, compare_mode |-> compare_mode,
         filter_mode |-> filter_mode, type |-> "STRING_VALUE_TYPE",
         text |-> text, data |-> 0, cc_string_len |-> "own",
         bk_clr |-> colour]
  <2>1. info \in Infos
    BY DEF Infos, Lengths
  <2> HIDE DEF info
  <2> QED
    BY <2>1, AdjustedTyped DEF Info, info
<1>2. DialogInfo(cond, compare_mode, filter_mode, text) \in Infos
  BY <1>1 DEF DialogInfo, Infos
<1> QED
  BY <1>1, <1>2

LEMMA DefaultTyped == DefaultInfo \in Infos
<1>1. "FLT_PROCESS_NAME" \in NumberConds \cup TextConds
  BY DEF TextConds, StringConds
<1> QED
  BY <1>1, InfoTyped DEF DefaultInfo

LEMMA RowTyped ==
    ASSUME NEW info \in Infos
    PROVE  Row(info) \in Rows /\ Opposite(info) \in Infos /\ info # NoInfo
<1>1. Row(info) \in Rows
  BY DEF Row, Rows, Infos
<1>2. Opposite(info) \in Infos
  BY DEF Opposite, Infos
<1>3. info # NoInfo
  <2>1. "cond" \in DOMAIN info
    BY DEF Infos
  <2>2. DOMAIN NoInfo = {}
    BY DEF NoInfo
  <2> QED
    BY <2>1, <2>2
<1> QED
  BY <1>1, <1>2, <1>3

LEMMA LoadedTyped ==
    ASSUME NEW row \in Rows, NEW len \in Lengths
    PROVE  Loaded(row, len) \in Infos
<1> DEFINE info ==
      [cond |-> row.cond, compare_mode |-> row.compare_mode,
       filter_mode |-> row.filter_mode, type |-> "STRING_VALUE_TYPE",
       text |-> row.text, data |-> 0,
       cc_string_len |-> IF row.cond \in TextConds THEN len ELSE "own",
       bk_clr |-> row.bk_clr]
<1>1. info \in Infos
  BY DEF Rows, Infos, Lengths
<1> HIDE DEF info
<1> QED
  BY <1>1, AdjustedTyped DEF Loaded, info

LEMMA DeletedTyped ==
    ASSUME cond_table \in Seq(Rows), NEW info
    PROVE  Deleted(info) \in Seq(Rows) /\ Len(Deleted(info)) <= Len(cond_table)
  BY KeptSelects DEF Deleted, Selects

LEMMA InsertedTyped ==
    ASSUME cond_table \in Seq(Rows), NEW info \in Infos
    PROVE  /\ Inserted(info) \in Seq(Rows)
           /\ Len(Inserted(info)) <= Len(cond_table) + 1
<1>1. Len(Deleted(info)) \in Nat /\ Len(cond_table) \in Nat
  BY DeletedTyped
<1> QED
  BY <1>1, DeletedTyped, RowTyped DEF Inserted

LEMMA UpdatedTyped ==
    ASSUME cond_table \in Seq(Rows), NEW old, NEW new \in Infos
    PROVE  /\ Updated(old, new) \in Seq(Rows)
           /\ Len(Updated(old, new)) <= Len(cond_table)
<1> DEFINE hits == {k \in DOMAIN cond_table : cond_table[k] = Row(old)}
           table == [k \in DOMAIN cond_table |->
                        IF k \in hits THEN Row(new) ELSE cond_table[k]]
<1>1. table \in Seq(Rows) /\ Len(table) = Len(cond_table)
  BY RowTyped
<1> HIDE DEF table
<1>2. \A places : /\ Kept(table, places) \in Seq(Rows)
                  /\ Len(Kept(table, places)) <= Len(cond_table)
  BY <1>1, KeptSelects DEF Selects
<1>3. \/ Updated(old, new) = cond_table
      \/ \E places : Updated(old, new) = Kept(table, places)
  BY DEF Updated, table
<1> QED
  BY <1>2, <1>3

LEMMA ErasedTyped ==
    ASSUME filter_infos \in Seq(Infos), NEW info
    PROVE  Erased(info) \in Seq(Infos) /\ Len(Erased(info)) <= Len(filter_infos)
  BY KeptSelects DEF Erased, Selects

LEMMA LoadedTableTyped ==
    ASSUME cond_table \in Seq(Rows), NEW infos \in LoadedTable(cond_table)
    PROVE  infos \in Seq(Infos) /\ Len(infos) = Len(cond_table)
<1>1. PICK lens \in [DOMAIN cond_table -> Lengths] :
         infos = [k \in DOMAIN cond_table |-> Loaded(cond_table[k], lens[k])]
  BY DEF LoadedTable
<1>2. DOMAIN cond_table = 1 .. Len(cond_table) /\ Len(cond_table) \in Nat
  OBVIOUS
<1>3. \A k \in 1 .. Len(cond_table) : Loaded(cond_table[k], lens[k]) \in Infos
  BY <1>2, LoadedTyped
<1> QED
  BY <1>1, <1>2, <1>3

-----------------------------------------------------------------------------
(* A command is begun only while both lists are below the bound, and adds  *)
(* at most one to each.                                                    *)
Room ==
    /\ step \in {"delete", "erase", "insert", "push", "insert_new", "push_new"} =>
          Len(filter_infos) < MaxConditions
    /\ step \in {"delete", "erase", "insert", "insert_new"} =>
          Len(cond_table) < MaxConditions

TypeInv == TypeOK /\ Room

LEMMA InitTyped == Init => TypeInv
<1> SUFFICES ASSUME Init PROVE TypeInv
  OBVIOUS
<1>1. cond_table \in Seq(Rows) /\ Len(cond_table) = 1
  BY DefaultTyped, RowTyped DEF Init
<1>2. filter_infos \in Seq(Infos) /\ Len(filter_infos) = 1
  BY <1>1, LoadedTableTyped DEF Init
<1>3. 1 <= MaxConditions
  BY MaxConditionsAssumption
<1> QED
  BY <1>1, <1>2, <1>3 DEF Init, TypeInv, TypeOK, Room

(* A command that only chooses its condition.                              *)
LEMMA BeginTyped ==
    ASSUME TypeInv, NEW name, Command(name), UNCHANGED <<filter_infos, cond_table>>,
           NEW first \in {"delete", "erase", "insert", "insert_new"},
           NEW info \in Infos, Begin(first, info, 0)
    PROVE  TypeInv'
<1>1. info # NoInfo
  BY RowTyped
<1> QED
  BY <1>1 DEF Begin, Command, TypeInv, TypeOK, Room

LEMMA ToolbarEditTyped ==
    ASSUME TypeInv, NEW text \in Texts, ToolbarEdit(text)
    PROVE  TypeInv'
<1>1. PICK k \in MainTypes :
         /\ filter_infos' = [filter_infos EXCEPT ![k] =
               Info("FLT_MAIN_TYPE", "FLT_CONTAINS", "FLT_INCLUDE", text,
                    filter_infos[k].bk_clr)]
         /\ Begin("update", filter_infos[k], k)
  BY DEF ToolbarEdit
<1>2. k \in 1 .. Len(filter_infos) /\ filter_infos[k] \in Infos
  BY DEF MainTypes, TypeInv, TypeOK
<1>3. filter_infos[k].bk_clr \in {"none", "event", "default"}
  BY <1>2 DEF Infos
<1>4. "FLT_MAIN_TYPE" \in NumberConds \cup TextConds
  BY DEF NumberConds, UlongConds
<1>5. Info("FLT_MAIN_TYPE", "FLT_CONTAINS", "FLT_INCLUDE", text,
           filter_infos[k].bk_clr) \in Infos
  BY <1>3, <1>4, InfoTyped
<1>6. filter_infos' \in Seq(Infos) /\ Len(filter_infos') = Len(filter_infos)
  BY <1>1, <1>2, <1>5 DEF TypeInv, TypeOK
<1>7. filter_infos[k] # NoInfo
  BY <1>2, RowTyped
<1>8. UNCHANGED cond_table
  BY DEF ToolbarEdit
<1> QED
  BY <1>1, <1>2, <1>6, <1>7, <1>8 DEF Begin, TypeInv, TypeOK, Room

LEMMA FocusTyped ==
    ASSUME TypeInv, NEW text \in Texts, FocusProcess(text)
    PROVE  TypeInv'
<1>1. \A info \in Infos :
         [info EXCEPT !.data = text, !.bk_clr = "default"] \in Infos
  BY DEF Infos
<1>2. \A row \in Rows : [row EXCEPT !.bk_clr = "default"] \in Rows
  BY DEF Rows
<1>3. filter_infos' \in Seq(Infos) /\ Len(filter_infos') = Len(filter_infos)
  <2>1. filter_infos \in Seq(Infos) /\ DOMAIN filter_infos = 1 .. Len(filter_infos)
    BY DEF TypeInv, TypeOK
  <2> DEFINE new(i) ==
        IF i \in Processes
        THEN [filter_infos[i] EXCEPT !.data = text, !.bk_clr = "default"]
        ELSE filter_infos[i]
  <2>2. ASSUME NEW i \in 1 .. Len(filter_infos) PROVE new(i) \in Infos
    <3>1. filter_infos[i] \in Infos
      BY <2>1
    <3> QED
      BY <1>1, <3>1
  <2>3. filter_infos' = [i \in 1 .. Len(filter_infos) |-> new(i)]
    BY <2>1 DEF FocusProcess
  <2> HIDE DEF new
  <2> QED
    BY <2>1, <2>2, <2>3
<1>4. cond_table' \in Seq(Rows) /\ Len(cond_table') = Len(cond_table)
  <2> DEFINE hit(row) == \E i \in Processes : row = Row(filter_infos[i])
  <2>1. cond_table \in Seq(Rows) /\ DOMAIN cond_table = 1 .. Len(cond_table)
    BY DEF TypeInv, TypeOK
  <2>2. cond_table' = [k \in 1 .. Len(cond_table) |->
           IF hit(cond_table[k])
           THEN [cond_table[k] EXCEPT !.bk_clr = "default"] ELSE cond_table[k]]
    BY <2>1 DEF FocusProcess
  <2> HIDE DEF hit
  <2>3. \A k \in 1 .. Len(cond_table) :
           (IF hit(cond_table[k])
            THEN [cond_table[k] EXCEPT !.bk_clr = "default"]
            ELSE cond_table[k]) \in Rows
    BY <1>2, <2>1
  <2> QED
    BY <2>1, <2>2, <2>3
<1>5. UNCHANGED <<step, filter_info, selected>>
  BY DEF FocusProcess
<1> QED
  BY <1>3, <1>4, <1>5 DEF TypeInv, TypeOK, Room

(* The commands with a text of the user's choice, also as FilterView has   *)
(* them.                                                                   *)
LEMMA ChoiceTyped ==
    ASSUME TypeInv, NEW text \in Texts, NEW cond \in NumberConds \cup TextConds,
           \/ MenuInclude(cond, text) \/ MenuExclude(cond, text)
           \/ \E compare_mode \in {"FLT_START_WITH", "FLT_END_WITH"} :
                 MenuTime(compare_mode, text)
           \/ ToolbarEdit(text) \/ ToolbarAdd(text)
           \/ FocusProcess(text) \/ FocusNewProcess(text)
           \/ \E compare_mode \in {"FLT_CONTAINS", "FLT_EQUALS"},
                 filter_mode \in {"FLT_INCLUDE", "FLT_EXCLUDE"} :
                 DialogAdd(cond, compare_mode, filter_mode, text)
    PROVE  TypeInv'
<1>0. {"FLT_DATE_TIME", "FLT_MAIN_TYPE", "FLT_PID"} \subseteq NumberConds \cup TextConds
  BY DEF NumberConds, UlongConds, TimeConds
<1>1. CASE MenuInclude(cond, text)
  BY <1>1, InfoTyped, BeginTyped DEF MenuInclude
<1>2. CASE MenuExclude(cond, text)
  BY <1>2, InfoTyped, BeginTyped DEF MenuExclude
<1>3. ASSUME NEW compare_mode \in {"FLT_START_WITH", "FLT_END_WITH"},
             MenuTime(compare_mode, text)
      PROVE  TypeInv'
  BY <1>0, <1>3, InfoTyped, BeginTyped DEF MenuTime
<1>4. CASE ToolbarAdd(text)
  BY <1>0, <1>4, InfoTyped, BeginTyped DEF ToolbarAdd
<1>5. CASE FocusNewProcess(text)
  BY <1>0, <1>5, InfoTyped, BeginTyped DEF FocusNewProcess
<1>6. ASSUME NEW compare_mode \in {"FLT_CONTAINS", "FLT_EQUALS"},
             NEW filter_mode \in {"FLT_INCLUDE", "FLT_EXCLUDE"},
             DialogAdd(cond, compare_mode, filter_mode, text)
      PROVE  TypeInv'
  BY <1>6, InfoTyped, BeginTyped DEF DialogAdd
<1> QED
  BY <1>1, <1>2, <1>3, <1>4, <1>5, <1>6, ToolbarEditTyped, FocusTyped

LEMMA DialogTyped ==
    ASSUME TypeInv,
           \/ DialogRestore \/ DialogReset
           \/ \E i \in DOMAIN filter_infos : DialogDelete(i)
    PROVE  TypeInv'
<1>1. CASE DialogRestore
  BY <1>1, DefaultTyped, BeginTyped DEF DialogRestore
<1>2. CASE DialogReset
  <2>1. cond_table' \in Seq(Rows) /\ Len(cond_table') = 0
    BY <1>2 DEF DialogReset
  <2> QED
    BY <1>2, <2>1, MaxConditionsAssumption
    DEF DialogReset, Begin, TypeInv, TypeOK, Room
<1>3. ASSUME NEW i \in DOMAIN filter_infos, DialogDelete(i)
      PROVE  TypeInv'
  <2>1. i \in 1 .. Len(filter_infos) /\ filter_infos[i] \in Infos
    BY <1>3 DEF TypeInv, TypeOK
  <2>2. filter_infos[i] # NoInfo
    BY <2>1, RowTyped
  <2> QED
    BY <1>3, <2>1, <2>2 DEF DialogDelete, Begin, TypeInv, TypeOK, Room
<1> QED
  BY <1>1, <1>2, <1>3

LEMMA CommandStepTyped ==
    ASSUME TypeInv, CommandStep
    PROVE  TypeInv'
<1> DEFINE Working == step \notin {"idle", "release"}
<1>0. Working => filter_info \in Infos /\ filter_info # NoInfo
  BY DEF TypeInv, TypeOK
<1>1. CASE DeleteRow
  <2>1. /\ cond_table' \in Seq(Rows) /\ Len(cond_table') <= Len(cond_table)
        /\ Len(cond_table') \in Nat /\ Len(cond_table) \in Nat
    BY <1>1, DeletedTyped DEF DeleteRow, TypeInv, TypeOK
  <2> QED
    BY <1>0, <1>1, <2>1, MaxConditionsAssumption
    DEF DeleteRow, Begin, TypeInv, TypeOK, Room
<1>2. CASE EraseInfos
  <2>1. /\ filter_infos' \in Seq(Infos) /\ Len(filter_infos') <= Len(filter_infos)
        /\ Len(filter_infos') \in Nat /\ Len(filter_infos) \in Nat
    BY <1>2, ErasedTyped DEF EraseInfos, TypeInv, TypeOK
  <2> QED
    BY <1>0, <1>2, <2>1, MaxConditionsAssumption
    DEF EraseInfos, Begin, TypeInv, TypeOK, Room
<1>3. CASE InsertRow \/ InsertNewRow
  <2>1. cond_table' = Inserted(filter_info) /\ filter_info \in Infos
    BY <1>0, <1>3 DEF InsertRow, InsertNewRow
  <2>2. /\ cond_table' \in Seq(Rows) /\ Len(cond_table') <= Len(cond_table) + 1
        /\ Len(cond_table') \in Nat /\ Len(cond_table) \in Nat
    BY <2>1, InsertedTyped DEF TypeInv, TypeOK
  <2> QED
    BY <1>0, <1>3, <2>2, MaxConditionsAssumption
    DEF InsertRow, InsertNewRow, Begin, TypeInv, TypeOK, Room
<1>4. CASE PushInfo \/ PushNewInfo
  <2>1. /\ filter_info \in Infos /\ step \in {"push", "push_new"}
        /\ filter_infos' = filter_infos \/ filter_infos' = Append(filter_infos, filter_info)
    BY <1>0, <1>4 DEF PushInfo, PushNewInfo
  <2>2. /\ filter_infos' \in Seq(Infos) /\ Len(filter_infos') <= Len(filter_infos) + 1
        /\ Len(filter_infos') \in Nat /\ Len(filter_infos) \in Nat
    BY <2>1 DEF TypeInv, TypeOK
  <2> QED
    BY <1>4, <2>1, <2>2, MaxConditionsAssumption
    DEF PushInfo, PushNewInfo, Finish, Begin, TypeInv, TypeOK, Room
<1>5. CASE UpdateRow
  <2>1. filter_infos[selected] \in Infos
    BY <1>5 DEF UpdateRow, TypeInv, TypeOK
  <2>2. /\ cond_table' \in Seq(Rows) /\ Len(cond_table') <= Len(cond_table)
        /\ Len(cond_table') \in Nat /\ Len(cond_table) \in Nat
    BY <1>5, <2>1, UpdatedTyped DEF UpdateRow, TypeInv, TypeOK
  <2> QED
    BY <1>5, <2>2, MaxConditionsAssumption
    DEF UpdateRow, Finish, Begin, TypeInv, TypeOK, Room
<1>6. CASE DeleteOneRow
  <2>1. /\ cond_table' \in Seq(Rows) /\ Len(cond_table') <= Len(cond_table)
        /\ Len(cond_table') \in Nat /\ Len(cond_table) \in Nat
    BY <1>6, DeletedTyped DEF DeleteOneRow, TypeInv, TypeOK
  <2> QED
    BY <1>0, <1>6, <2>1, MaxConditionsAssumption
    DEF DeleteOneRow, Begin, TypeInv, TypeOK, Room
<1>7. CASE EraseOne
  <2>1. selected \in 1 .. Len(filter_infos) /\ filter_infos \in Seq(Infos)
    BY <1>7 DEF EraseOne, TypeInv, TypeOK
  <2>2. /\ filter_infos' \in Seq(Infos) /\ Len(filter_infos') = Len(filter_infos) - 1
    <3> DEFINE before == SubSeq(filter_infos, 1, selected - 1)
               after == SubSeq(filter_infos, selected + 1, Len(filter_infos))
    <3>1. before \in Seq(Infos) /\ Len(before) = selected - 1
      BY <2>1
    <3>2. after \in Seq(Infos) /\ Len(after) = Len(filter_infos) - selected
      BY <2>1
    <3>3. filter_infos' = before \o after
      BY <1>7 DEF EraseOne, RemoveAt
    <3> HIDE DEF before, after
    <3>4. before \o after \in Seq(Infos) /\ Len(before \o after) = Len(before) + Len(after)
      BY <3>1, <3>2
    <3>5. (selected - 1) + (Len(filter_infos) - selected) = Len(filter_infos) - 1
      BY <2>1
    <3> QED
      BY <3>1, <3>2, <3>3, <3>4, <3>5
  <2> QED
    BY <1>7, <2>1, <2>2, MaxConditionsAssumption
    DEF EraseOne, Finish, Begin, TypeInv, TypeOK, Room
<1>8. CASE ReleaseInfos
  <2>1. filter_infos' \in Seq(Infos) /\ Len(filter_infos') = 0
    BY <1>8 DEF ReleaseInfos
  <2> QED
    BY <1>8, <2>1, MaxConditionsAssumption
    DEF ReleaseInfos, Finish, Begin, TypeInv, TypeOK, Room
<1> QED
  BY <1>1, <1>2, <1>3, <1>4, <1>5, <1>6, <1>7, <1>8 DEF CommandStep

LEMMA RestartTyped ==
    ASSUME TypeInv, Restart
    PROVE  TypeInv'
<1>1. filter_infos' \in Seq(Infos) /\ Len(filter_infos') = Len(cond_table)
  BY LoadedTableTyped DEF Restart, TypeInv, TypeOK
<1> QED
  BY <1>1 DEF Restart, Finish, Begin, TypeInv, TypeOK, Room

LEMMA NextTyped == TypeInv /\ [Next]_vars => TypeInv'
<1> SUFFICES ASSUME TypeInv, [Next]_vars PROVE TypeInv'
  OBVIOUS
<1>1. CASE UNCHANGED vars
  BY <1>1 DEF vars, TypeInv, TypeOK, Room
<1>2. CASE UserCommand
  <2>1. \A cond \in MenuConds \cup DialogConds : cond \in NumberConds \cup TextConds
    BY CondsAssumption
  <2>2. "FLT_PID" \in NumberConds \cup TextConds
    BY DEF NumberConds, UlongConds
  <2> QED
    BY <1>2, <2>1, <2>2, ChoiceTyped, DialogTyped DEF UserCommand
<1> QED
  BY <1>1, <1>2, CommandStepTyped, RestartTyped DEF Next

LEMMA TypeInvariant == Spec => []TypeInv
  BY InitTyped, NextTyped, PTL DEF Spec

(* The conditions and the rows are well-formed and within the bound, and a *)
(* place in the vector is kept only while a step uses it, for all texts,   *)
(* conditions, commands and bounds.                                        *)
THEOREM TypeCorrect == Spec => []TypeOK
<1>1. TypeInv => TypeOK
  BY DEF TypeInv
<1> QED
  BY TypeInvariant, <1>1, PTL

-----------------------------------------------------------------------------
(* What a condition or a row asks of an event, the number made of its text *)
(* included.  Two conditions that ask the same are the same to the code,   *)
(* and their rows have the same key, except that all times ask the same.   *)

Asks(x) ==
    [cond |-> x.cond, compare_mode |-> x.compare_mode,
     filter_mode |-> x.filter_mode,
     value |-> IF x.cond \in TimeConds THEN 0 ELSE x.text]

AsksAll(list) == {Asks(list[i]) : i \in DOMAIN list}

(* The default condition, and no other, contains a name of a process.  A   *)
(* start leaves the length of a string as it finds it: there are others    *)
(* only where the program is not started again.                            *)
IsDefault(x) == x.cond = "FLT_PROCESS_NAME" /\ x.compare_mode = "FLT_CONTAINS"

Kind(x) ==
    /\ x.type = IF x.cond \in NumberConds THEN "number" ELSE "STRING_VALUE_TYPE"
    /\ IsDefault(x) => x.text = DefaultText
    /\ x.cond \in NumberConds \/ IsDefault(x) \/ "restart" \notin FilterCommands
    /\ x.cond \in TimeConds => "time" \in FilterCommands

(* Strings other than that one are compared over their own length, and     *)
(* none starts another.                                                    *)
NoPrefixes ==
    \A s, t \in Texts \cup {DefaultText} : <<s, t>> \in PrefixPairs => s = t

Exact(info) ==
    \/ info.cond \in NumberConds \/ IsDefault(info)
    \/ info.cc_string_len = "own" /\ NoPrefixes

Converted(info) ==
    info.cond \in NumberConds =>
        info.data = IF info.cond \in TimeConds THEN 0 ELSE info.text

OnlyIncluded(x) ==
    x.cond \in TimeConds \cup {"FLT_MAIN_TYPE"} => x.filter_mode = "FLT_INCLUDE"

LEMMA EffectiveAsks ==
    ASSUME NEW info \in Infos, Converted(info)
    PROVE  Effective(info) = Asks(info)
  BY DEF Effective, Asks, Converted, NumberConds, TimeConds

LEMMA RowAsks ==
    ASSUME NEW info \in Infos
    PROVE  /\ Asks(Row(info)) = Asks(info)
           /\ Row(info).cond = info.cond /\ Row(info).bk_clr = info.bk_clr
           /\ Row(info).filter_mode = info.filter_mode
           /\ Kind(info) => Kind(Row(info))
           /\ OnlyIncluded(info) => OnlyIncluded(Row(info))
  BY DEF Row, Asks, Kind, IsDefault, OnlyIncluded

LEMMA LoadedAsks ==
    ASSUME NEW row \in Rows, NEW len \in Lengths
    PROVE  /\ Effective(Loaded(row, len)) = Asks(row)
           /\ Asks(Loaded(row, len)) = Asks(row)
           /\ Loaded(row, len).cond = row.cond
           /\ Converted(Loaded(row, len))
           /\ Kind(row) => Kind(Loaded(row, len)) /\ Row(Loaded(row, len)) = row
           /\ row.cond \in NumberConds \/ IsDefault(row) => Exact(Loaded(row, len))
           /\ OnlyIncluded(row) => OnlyIncluded(Loaded(row, len))
<1> DEFINE info == Loaded(row, len)
<1>1. /\ info.cond = row.cond /\ info.compare_mode = row.compare_mode
      /\ info.filter_mode = row.filter_mode /\ info.text = row.text
      /\ info.bk_clr = row.bk_clr
      /\ info.type = IF row.cond \in NumberConds THEN "number"
                     ELSE "STRING_VALUE_TYPE"
  BY DEF Loaded, Adjusted
<1>2. row.cond \in NumberConds =>
         info.data = IF row.cond \in TimeConds THEN 0 ELSE row.text
  BY DEF Loaded, Adjusted, TimeConds
<1> HIDE DEF info
<1>3. Converted(info) /\ Asks(info) = Asks(row)
  BY <1>1, <1>2 DEF Converted, Asks
<1>4. info \in Infos
  BY LoadedTyped DEF info
<1>5. Effective(info) = Asks(row)
  BY <1>3, <1>4, EffectiveAsks
<1>6. Kind(row) => Kind(info)
  BY <1>1 DEF Kind, IsDefault
<1>7. Kind(row) => Row(info) = row
  BY <1>1 DEF Kind, Row, Rows
<1>8. OnlyIncluded(row) => OnlyIncluded(info)
  BY <1>1 DEF OnlyIncluded
<1>9. row.cond \in NumberConds \/ IsDefault(row) => Exact(info)
  BY <1>1 DEF Exact, IsDefault
<1> QED
  BY <1>1, <1>3, <1>5, <1>6, <1>7, <1>8, <1>9 DEF info

LEMMA OppositeAsks ==
    ASSUME NEW info \in Infos
    PROVE  /\ Opposite(info).cond = info.cond
           /\ Opposite(info).filter_mode # info.filter_mode
           /\ Kind(info) => Kind(Opposite(info))
           /\ Converted(info) => Converted(Opposite(info))
           /\ Exact(info) => Exact(Opposite(info))
  BY DEF Opposite, Infos, Kind, IsDefault, Converted, Exact

LEMMA SameKeyAsks ==
    ASSUME NEW row \in Rows, NEW info \in Infos, Kind(row), Kind(info)
    PROVE  /\ SameKey(row, info) => Asks(row) = Asks(info)
           /\ Asks(row) = Asks(info) /\ info.cond \notin TimeConds =>
                 SameKey(row, info)
<1>1. SameKey(row, info) <=>
         /\ row.cond = info.cond /\ row.compare_mode = info.compare_mode
         /\ row.filter_mode = info.filter_mode /\ row.type = info.type
         /\ row.text = info.text
  BY DEF SameKey, Row, Rows
<1>2. Asks(row) = Asks(info) <=>
         /\ row.cond = info.cond /\ row.compare_mode = info.compare_mode
         /\ row.filter_mode = info.filter_mode
         /\ (IF row.cond \in TimeConds THEN 0 ELSE row.text)
            = (IF info.cond \in TimeConds THEN 0 ELSE info.text)
  BY DEF Asks
<1> QED
  BY <1>1, <1>2 DEF Kind

LEMMA SameInfoAsks ==
    ASSUME NEW old \in Infos, NEW new \in Infos,
           Kind(old), Kind(new), Converted(old), Converted(new), Exact(old)
    PROVE  is_same_filter_info(old, new) <=> Asks(old) = Asks(new)
<1>1. Asks(old) = Asks(new) <=>
         /\ old.cond = new.cond /\ old.compare_mode = new.compare_mode
         /\ old.filter_mode = new.filter_mode
         /\ (IF old.cond \in TimeConds THEN 0 ELSE old.text)
            = (IF new.cond \in TimeConds THEN 0 ELSE new.text)
  BY DEF Asks
<1>2. CASE old.cond \in NumberConds
  BY <1>1, <1>2 DEF is_same_filter_info, Kind, Converted
<1>3. CASE IsDefault(old)
  <2>1. old.cond \notin NumberConds
    BY <1>3 DEF IsDefault, NumberConds, UlongConds, TimeConds
  <2> QED
    BY <1>1, <1>3, <2>1
    DEF is_same_filter_info, Kind, IsDefault, StartsAlike, NumberConds
<1>4. CASE old.cond \notin NumberConds /\ ~IsDefault(old)
  <2>1. old.cc_string_len = "own" /\ NoPrefixes
    BY <1>4 DEF Exact
  <2>2. StartsAlike(new.text, old.text, old.cc_string_len) <=> new.text = old.text
    BY <2>1 DEF StartsAlike, NoPrefixes, Infos
  <2> QED
    BY <1>1, <1>4, <2>2 DEF is_same_filter_info, Kind, NumberConds, TimeConds
<1> QED
  BY <1>2, <1>3, <1>4

-----------------------------------------------------------------------------
(* No two conditions that an exclusion or the toolbar would have to tell   *)
(* apart, in the vector or in the table.                                   *)
Clash(x, y) ==
    /\ x.cond = y.cond
    /\ \/ x.cond = "FLT_MAIN_TYPE"
       \/ x.cond \notin TimeConds /\ Asks(x) = Asks(y)

NoClash(list) ==
    \A i, j \in DOMAIN list : Clash(list[i], list[j]) => i = j

GoodRows(rows) == \A k \in DOMAIN rows : Kind(rows[k]) /\ OnlyIncluded(rows[k])

GoodInfos(infos) ==
    \A i \in DOMAIN infos :
        /\ Kind(infos[i]) /\ Converted(infos[i]) /\ Exact(infos[i])
        /\ OnlyIncluded(infos[i])

LEMMA KeptOf ==
    ASSUME NEW S, NEW s \in Seq(S), NEW places
    PROVE  /\ AsksAll(Kept(s, places)) = {Asks(s[p]) : p \in DOMAIN s \cap places}
           /\ NoClash(s) => NoClash(Kept(s, places))
           /\ \A i \in DOMAIN Kept(s, places) :
                 \E p \in DOMAIN s \cap places : Kept(s, places)[i] = s[p]
           /\ \A p \in DOMAIN s \cap places :
                 \E i \in DOMAIN Kept(s, places) : Kept(s, places)[i] = s[p]
<1> DEFINE k == Kept(s, places)
<1>1. k \in Seq(S) /\ \E at : Selects(k, s, places, Len(s), at)
  BY KeptSelects
<1>2. DOMAIN k = 1 .. Len(k) /\ DOMAIN s = 1 .. Len(s)
  BY <1>1
<1> HIDE DEF k
<1>3. PICK at : Selects(k, s, places, Len(s), at)
  BY <1>1
<1>4. \A i \in DOMAIN k : at[i] \in DOMAIN s \cap places /\ k[i] = s[at[i]]
  BY <1>2, <1>3 DEF Selects
<1>5. \A i, j \in DOMAIN k : at[i] = at[j] => i = j
  BY <1>2, <1>3 DEF Selects
<1>6. \A p \in DOMAIN s \cap places : \E i \in DOMAIN k : at[i] = p
  BY <1>2, <1>3 DEF Selects
<1>7. AsksAll(k) = {Asks(s[p]) : p \in DOMAIN s \cap places}
  BY <1>4, <1>6 DEF AsksAll
<1>8. NoClash(s) => NoClash(k)
  BY <1>4, <1>5 DEF NoClash
<1> QED
  BY <1>4, <1>6, <1>7, <1>8 DEF k

(* The statements on the table.                                            *)
LEMMA DeletedAsks ==
    ASSUME NEW info \in Infos, Kind(info),
           cond_table \in Seq(Rows), GoodRows(cond_table), NoClash(cond_table)
    PROVE  /\ GoodRows(Deleted(info)) /\ NoClash(Deleted(info))
           /\ AsksAll(Deleted(info)) \subseteq AsksAll(cond_table)
           /\ AsksAll(cond_table) \ {Asks(info)} \subseteq AsksAll(Deleted(info))
           /\ info.cond \notin TimeConds \/ info.filter_mode = "FLT_EXCLUDE" =>
                 Asks(info) \notin AsksAll(Deleted(info))
           /\ \A k \in DOMAIN Deleted(info) : ~SameKey(Deleted(info)[k], info)
           /\ \A k \in DOMAIN Deleted(info) :
                 \E p \in DOMAIN cond_table : Deleted(info)[k] = cond_table[p]
           /\ \A k \in DOMAIN cond_table : cond_table[k].cond # info.cond =>
                 \E l \in DOMAIN Deleted(info) : Deleted(info)[l] = cond_table[k]
<1> DEFINE left == {k \in DOMAIN cond_table : ~SameKey(cond_table[k], info)}
<1>0. \A k \in DOMAIN cond_table : cond_table[k] \in Rows /\ Kind(cond_table[k])
  BY DEF GoodRows
<1>1. Deleted(info) = Kept(cond_table, left) /\ DOMAIN cond_table \cap left = left
  BY DEF Deleted
<1>2. /\ AsksAll(Deleted(info)) = {Asks(cond_table[p]) : p \in left}
      /\ NoClash(Deleted(info))
      /\ \A k \in DOMAIN Deleted(info) : \E p \in left : Deleted(info)[k] = cond_table[p]
      /\ \A p \in left : \E k \in DOMAIN Deleted(info) : Deleted(info)[k] = cond_table[p]
  <2> HIDE DEF left
  <2> DEFINE k == Kept(cond_table, left)
  <2>1. /\ AsksAll(k) = {Asks(cond_table[p]) : p \in DOMAIN cond_table \cap left}
        /\ NoClash(cond_table) => NoClash(k)
        /\ \A i \in DOMAIN k : \E p \in DOMAIN cond_table \cap left : k[i] = cond_table[p]
        /\ \A p \in DOMAIN cond_table \cap left : \E i \in DOMAIN k : k[i] = cond_table[p]
    BY KeptOf
  <2>2. k = Deleted(info)
    BY <1>1
  <2> HIDE DEF k
  <2> QED
    BY <1>1, <2>1, <2>2
<1>3. GoodRows(Deleted(info))
  BY <1>2 DEF GoodRows
<1>4. \A k \in DOMAIN Deleted(info) : ~SameKey(Deleted(info)[k], info)
  BY <1>2
<1>5. \A k \in DOMAIN cond_table :
         SameKey(cond_table[k], info) => Asks(cond_table[k]) = Asks(info)
  BY <1>0, SameKeyAsks
<1>6. AsksAll(cond_table) \ {Asks(info)} \subseteq AsksAll(Deleted(info))
  BY <1>2, <1>5 DEF AsksAll
<1>7. ASSUME info.cond \notin TimeConds \/ info.filter_mode = "FLT_EXCLUDE"
      PROVE  Asks(info) \notin AsksAll(Deleted(info))
  <2> SUFFICES ASSUME NEW p \in left, Asks(cond_table[p]) = Asks(info) PROVE FALSE
    BY <1>2
  <2>1. CASE info.cond \notin TimeConds
    BY <1>0, <2>1, SameKeyAsks
  <2>2. CASE info.cond \in TimeConds /\ info.filter_mode = "FLT_EXCLUDE"
    <3>1. cond_table[p].cond = info.cond /\ cond_table[p].filter_mode = info.filter_mode
      BY DEF Asks
    <3> QED
      BY <2>2, <3>1 DEF GoodRows, OnlyIncluded
  <2> QED
    BY <1>7, <2>1, <2>2
<1>8. ASSUME NEW k \in DOMAIN cond_table, cond_table[k].cond # info.cond
      PROVE  k \in left
  <2>1. Asks(cond_table[k]).cond # Asks(info).cond
    BY <1>8 DEF Asks
  <2> QED
    BY <1>5, <2>1
<1>9. AsksAll(Deleted(info)) \subseteq AsksAll(cond_table)
  BY <1>2 DEF AsksAll
<1> HIDE DEF left
<1>10. \A k \in DOMAIN Deleted(info) :
         \E p \in DOMAIN cond_table : Deleted(info)[k] = cond_table[p]
  BY <1>2 DEF left
<1> QED
  BY <1>2, <1>3, <1>4, <1>6, <1>7, <1>8, <1>9, <1>10

LEMMA InsertedAsks ==
    ASSUME NEW info \in Infos, Kind(info), OnlyIncluded(info),
           cond_table \in Seq(Rows), GoodRows(cond_table), NoClash(cond_table),
           info.cond = "FLT_MAIN_TYPE" =>
               \A k \in DOMAIN cond_table : cond_table[k].cond # "FLT_MAIN_TYPE"
    PROVE  /\ GoodRows(Inserted(info)) /\ NoClash(Inserted(info))
           /\ AsksAll(Inserted(info)) = AsksAll(cond_table) \cup {Asks(info)}
           /\ \A k \in DOMAIN cond_table : cond_table[k].cond # info.cond =>
                 \E l \in DOMAIN Inserted(info) : Inserted(info)[l] = cond_table[k]
           /\ \E l \in DOMAIN Inserted(info) : Inserted(info)[l] = Row(info)
           /\ \A l \in DOMAIN Inserted(info) : \/ Inserted(info)[l] = Row(info)
                 \/ \E k \in DOMAIN cond_table : Inserted(info)[l] = cond_table[k]
<1>1. PICK d \in Seq(Rows) : d = Deleted(info)
  BY DeletedTyped
<1>2. PICK n \in Nat : n = Len(d)
  OBVIOUS
<1>3. /\ DOMAIN d = 1 .. n /\ DOMAIN Inserted(info) = 1 .. n + 1
      /\ \A k \in 1 .. n : Inserted(info)[k] = d[k]
      /\ Inserted(info)[n + 1] = Row(info)
  BY <1>1, <1>2, RowTyped DEF Inserted
<1>4. \A k \in 1 .. n + 1 : k \in 1 .. n \/ k = n + 1
  BY <1>2
<1>5. n + 1 \in 1 .. n + 1 /\ \A k \in 1 .. n : k \in 1 .. n + 1
  BY <1>2
<1>6. GoodRows(Inserted(info))
  BY <1>1, <1>3, <1>4, DeletedAsks, RowAsks DEF GoodRows
<1>7. AsksAll(Inserted(info)) = AsksAll(d) \cup {Asks(info)}
  BY <1>3, <1>4, <1>5, RowAsks DEF AsksAll
<1>8. AsksAll(Inserted(info)) = AsksAll(cond_table) \cup {Asks(info)}
  BY <1>1, <1>7, DeletedAsks
<1>9. ASSUME NEW k \in 1 .. n
      PROVE  ~Clash(d[k], Row(info)) /\ ~Clash(Row(info), d[k])
  <2>1. d[k] \in Rows /\ Kind(d[k]) /\ ~SameKey(d[k], info)
    BY <1>1, <1>3, <1>9, DeletedAsks DEF GoodRows
  <2>2. info.cond = "FLT_MAIN_TYPE" => d[k].cond # "FLT_MAIN_TYPE"
    BY <1>1, <1>3, <1>9, DeletedAsks
  <2>3. info.cond \notin TimeConds => Asks(d[k]) # Asks(info)
    BY <2>1, SameKeyAsks
  <2> QED
    BY <2>2, <2>3, RowAsks DEF Clash
<1>10. NoClash(Inserted(info))
  <2> SUFFICES ASSUME NEW i \in 1 .. n + 1, NEW j \in 1 .. n + 1,
                      Clash(Inserted(info)[i], Inserted(info)[j])
               PROVE  i = j
    BY <1>3 DEF NoClash
  <2>1. CASE i \in 1 .. n /\ j \in 1 .. n
    <3>1. NoClash(d)
      BY <1>1, DeletedAsks
    <3> QED
      BY <1>3, <2>1, <3>1 DEF NoClash
  <2>2. CASE i = n + 1 /\ j \in 1 .. n
    BY <1>3, <1>9, <2>2
  <2>3. CASE i \in 1 .. n /\ j = n + 1
    BY <1>3, <1>9, <2>3
  <2> QED
    BY <1>4, <2>1, <2>2, <2>3
<1>11. ASSUME NEW k \in DOMAIN cond_table, cond_table[k].cond # info.cond
       PROVE  \E l \in DOMAIN Inserted(info) : Inserted(info)[l] = cond_table[k]
  <2>1. PICK l \in DOMAIN d : d[l] = cond_table[k]
    BY <1>1, <1>11, DeletedAsks
  <2> QED
    BY <1>3, <1>5, <2>1
<1>12. \A l \in 1 .. n : \E k \in DOMAIN cond_table : d[l] = cond_table[k]
  BY <1>1, <1>3, DeletedAsks
<1> QED
  BY <1>3, <1>4, <1>5, <1>6, <1>8, <1>10, <1>11, <1>12

(* The update of a mask, whose row is the only one of a main type.         *)
LEMMA UpdatedAsks ==
    ASSUME NEW old \in Infos, NEW new \in Infos, Kind(new), OnlyIncluded(new),
           old.cond = "FLT_MAIN_TYPE", new.cond = "FLT_MAIN_TYPE",
           cond_table \in Seq(Rows), GoodRows(cond_table), NoClash(cond_table),
           NEW place \in DOMAIN cond_table, cond_table[place] = Row(old)
    PROVE  /\ GoodRows(Updated(old, new)) /\ NoClash(Updated(old, new))
           /\ AsksAll(Updated(old, new)) =
                 (AsksAll(cond_table) \ {Asks(old)}) \cup {Asks(new)}
           /\ \E k \in DOMAIN Updated(old, new) : Updated(old, new)[k] = Row(new)
<1> DEFINE hits == {k \in DOMAIN cond_table : cond_table[k] = Row(old)}
           replaced == {k \in DOMAIN cond_table : SameKey(cond_table[k], new)}
           table == [k \in DOMAIN cond_table |->
                        IF k \in hits THEN Row(new) ELSE cond_table[k]]
           rest == DOMAIN cond_table \ (replaced \ hits)
<1>1. /\ Row(old).cond = "FLT_MAIN_TYPE" /\ Row(new).cond = "FLT_MAIN_TYPE"
      /\ Row(new) \in Rows /\ Kind(Row(new)) /\ OnlyIncluded(Row(new))
      /\ Asks(Row(old)) = Asks(old) /\ Asks(Row(new)) = Asks(new)
  BY RowAsks, RowTyped
<1>2. \A k \in DOMAIN cond_table : cond_table[k].cond = "FLT_MAIN_TYPE" => k = place
  BY <1>1 DEF NoClash, Clash
<1>3. \A k \in DOMAIN cond_table : cond_table[k] \in Rows /\ Kind(cond_table[k])
  BY DEF GoodRows
<1>4. hits = {place}
  BY <1>1, <1>2
<1>5. replaced \subseteq {place}
  <2> SUFFICES ASSUME NEW k \in replaced PROVE k = place
    OBVIOUS
  <2>1. Asks(cond_table[k]).cond = Asks(new).cond
    BY <1>3, SameKeyAsks
  <2> QED
    BY <1>2, <2>1 DEF Asks
<1>6. rest = DOMAIN cond_table
  BY <1>4, <1>5
<1>7. /\ table \in Seq(Rows) /\ DOMAIN table = DOMAIN cond_table
      /\ \A k \in DOMAIN cond_table :
            table[k] = IF k = place THEN Row(new) ELSE cond_table[k]
  BY <1>1, <1>3, <1>4
<1>8. Updated(old, new) = Kept(table, rest)
  BY <1>4 DEF Updated
<1> HIDE DEF hits, replaced, table, rest
<1>9. NoClash(table)
  <2> SUFFICES ASSUME NEW i \in DOMAIN cond_table, NEW j \in DOMAIN cond_table,
                      Clash(table[i], table[j])
               PROVE  i = j
    BY <1>7 DEF NoClash
  <2>1. CASE i = place \/ j = place
    <3>1. table[i].cond = "FLT_MAIN_TYPE" /\ table[j].cond = "FLT_MAIN_TYPE"
      BY <1>1, <1>7, <2>1 DEF Clash
    <3> QED
      BY <1>2, <1>7, <3>1
  <2>2. CASE i # place /\ j # place
    BY <1>7, <2>2 DEF NoClash
  <2> QED
    BY <2>1, <2>2
<1> DEFINE u == Kept(table, rest)
<1>10. /\ AsksAll(u) = {Asks(table[p]) : p \in DOMAIN table \cap rest}
       /\ NoClash(u)
       /\ \A i \in DOMAIN u : \E p \in DOMAIN table \cap rest : u[i] = table[p]
       /\ \A p \in DOMAIN table \cap rest : \E i \in DOMAIN u : u[i] = table[p]
  BY <1>7, <1>9, KeptOf
<1> HIDE DEF u
<1>11. GoodRows(u)
  <2> SUFFICES ASSUME NEW i \in DOMAIN u PROVE Kind(u[i]) /\ OnlyIncluded(u[i])
    BY DEF GoodRows
  <2>1. PICK p \in DOMAIN cond_table : u[i] = table[p]
    BY <1>7, <1>10
  <2> QED
    BY <1>1, <1>7, <2>1 DEF GoodRows
<1>12. AsksAll(u) = {Asks(table[p]) : p \in DOMAIN cond_table}
  BY <1>6, <1>7, <1>10
<1>13. \A p \in DOMAIN cond_table :
          Asks(cond_table[p]) = Asks(old) => p = place
  <2> SUFFICES ASSUME NEW p \in DOMAIN cond_table, Asks(cond_table[p]) = Asks(old)
               PROVE  p = place
    OBVIOUS
  <2>1. cond_table[p].cond = old.cond
    BY DEF Asks
  <2> QED
    BY <1>2, <2>1
<1>14. AsksAll(u) = (AsksAll(cond_table) \ {Asks(old)}) \cup {Asks(new)}
  <2>1. \A p \in DOMAIN cond_table :
           Asks(table[p]) = IF p = place THEN Asks(new) ELSE Asks(cond_table[p])
    BY <1>1, <1>7
  <2>2. Asks(cond_table[place]) = Asks(old)
    BY <1>1
  <2> QED
    BY <1>12, <1>13, <2>1, <2>2 DEF AsksAll
<1>15. \E k \in DOMAIN u : u[k] = Row(new)
  BY <1>6, <1>7, <1>10
<1> QED
  BY <1>8, <1>10, <1>11, <1>14, <1>15 DEF u

(* The loop that erases: there is no second condition of the same, so that *)
(* the one it does not look at is another.                                 *)
LEMMA ErasedAsks ==
    ASSUME NEW info \in Infos, Kind(info), Converted(info),
           info.cond \notin TimeConds \/ info.filter_mode = "FLT_EXCLUDE",
           filter_infos \in Seq(Infos), GoodInfos(filter_infos), NoClash(filter_infos)
    PROVE  /\ GoodInfos(Erased(info)) /\ NoClash(Erased(info))
           /\ AsksAll(Erased(info)) = AsksAll(filter_infos) \ {Asks(info)}
           /\ \A i \in DOMAIN Erased(info) :
                 \E p \in DOMAIN filter_infos : Erased(info)[i] = filter_infos[p]
<1> DEFINE rest == DOMAIN filter_infos \ ErasedPlaces(info)
           e == Kept(filter_infos, rest)
<1>0. DOMAIN filter_infos = 1 .. Len(filter_infos) /\ Len(filter_infos) \in Nat
  OBVIOUS
<1>1. \A i \in DOMAIN filter_infos :
         is_same_filter_info(filter_infos[i], info) <=> Asks(filter_infos[i]) = Asks(info)
  BY SameInfoAsks DEF GoodInfos
<1>2. \A i, j \in DOMAIN filter_infos :
         Asks(filter_infos[i]) = Asks(info) /\ Asks(filter_infos[j]) = Asks(info) => i = j
  <2> SUFFICES ASSUME NEW i \in DOMAIN filter_infos, NEW j \in DOMAIN filter_infos,
                      Asks(filter_infos[i]) = Asks(info), Asks(filter_infos[j]) = Asks(info)
               PROVE  i = j
    OBVIOUS
  <2>1. /\ filter_infos[i].cond = info.cond /\ filter_infos[j].cond = info.cond
        /\ filter_infos[i].filter_mode = info.filter_mode
    BY DEF Asks
  <2>2. info.cond \notin TimeConds
    BY <2>1 DEF GoodInfos, OnlyIncluded
  <2> QED
    BY <2>1, <2>2 DEF NoClash, Clash
<1>3. \A i \in DOMAIN filter_infos :
         i \in ErasedPlaces(info) <=> Asks(filter_infos[i]) = Asks(info)
  <2> SUFFICES ASSUME NEW i \in DOMAIN filter_infos
               PROVE  i \in ErasedPlaces(info) <=> Asks(filter_infos[i]) = Asks(info)
    OBVIOUS
  <2>1. i \in ErasedPlaces(info) => Asks(filter_infos[i]) = Asks(info)
    <3> SUFFICES ASSUME i \in ErasedPlaces(info)
                 PROVE  is_same_filter_info(filter_infos[i], info)
      BY <1>1
    <3>1. PICK first \in 1 .. i :
             \A j \in first .. i : is_same_filter_info(filter_infos[j], info)
      BY DEF ErasedPlaces
    <3>2. i \in first .. i
      BY <1>0, <3>1
    <3> QED
      BY <3>1, <3>2
  <2>2. ASSUME Asks(filter_infos[i]) = Asks(info) PROVE i \in ErasedPlaces(info)
    <3>1. i \in 1 .. i /\ i - i = 0 /\ 0 % 2 = 0
      BY <1>0
    <3>2. \A j \in i .. i : is_same_filter_info(filter_infos[j], info)
      <4>1. \A j \in i .. i : j = i
        BY <1>0
      <4> QED
        BY <1>1, <2>2, <4>1
    <3>3. ASSUME i > 1 PROVE ~is_same_filter_info(filter_infos[i - 1], info)
      <4>1. i - 1 \in DOMAIN filter_infos /\ i - 1 # i
        BY <1>0, <3>3
      <4> QED
        BY <1>1, <1>2, <2>2, <4>1
    <3> QED
      BY <3>1, <3>2, <3>3 DEF ErasedPlaces
  <2> QED
    BY <2>1, <2>2
<1>4. Erased(info) = e
  BY DEF Erased
<1>5. DOMAIN filter_infos \cap rest = rest
  OBVIOUS
<1> HIDE DEF rest
<1>6. /\ AsksAll(e) = {Asks(filter_infos[p]) : p \in DOMAIN filter_infos \cap rest}
      /\ NoClash(filter_infos) => NoClash(e)
      /\ \A i \in DOMAIN e : \E p \in DOMAIN filter_infos \cap rest : e[i] = filter_infos[p]
  BY KeptOf
<1> HIDE DEF e
<1>7. \A i \in DOMAIN e : \E p \in DOMAIN filter_infos : e[i] = filter_infos[p]
  BY <1>6
<1>8. GoodInfos(e)
  BY <1>7 DEF GoodInfos
<1>9. AsksAll(e) = AsksAll(filter_infos) \ {Asks(info)}
  BY <1>3, <1>5, <1>6 DEF AsksAll, rest
<1> QED
  BY <1>4, <1>6, <1>7, <1>8, <1>9

(* What a start loads.                                                     *)
LEMMA LoadedTableAsks ==
    ASSUME cond_table \in Seq(Rows), GoodRows(cond_table), NoClash(cond_table),
           \A k \in DOMAIN cond_table :
              cond_table[k].cond \in NumberConds \/ IsDefault(cond_table[k]),
           NEW infos \in LoadedTable(cond_table)
    PROVE  /\ GoodInfos(infos) /\ NoClash(infos)
           /\ AsksAll(infos) = AsksAll(cond_table)
           /\ DOMAIN infos = DOMAIN cond_table
           /\ \A i \in DOMAIN cond_table : Row(infos[i]) = cond_table[i]
<1>1. PICK lens \in [DOMAIN cond_table -> Lengths] :
         infos = [k \in DOMAIN cond_table |-> Loaded(cond_table[k], lens[k])]
  BY DEF LoadedTable
<1>2. ASSUME NEW k \in DOMAIN cond_table
      PROVE  /\ Asks(infos[k]) = Asks(cond_table[k])
             /\ infos[k].cond = cond_table[k].cond
             /\ Kind(infos[k]) /\ Converted(infos[k]) /\ Exact(infos[k])
             /\ OnlyIncluded(infos[k])
             /\ Row(infos[k]) = cond_table[k]
  <2>1. infos[k] = Loaded(cond_table[k], lens[k]) /\ lens[k] \in Lengths
    BY <1>1
  <2>2. cond_table[k] \in Rows /\ Kind(cond_table[k]) /\ OnlyIncluded(cond_table[k])
    BY DEF GoodRows
  <2> QED
    BY <2>1, <2>2, LoadedAsks
<1>3. DOMAIN infos = DOMAIN cond_table
  BY <1>1
<1>4. NoClash(infos)
  BY <1>2, <1>3 DEF NoClash, Clash
<1>5. AsksAll(infos) = AsksAll(cond_table)
  BY <1>2, <1>3 DEF AsksAll
<1> QED
  BY <1>2, <1>3, <1>4, <1>5 DEF GoodInfos

-----------------------------------------------------------------------------
(* The commands and conditions that the table keeps and that               *)
(* is_same_filter_info tells apart:                                        *)
(*   - not the process under the mouse, whose number changes and whose     *)
(*     text, which the table keeps, does not;                              *)
(*   - times and main types by their own commands only, and no times where *)
(*     conditions are deleted one by one, because all times are the same;  *)
(*   - in the dialog only strings, because it does not convert numbers,    *)
(*     and not where they meet the default condition, whose length is left *)
(*     as it was on the stack;                                             *)
(*   - strings only where they are not loaded again, for the same reason,  *)
(*     and where none starts another.                                      *)
ToldApart ==
    /\ FilterCommands \subseteq {"include", "exclude", "time", "main_type",
          "dialog_add", "dialog_delete", "restore", "reset", "restart"}
    /\ MenuConds \cap (TimeConds \cup {"FLT_MAIN_TYPE"}) = {}
    /\ DialogConds \subseteq TextConds \ {"FLT_PROCESS_NAME"}
    /\ "time" \notin FilterCommands \/ "dialog_delete" \notin FilterCommands
    /\ \/ "restart" \notin FilterCommands /\ NoPrefixes
       \/ MenuConds \subseteq NumberConds /\ DialogConds = {}

(* How far the command is with the two lists, and what it works with.      *)
InStep ==
    /\ step \in {"idle", "delete", "insert", "insert_new", "delete_one"} =>
          AsksAll(cond_table) = AsksAll(filter_infos)
    /\ step = "erase" =>
          AsksAll(cond_table) = AsksAll(filter_infos) \ {Asks(Opposite(filter_info))}
    /\ step \in {"push", "push_new"} =>
          AsksAll(cond_table) = AsksAll(filter_infos) \cup {Asks(filter_info)}
    /\ step = "update" =>
          AsksAll(cond_table) =
             (AsksAll(filter_infos) \ {Asks(filter_infos[selected])})
                \cup {Asks(filter_info)}
    /\ step = "erase_one" =>
          AsksAll(cond_table) = AsksAll(filter_infos) \ {Asks(filter_info)}
    /\ step = "release" => cond_table = <<>>

InProgress ==
    /\ filter_info # NoInfo =>
          /\ Kind(filter_info) /\ Converted(filter_info) /\ Exact(filter_info)
          /\ OnlyIncluded(filter_info)
    /\ step \in {"delete", "erase", "insert", "push"} =>
          filter_info.cond # "FLT_MAIN_TYPE"
    /\ step \in {"insert_new", "push_new"} =>
          /\ filter_info.cond = "FLT_MAIN_TYPE"
          /\ \A i \in DOMAIN filter_infos : filter_infos[i].cond # "FLT_MAIN_TYPE"
    /\ step = "update" =>
          /\ filter_info.cond = "FLT_MAIN_TYPE"
          /\ filter_infos[selected].cond = "FLT_MAIN_TYPE"
    /\ step \in {"push_new", "update"} =>
          \E k \in DOMAIN cond_table : cond_table[k] = Row(filter_info)
    /\ step \in {"delete_one", "erase_one"} =>
          /\ filter_info = filter_infos[selected]
          /\ filter_info.cond \notin TimeConds

(* The mask of the toolbar has its row, colour included, which the update  *)
(* looks for, unless it is being deleted.                                  *)
MaskStored ==
    step \notin {"update", "release"} =>
        \A i \in DOMAIN filter_infos :
            filter_infos[i].cond = "FLT_MAIN_TYPE"
            /\ ~(step = "erase_one" /\ i = selected) =>
            \E k \in DOMAIN cond_table : cond_table[k] = Row(filter_infos[i])

(* An exclusion of the menu has taken the inclusion back before it enters  *)
(* itself.                                                                 *)
TakenBack ==
    step \in {"insert", "push"} /\ IsMenuExclusion(filter_info) =>
        Asks(Opposite(filter_info)) \notin AsksAll(filter_infos) \cup AsksAll(cond_table)

Lists ==
    /\ GoodInfos(filter_infos) /\ NoClash(filter_infos)
    /\ GoodRows(cond_table) /\ NoClash(cond_table)

SyncInv == Lists /\ InStep /\ InProgress /\ MaskStored /\ TakenBack

LEMMA InfoMade ==
    ASSUME NEW cond, NEW compare_mode, NEW filter_mode, NEW text, NEW bk_clr,
           cond \in NumberConds \/
              /\ cond \in TextConds /\ compare_mode = "FLT_EQUALS"
              /\ "restart" \notin FilterCommands /\ NoPrefixes,
           cond \in TimeConds => "time" \in FilterCommands,
           cond \in TimeConds \cup {"FLT_MAIN_TYPE"} => filter_mode = "FLT_INCLUDE",
           NEW info, info = Info(cond, compare_mode, filter_mode, text, bk_clr)
    PROVE  /\ Kind(info) /\ Converted(info) /\ Exact(info) /\ OnlyIncluded(info)
           /\ info.cond = cond /\ info.filter_mode = filter_mode
           /\ info.bk_clr = bk_clr
<1>1. /\ info.cond = cond /\ info.filter_mode = filter_mode /\ info.bk_clr = bk_clr
      /\ info.compare_mode = compare_mode /\ info.text = text
      /\ info.cc_string_len = "own"
      /\ info.type = IF cond \in NumberConds THEN "number" ELSE "STRING_VALUE_TYPE"
      /\ cond \in NumberConds =>
            info.data = IF cond \in TimeConds THEN 0 ELSE text
  BY DEF Info, Adjusted, TimeConds
<1>2. "FLT_PROCESS_NAME" \notin NumberConds
  BY DEF NumberConds, UlongConds, TimeConds
<1> QED
  BY <1>1, <1>2 DEF Kind, IsDefault, Converted, Exact, OnlyIncluded

LEMMA DialogMade ==
    ASSUME NEW cond \in TextConds \ {"FLT_PROCESS_NAME"}, NEW compare_mode,
           NEW filter_mode, NEW text, "restart" \notin FilterCommands, NoPrefixes,
           NEW info, info = DialogInfo(cond, compare_mode, filter_mode, text)
    PROVE  /\ Kind(info) /\ Converted(info) /\ Exact(info) /\ OnlyIncluded(info)
           /\ info.cond = cond /\ info.bk_clr = "none"
           /\ cond \notin TimeConds \cup {"FLT_MAIN_TYPE"}
<1>1. /\ cond \notin NumberConds /\ cond \notin TimeConds /\ cond # "FLT_MAIN_TYPE"
  BY DEF TextConds, StringConds, NumberConds, UlongConds, TimeConds
<1>2. /\ info.cond = cond /\ info.bk_clr = "none" /\ info.cc_string_len = "own"
      /\ info.type = "STRING_VALUE_TYPE"
  BY <1>1 DEF DialogInfo, Info, Adjusted
<1> QED
  BY <1>1, <1>2 DEF Kind, IsDefault, Converted, Exact, OnlyIncluded

LEMMA DefaultMade ==
    /\ Kind(DefaultInfo) /\ Converted(DefaultInfo) /\ OnlyIncluded(DefaultInfo)
    /\ IsDefault(DefaultInfo) /\ Exact(DefaultInfo)
    /\ DefaultInfo.cond = "FLT_PROCESS_NAME" /\ DefaultInfo.bk_clr = "none"
<1>1. "FLT_PROCESS_NAME" \notin NumberConds
  BY DEF NumberConds, UlongConds, TimeConds
<1>2. /\ DefaultInfo.cond = "FLT_PROCESS_NAME" /\ DefaultInfo.bk_clr = "none"
      /\ DefaultInfo.compare_mode = "FLT_CONTAINS" /\ DefaultInfo.text = DefaultText
      /\ DefaultInfo.type = "STRING_VALUE_TYPE"
  BY <1>1 DEF DefaultInfo, Info, Adjusted
<1> QED
  BY <1>1, <1>2 DEF Kind, IsDefault, Converted, Exact, OnlyIncluded, TimeConds

LEMMA InitSync == Init => SyncInv
<1> SUFFICES ASSUME Init PROVE SyncInv
  OBVIOUS
<1>1. /\ cond_table \in Seq(Rows) /\ DOMAIN cond_table = {1}
      /\ cond_table[1] = Row(DefaultInfo)
  BY DefaultTyped, RowTyped DEF Init
<1>2. GoodRows(cond_table) /\ NoClash(cond_table)
  BY <1>1, DefaultTyped, DefaultMade, RowAsks DEF GoodRows, NoClash
<1>6. \A k \in DOMAIN cond_table : IsDefault(cond_table[k])
  BY <1>1, DefaultMade DEF IsDefault, Row
<1>3. filter_infos \in LoadedTable(cond_table)
  BY DEF Init
<1>4. /\ GoodInfos(filter_infos) /\ NoClash(filter_infos)
      /\ AsksAll(filter_infos) = AsksAll(cond_table)
      /\ DOMAIN filter_infos = DOMAIN cond_table
      /\ \A i \in DOMAIN cond_table : Row(filter_infos[i]) = cond_table[i]
  BY <1>1, <1>2, <1>3, <1>6, LoadedTableAsks
<1>5. step = "idle" /\ filter_info = NoInfo
  BY DEF Init
<1> QED
  BY <1>2, <1>4, <1>5 DEF SyncInv, Lists, InStep, InProgress, MaskStored, TakenBack

(* A command that only chooses its condition.                              *)
LEMMA BeginSync ==
    ASSUME TypeInv, SyncInv, step = "idle", UNCHANGED <<filter_infos, cond_table>>,
           NEW first \in {"delete", "insert", "insert_new"}, NEW info \in Infos,
           Begin(first, info, 0),
           Kind(info), Converted(info), Exact(info), OnlyIncluded(info),
           first = "insert" => ~IsMenuExclusion(info),
           first # "insert_new" => info.cond # "FLT_MAIN_TYPE",
           first = "insert_new" =>
              /\ info.cond = "FLT_MAIN_TYPE"
              /\ \A i \in DOMAIN filter_infos : filter_infos[i].cond # "FLT_MAIN_TYPE"
    PROVE  SyncInv'
<1>1. step' = first /\ filter_info' = info
  BY DEF Begin
<1>2. InStep' /\ Lists' /\ MaskStored'
  BY <1>1 DEF SyncInv, Lists, InStep, MaskStored
<1>3. InProgress' /\ TakenBack'
  BY <1>1 DEF InProgress, TakenBack
<1> QED
  BY <1>2, <1>3 DEF SyncInv

LEMMA NoMask ==
    ASSUME SyncInv, MainTypes = {}
    PROVE  \A i \in DOMAIN filter_infos : filter_infos[i].cond # "FLT_MAIN_TYPE"
  BY DEF SyncInv, Lists, GoodInfos, OnlyIncluded, MainTypes, IsMainType

LEMMA ToolbarEditSync ==
    ASSUME TypeInv, SyncInv, NEW text \in Texts, ToolbarEdit(text)
    PROVE  SyncInv'
<1>1. PICK place \in MainTypes :
         /\ filter_infos' = [filter_infos EXCEPT ![place] =
               Info("FLT_MAIN_TYPE", "FLT_CONTAINS", "FLT_INCLUDE", text,
                    filter_infos[place].bk_clr)]
         /\ Begin("update", filter_infos[place], place)
  BY DEF ToolbarEdit
<1>2. PICK new : new = Info("FLT_MAIN_TYPE", "FLT_CONTAINS", "FLT_INCLUDE", text,
                            filter_infos[place].bk_clr)
  OBVIOUS
<1>3. "FLT_MAIN_TYPE" \in NumberConds
  BY DEF NumberConds, UlongConds
<1>4. /\ Kind(new) /\ Converted(new) /\ Exact(new) /\ OnlyIncluded(new)
      /\ new.cond = "FLT_MAIN_TYPE"
  BY <1>2, <1>3, InfoMade DEF TimeConds
<1>5. /\ place \in DOMAIN filter_infos /\ filter_infos[place].cond = "FLT_MAIN_TYPE"
      /\ filter_infos[place] \in Infos
  BY DEF MainTypes, IsMainType, TypeInv, TypeOK
<1>6. /\ DOMAIN filter_infos' = DOMAIN filter_infos
      /\ filter_infos'[place] = new
      /\ \A i \in DOMAIN filter_infos : i # place => filter_infos'[i] = filter_infos[i]
  BY <1>1, <1>2, <1>5
<1>7. \A i \in DOMAIN filter_infos : filter_infos[i].cond = "FLT_MAIN_TYPE" => i = place
  BY <1>5 DEF SyncInv, Lists, NoClash, Clash
<1>8. /\ step = "idle" /\ step' = "update" /\ filter_info' = filter_infos[place]
      /\ selected' = place /\ cond_table' = cond_table
  BY <1>1 DEF ToolbarEdit, Command, Begin
<1>9. GoodInfos(filter_infos')
  BY <1>4, <1>6 DEF SyncInv, Lists, GoodInfos
<1>10. NoClash(filter_infos')
  <2> SUFFICES ASSUME NEW i \in DOMAIN filter_infos, NEW j \in DOMAIN filter_infos,
                      Clash(filter_infos'[i], filter_infos'[j])
               PROVE  i = j
    BY <1>6 DEF NoClash
  <2>1. CASE i = place \/ j = place
    <3>1. filter_infos'[i].cond = "FLT_MAIN_TYPE" /\ filter_infos'[j].cond = "FLT_MAIN_TYPE"
      BY <1>4, <1>6, <2>1 DEF Clash
    <3> QED
      BY <1>6, <1>7, <3>1
  <2>2. CASE i # place /\ j # place
    BY <1>6, <2>2 DEF SyncInv, Lists, NoClash
  <2> QED
    BY <2>1, <2>2
<1>11. \A i \in DOMAIN filter_infos :
          i # place => /\ Asks(filter_infos[i]) # Asks(new)
                       /\ Asks(filter_infos[i]) # Asks(filter_infos[place])
  <2> SUFFICES ASSUME NEW i \in DOMAIN filter_infos, i # place
               PROVE  Asks(filter_infos[i]).cond # "FLT_MAIN_TYPE"
    BY <1>4, <1>5 DEF Asks
  <2> QED
    BY <1>7 DEF Asks
<1>12. AsksAll(filter_infos) =
          (AsksAll(filter_infos') \ {Asks(new)}) \cup {Asks(filter_infos[place])}
  BY <1>5, <1>6, <1>11 DEF AsksAll
<1>13. InStep'
  BY <1>6, <1>8, <1>12 DEF SyncInv, InStep
<1>14. InProgress'
  <2>1. \E k \in DOMAIN cond_table : cond_table[k] = Row(filter_infos[place])
    BY <1>5, <1>8 DEF SyncInv, MaskStored
  <2> QED
    BY <1>4, <1>5, <1>6, <1>8, <2>1 DEF SyncInv, Lists, GoodInfos, InProgress
<1> QED
  BY <1>8, <1>9, <1>10, <1>13, <1>14 DEF SyncInv, Lists, MaskStored, TakenBack

LEMMA UserSync ==
    ASSUME ToldApart, TypeInv, SyncInv, UserCommand
    PROVE  SyncInv'
<1>0. /\ "FLT_DATE_TIME" \in NumberConds /\ "FLT_MAIN_TYPE" \in NumberConds
      /\ "FLT_DATE_TIME" # "FLT_MAIN_TYPE"
  BY DEF NumberConds, UlongConds, TimeConds
<1>8. ASSUME NEW cond \in MenuConds
      PROVE  /\ cond \in NumberConds \cup TextConds
             /\ cond \notin TimeConds \cup {"FLT_MAIN_TYPE"}
             /\ \/ cond \in NumberConds
                \/ /\ cond \in TextConds
                   /\ "restart" \notin FilterCommands /\ NoPrefixes
  BY CondsAssumption DEF ToldApart
<1>1. ASSUME NEW cond \in MenuConds, NEW text \in Texts, MenuInclude(cond, text)
      PROVE  SyncInv'
  <2>1. PICK info : info = Info(cond, "FLT_EQUALS", "FLT_INCLUDE", text, "event")
    OBVIOUS
  <2>2. /\ Kind(info) /\ Converted(info) /\ Exact(info) /\ OnlyIncluded(info)
        /\ info.cond = cond /\ info.filter_mode = "FLT_INCLUDE"
    BY <1>8, <2>1, InfoMade
  <2>3. info \in Infos /\ ~IsMenuExclusion(info)
    BY <1>8, <2>1, <2>2, InfoTyped DEF IsMenuExclusion
  <2> QED
    BY <1>1, <1>8, <2>1, <2>2, <2>3, BeginSync DEF MenuInclude, Command
<1>2. ASSUME NEW cond \in MenuConds, NEW text \in Texts, MenuExclude(cond, text)
      PROVE  SyncInv'
  <2>1. PICK info : info = Info(cond, "FLT_EQUALS", "FLT_EXCLUDE", text, "event")
    OBVIOUS
  <2>2. /\ Kind(info) /\ Converted(info) /\ Exact(info) /\ OnlyIncluded(info)
        /\ info.cond = cond
    BY <1>8, <2>1, InfoMade
  <2>3. info \in Infos
    BY <1>8, <2>1, InfoTyped
  <2> QED
    BY <1>2, <1>8, <2>1, <2>2, <2>3, BeginSync DEF MenuExclude, Command
<1>3. ASSUME NEW compare_mode \in {"FLT_START_WITH", "FLT_END_WITH"},
             NEW text \in Texts, MenuTime(compare_mode, text)
      PROVE  SyncInv'
  <2>1. PICK info : info = Info("FLT_DATE_TIME", compare_mode, "FLT_INCLUDE", text, "event")
    OBVIOUS
  <2>2. info \in Infos
    BY <1>0, <2>1, InfoTyped
  <2> QED
    BY <1>0, <1>3, <2>1, <2>2, InfoMade, BeginSync DEF MenuTime, Command
<1>4. ASSUME NEW text \in Texts, ToolbarAdd(text)
      PROVE  SyncInv'
  <2>1. PICK info : info = Info("FLT_MAIN_TYPE", "FLT_CONTAINS", "FLT_INCLUDE", text, "none")
    OBVIOUS
  <2>2. info \in Infos
    BY <1>0, <2>1, InfoTyped
  <2> QED
    BY <1>0, <1>4, <2>1, <2>2, InfoMade, NoMask, BeginSync DEF ToolbarAdd, Command, TimeConds
<1>5. CASE DialogRestore
  BY <1>5, DefaultTyped, DefaultMade, BeginSync
  DEF DialogRestore, Command, IsMenuExclusion
<1>6. CASE DialogReset
  <2>1. /\ cond_table' = <<>> /\ step' = "release" /\ filter_info' = NoInfo
        /\ UNCHANGED filter_infos
    BY <1>6 DEF DialogReset, Begin
  <2>2. GoodRows(cond_table') /\ NoClash(cond_table')
    BY <2>1 DEF GoodRows, NoClash
  <2> QED
    BY <2>1, <2>2 DEF SyncInv, Lists, InStep, InProgress, MaskStored, TakenBack
<1>7. \A text : ~FocusProcess(text) /\ ~FocusNewProcess(text)
  BY DEF ToldApart, FocusProcess, FocusNewProcess, Command
<1>9. ASSUME NEW cond \in DialogConds, NEW text \in Texts,
             NEW compare_mode \in {"FLT_CONTAINS", "FLT_EQUALS"},
             NEW filter_mode \in {"FLT_INCLUDE", "FLT_EXCLUDE"},
             DialogAdd(cond, compare_mode, filter_mode, text)
      PROVE  SyncInv'
  <2>1. PICK info : info = DialogInfo(cond, compare_mode, filter_mode, text)
    OBVIOUS
  <2>2. /\ cond \in TextConds \ {"FLT_PROCESS_NAME"}
        /\ "restart" \notin FilterCommands /\ NoPrefixes
    BY DEF ToldApart
  <2>3. /\ Kind(info) /\ Converted(info) /\ Exact(info) /\ OnlyIncluded(info)
        /\ info.cond # "FLT_MAIN_TYPE" /\ ~IsMenuExclusion(info)
    BY <2>1, <2>2, DialogMade DEF IsMenuExclusion
  <2>4. info \in Infos
    BY <2>1, <2>2, InfoTyped
  <2> QED
    BY <1>9, <2>1, <2>3, <2>4, BeginSync DEF DialogAdd, Command
<1>10. ASSUME NEW i \in DOMAIN filter_infos, DialogDelete(i) PROVE SyncInv'
  <2>1. PICK info \in Infos : info = filter_infos[i]
    BY DEF TypeInv, TypeOK
  <2>2. /\ step = "idle" /\ step' = "delete_one" /\ filter_info' = info /\ selected' = i
        /\ UNCHANGED <<filter_infos, cond_table>>
    BY <1>10, <2>1 DEF DialogDelete, Begin
  <2>3. Kind(info) /\ Converted(info) /\ Exact(info) /\ OnlyIncluded(info)
    BY <2>1 DEF SyncInv, Lists, GoodInfos
  <2>4. info.cond \notin TimeConds
    BY <1>10, <2>3 DEF Kind, DialogDelete, ToldApart
  <2>5. InProgress'
    BY <2>1, <2>2, <2>3, <2>4 DEF InProgress
  <2> QED
    BY <2>2, <2>5 DEF SyncInv, Lists, InStep, MaskStored, TakenBack
<1> QED
  BY <1>1, <1>2, <1>3, <1>4, <1>5, <1>6, <1>7, <1>9, <1>10, ToolbarEditSync
  DEF UserCommand

LEMMA DeleteRowSync ==
    ASSUME TypeInv, SyncInv, DeleteRow
    PROVE  SyncInv'
<1>1. PICK info \in Infos : info = filter_info
  BY DEF DeleteRow, TypeInv, TypeOK
<1>2. /\ Kind(info) /\ Converted(info) /\ Exact(info) /\ OnlyIncluded(info)
      /\ info.cond # "FLT_MAIN_TYPE"
  BY <1>1, RowTyped DEF SyncInv, InProgress, DeleteRow
<1>3. PICK other \in Infos : other = Opposite(info)
  BY RowTyped
<1>4. /\ Kind(other) /\ other.cond = info.cond
      /\ other.cond \notin TimeConds \/ other.filter_mode = "FLT_EXCLUDE"
  <2>1. other.filter_mode # info.filter_mode /\ Kind(other) /\ other.cond = info.cond
    BY <1>2, <1>3, OppositeAsks
  <2>2. other.filter_mode \in {"FLT_INCLUDE", "FLT_EXCLUDE"}
    BY DEF Infos
  <2> QED
    BY <1>2, <2>1, <2>2 DEF OnlyIncluded
<1>5. /\ cond_table \in Seq(Rows) /\ GoodRows(cond_table) /\ NoClash(cond_table)
      /\ AsksAll(cond_table) = AsksAll(filter_infos)
  BY DEF TypeInv, TypeOK, SyncInv, Lists, InStep, DeleteRow
<1>6. /\ cond_table' = Deleted(other) /\ step = "delete" /\ step' = "erase"
      /\ filter_info' = info /\ UNCHANGED filter_infos
  BY <1>1, <1>3 DEF DeleteRow, Begin
<1>7. /\ GoodRows(cond_table') /\ NoClash(cond_table')
      /\ AsksAll(cond_table') = AsksAll(filter_infos) \ {Asks(other)}
      /\ \A k \in DOMAIN cond_table : cond_table[k].cond # other.cond =>
            \E l \in DOMAIN cond_table' : cond_table'[l] = cond_table[k]
  BY <1>4, <1>5, <1>6, DeletedAsks
<1>8. MaskStored'
  <2> SUFFICES ASSUME NEW i \in DOMAIN filter_infos, filter_infos[i].cond = "FLT_MAIN_TYPE"
               PROVE  \E l \in DOMAIN cond_table' : cond_table'[l] = Row(filter_infos[i])
    BY <1>6 DEF MaskStored
  <2>1. PICK k \in DOMAIN cond_table : cond_table[k] = Row(filter_infos[i])
    BY <1>6 DEF SyncInv, MaskStored
  <2>2. cond_table[k].cond = "FLT_MAIN_TYPE"
    BY <2>1, RowAsks DEF TypeInv, TypeOK
  <2> QED
    BY <1>2, <1>4, <1>7, <2>1, <2>2
<1>9. InStep'
  BY <1>3, <1>6, <1>7 DEF InStep
<1>10. InProgress'
  BY <1>2, <1>6 DEF InProgress
<1> QED
  BY <1>6, <1>7, <1>8, <1>9, <1>10 DEF SyncInv, Lists, TakenBack

LEMMA EraseInfosSync ==
    ASSUME TypeInv, SyncInv, EraseInfos
    PROVE  SyncInv'
<1>1. PICK info \in Infos : info = filter_info
  BY DEF EraseInfos, TypeInv, TypeOK
<1>2. /\ Kind(info) /\ Converted(info) /\ Exact(info) /\ OnlyIncluded(info)
      /\ info.cond # "FLT_MAIN_TYPE"
  BY <1>1, RowTyped DEF SyncInv, InProgress, EraseInfos
<1>3. PICK other \in Infos : other = Opposite(info)
  BY RowTyped
<1>4. /\ Kind(other) /\ Converted(other)
      /\ other.cond \notin TimeConds \/ other.filter_mode = "FLT_EXCLUDE"
  <2>1. /\ other.filter_mode # info.filter_mode /\ Kind(other) /\ Converted(other)
        /\ other.cond = info.cond
    BY <1>2, <1>3, OppositeAsks
  <2>2. other.filter_mode \in {"FLT_INCLUDE", "FLT_EXCLUDE"}
    BY DEF Infos
  <2> QED
    BY <1>2, <2>1, <2>2 DEF OnlyIncluded
<1>5. /\ filter_infos \in Seq(Infos) /\ GoodInfos(filter_infos) /\ NoClash(filter_infos)
      /\ AsksAll(cond_table) = AsksAll(filter_infos) \ {Asks(other)}
  BY <1>1, <1>3 DEF TypeInv, TypeOK, SyncInv, Lists, InStep, EraseInfos
<1>6. /\ filter_infos' = Erased(other) /\ step = "erase" /\ step' = "insert"
      /\ filter_info' = info /\ UNCHANGED cond_table
  BY <1>1, <1>3 DEF EraseInfos, Begin
<1>7. /\ GoodInfos(filter_infos') /\ NoClash(filter_infos')
      /\ AsksAll(filter_infos') = AsksAll(filter_infos) \ {Asks(other)}
      /\ \A i \in DOMAIN filter_infos' :
            \E p \in DOMAIN filter_infos : filter_infos'[i] = filter_infos[p]
  BY <1>4, <1>5, <1>6, ErasedAsks
<1>8. MaskStored'
  <2> SUFFICES ASSUME NEW i \in DOMAIN filter_infos', filter_infos'[i].cond = "FLT_MAIN_TYPE"
               PROVE  \E k \in DOMAIN cond_table : cond_table[k] = Row(filter_infos'[i])
    BY <1>6 DEF MaskStored
  <2>1. PICK p \in DOMAIN filter_infos : filter_infos'[i] = filter_infos[p]
    BY <1>7
  <2> QED
    BY <1>6, <2>1 DEF SyncInv, MaskStored
<1>9. InStep' /\ TakenBack'
  BY <1>3, <1>5, <1>6, <1>7 DEF InStep, TakenBack
<1>10. InProgress'
  BY <1>2, <1>6 DEF InProgress
<1> QED
  BY <1>6, <1>7, <1>8, <1>9, <1>10 DEF SyncInv, Lists

LEMMA InsertSync ==
    ASSUME TypeInv, SyncInv, InsertRow \/ InsertNewRow
    PROVE  SyncInv'
<1>1. PICK info \in Infos : info = filter_info
  BY DEF InsertRow, InsertNewRow, TypeInv, TypeOK
<1>2. /\ Kind(info) /\ Converted(info) /\ Exact(info) /\ OnlyIncluded(info)
      /\ step \in {"insert", "insert_new"}
  BY <1>1, RowTyped DEF SyncInv, InProgress, InsertRow, InsertNewRow
<1>3. /\ cond_table \in Seq(Rows) /\ GoodRows(cond_table) /\ NoClash(cond_table)
      /\ AsksAll(cond_table) = AsksAll(filter_infos)
  BY <1>2 DEF TypeInv, TypeOK, SyncInv, Lists, InStep
<1>4. /\ cond_table' = Inserted(info) /\ filter_info' = info /\ UNCHANGED filter_infos
      /\ step = "insert" => step' = "push"
      /\ step = "insert_new" => step' = "push_new"
  BY <1>1 DEF InsertRow, InsertNewRow, Begin
<1>5. /\ info.cond = "FLT_MAIN_TYPE" => step = "insert_new"
      /\ step = "insert_new" => info.cond = "FLT_MAIN_TYPE" /\
            \A i \in DOMAIN filter_infos : filter_infos[i].cond # "FLT_MAIN_TYPE"
  BY <1>1, <1>2 DEF SyncInv, InProgress
<1>6. ASSUME info.cond = "FLT_MAIN_TYPE", NEW k \in DOMAIN cond_table
      PROVE  cond_table[k].cond # "FLT_MAIN_TYPE"
  <2>1. PICK i \in DOMAIN filter_infos : Asks(cond_table[k]) = Asks(filter_infos[i])
    BY <1>3 DEF AsksAll
  <2> QED
    BY <1>5, <1>6, <2>1 DEF Asks
<1>7. /\ GoodRows(cond_table') /\ NoClash(cond_table')
      /\ AsksAll(cond_table') = AsksAll(filter_infos) \cup {Asks(info)}
      /\ \A k \in DOMAIN cond_table : cond_table[k].cond # info.cond =>
            \E l \in DOMAIN cond_table' : cond_table'[l] = cond_table[k]
      /\ \E l \in DOMAIN cond_table' : cond_table'[l] = Row(info)
  BY <1>2, <1>3, <1>4, <1>6, InsertedAsks
<1>8. MaskStored'
  <2> SUFFICES ASSUME NEW i \in DOMAIN filter_infos, filter_infos[i].cond = "FLT_MAIN_TYPE"
               PROVE  \E l \in DOMAIN cond_table' : cond_table'[l] = Row(filter_infos[i])
    BY <1>4 DEF MaskStored
  <2>1. PICK k \in DOMAIN cond_table : cond_table[k] = Row(filter_infos[i])
    BY <1>2 DEF SyncInv, MaskStored
  <2>2. cond_table[k].cond = "FLT_MAIN_TYPE"
    BY <2>1, RowAsks DEF TypeInv, TypeOK
  <2> QED
    BY <1>5, <1>7, <2>1, <2>2
<1>9. InStep'
  BY <1>2, <1>4, <1>7 DEF InStep
<1>10. InProgress'
  BY <1>2, <1>4, <1>5, <1>7 DEF InProgress
<1>11. TakenBack'
  <2> SUFFICES ASSUME step = "insert", IsMenuExclusion(info)
               PROVE  Asks(Opposite(info)) \notin AsksAll(filter_infos) \cup AsksAll(cond_table')
    BY <1>2, <1>4 DEF TakenBack
  <2>1. Asks(Opposite(info)) \notin AsksAll(filter_infos)
    BY <1>1 DEF SyncInv, TakenBack
  <2>2. Asks(Opposite(info)) # Asks(info)
    BY OppositeAsks DEF Asks
  <2> QED
    BY <1>7, <2>1, <2>2
<1> QED
  BY <1>4, <1>7, <1>8, <1>9, <1>10, <1>11 DEF SyncInv, Lists

LEMMA PushSync ==
    ASSUME TypeInv, SyncInv, PushInfo \/ PushNewInfo
    PROVE  SyncInv'
<1>1. PICK info \in Infos : info = filter_info
  BY DEF PushInfo, PushNewInfo, TypeInv, TypeOK
<1>2. /\ Kind(info) /\ Converted(info) /\ Exact(info) /\ OnlyIncluded(info)
      /\ step \in {"push", "push_new"}
  BY <1>1, RowTyped DEF SyncInv, InProgress, PushInfo, PushNewInfo
<1>3. /\ filter_infos \in Seq(Infos) /\ GoodInfos(filter_infos) /\ NoClash(filter_infos)
      /\ AsksAll(cond_table) = AsksAll(filter_infos) \cup {Asks(info)}
  BY <1>1, <1>2 DEF TypeInv, TypeOK, SyncInv, Lists, InStep
<1>4. step' = "idle" /\ filter_info' = NoInfo /\ UNCHANGED cond_table
  BY DEF PushInfo, PushNewInfo, Finish, Begin
<1>5. \A i \in DOMAIN filter_infos :
         is_same_filter_info(filter_infos[i], info) <=> Asks(filter_infos[i]) = Asks(info)
  BY <1>2, <1>3, SameInfoAsks DEF GoodInfos
<1>6. /\ InStep' <=> AsksAll(cond_table) = AsksAll(filter_infos')
      /\ InProgress' /\ TakenBack'
  BY <1>4 DEF InStep, InProgress, TakenBack
<1>7. \A i \in DOMAIN filter_infos : filter_infos[i].cond = "FLT_MAIN_TYPE" =>
         \E k \in DOMAIN cond_table : cond_table[k] = Row(filter_infos[i])
  BY <1>2 DEF SyncInv, MaskStored
<1>8. CASE filter_infos' = filter_infos
  <2>1. Asks(info) \in AsksAll(filter_infos)
    <3>1. filter_infos' # Append(filter_infos, info)
      <4>1. Len(Append(filter_infos, info)) # Len(filter_infos)
        BY <1>3
      <4> QED
        BY <1>8, <4>1
    <3>2. \E i \in DOMAIN filter_infos : is_same_filter_info(filter_infos[i], info)
      BY <1>1, <3>1 DEF PushInfo, PushNewInfo
    <3> QED
      BY <1>5, <3>2 DEF AsksAll
  <2>2. AsksAll(cond_table) = AsksAll(filter_infos)
    BY <1>3, <2>1
  <2> QED
    BY <1>4, <1>6, <1>7, <1>8, <2>2 DEF SyncInv, Lists, MaskStored
<1>9. CASE filter_infos' # filter_infos
  <2>1. /\ filter_infos' = Append(filter_infos, info)
        /\ \/ step = "push_new"
           \/ \A i \in DOMAIN filter_infos : ~is_same_filter_info(filter_infos[i], info)
    BY <1>1, <1>9 DEF PushInfo, PushNewInfo
  <2>2. PICK n \in Nat : n = Len(filter_infos)
    BY <1>3
  <2>3. /\ DOMAIN filter_infos = 1 .. n /\ DOMAIN filter_infos' = 1 .. n + 1
        /\ \A i \in 1 .. n : filter_infos'[i] = filter_infos[i]
        /\ filter_infos'[n + 1] = info
    BY <1>3, <2>1, <2>2
  <2>4. /\ \A i \in 1 .. n + 1 : i \in 1 .. n \/ i = n + 1
        /\ n + 1 \in 1 .. n + 1 /\ \A i \in 1 .. n : i \in 1 .. n + 1
    BY <2>2
  <2>5. GoodInfos(filter_infos')
    BY <1>2, <1>3, <2>3, <2>4 DEF GoodInfos
  <2>6. AsksAll(filter_infos') = AsksAll(filter_infos) \cup {Asks(info)}
    BY <2>3, <2>4 DEF AsksAll
  <2>7. ASSUME NEW i \in 1 .. n
        PROVE  ~Clash(filter_infos[i], info) /\ ~Clash(info, filter_infos[i])
    <3>1. CASE step = "push_new"
      <4>1. info.cond = "FLT_MAIN_TYPE" /\ filter_infos[i].cond # "FLT_MAIN_TYPE"
        BY <1>1, <2>3, <3>1 DEF SyncInv, InProgress
      <4> QED
        BY <4>1 DEF Clash
    <3>2. CASE step = "push"
      <4>1. info.cond # "FLT_MAIN_TYPE"
        BY <1>1, <3>2 DEF SyncInv, InProgress
      <4>2. Asks(filter_infos[i]) # Asks(info)
        BY <1>5, <2>1, <2>3, <3>2
      <4> QED
        BY <4>1, <4>2 DEF Clash
    <3> QED
      BY <1>2, <3>1, <3>2
  <2>8. NoClash(filter_infos')
    <3> SUFFICES ASSUME NEW i \in 1 .. n + 1, NEW j \in 1 .. n + 1,
                        Clash(filter_infos'[i], filter_infos'[j])
                 PROVE  i = j
      BY <2>3 DEF NoClash
    <3>1. CASE i \in 1 .. n /\ j \in 1 .. n
      BY <1>3, <2>3, <3>1 DEF NoClash
    <3>2. CASE i = n + 1 /\ j \in 1 .. n
      BY <2>3, <2>7, <3>2
    <3>3. CASE i \in 1 .. n /\ j = n + 1
      BY <2>3, <2>7, <3>3
    <3> QED
      BY <2>4, <3>1, <3>2, <3>3
  <2>9. ASSUME info.cond = "FLT_MAIN_TYPE"
        PROVE  \E k \in DOMAIN cond_table : cond_table[k] = Row(info)
    BY <1>1, <1>2, <2>9 DEF SyncInv, InProgress
  <2>10. MaskStored'
    BY <1>4, <1>7, <2>3, <2>4, <2>9 DEF MaskStored
  <2> QED
    BY <1>3, <1>4, <1>6, <2>5, <2>6, <2>8, <2>10 DEF SyncInv, Lists
<1> QED
  BY <1>8, <1>9

LEMMA DeleteOneSync ==
    ASSUME TypeInv, SyncInv, DeleteOneRow
    PROVE  SyncInv'
<1>1. /\ selected \in DOMAIN filter_infos /\ filter_infos \in Seq(Infos)
      /\ step = "delete_one"
  BY DEF DeleteOneRow, TypeInv, TypeOK
<1>2. PICK info \in Infos : info = filter_info /\ info = filter_infos[selected]
  BY <1>1 DEF SyncInv, InProgress
<1>3. /\ Kind(info) /\ Converted(info) /\ Exact(info) /\ OnlyIncluded(info)
      /\ info.cond \notin TimeConds
  BY <1>1, <1>2 DEF SyncInv, Lists, GoodInfos, InProgress
<1>4. /\ cond_table \in Seq(Rows) /\ GoodRows(cond_table) /\ NoClash(cond_table)
      /\ AsksAll(cond_table) = AsksAll(filter_infos)
  BY <1>1 DEF TypeInv, TypeOK, SyncInv, Lists, InStep
<1>5. /\ cond_table' = Deleted(info) /\ step' = "erase_one" /\ filter_info' = info
      /\ selected' = selected /\ UNCHANGED filter_infos
  BY <1>2 DEF DeleteOneRow, Begin
<1>6. /\ GoodRows(cond_table') /\ NoClash(cond_table')
      /\ AsksAll(cond_table') = AsksAll(filter_infos) \ {Asks(info)}
      /\ \A k \in DOMAIN cond_table : cond_table[k].cond # info.cond =>
            \E l \in DOMAIN cond_table' : cond_table'[l] = cond_table[k]
  BY <1>3, <1>4, <1>5, DeletedAsks
<1>7. MaskStored'
  <2> SUFFICES ASSUME NEW i \in DOMAIN filter_infos, i # selected,
                      filter_infos[i].cond = "FLT_MAIN_TYPE"
               PROVE  \E l \in DOMAIN cond_table' : cond_table'[l] = Row(filter_infos[i])
    BY <1>5 DEF MaskStored
  <2>1. PICK k \in DOMAIN cond_table : cond_table[k] = Row(filter_infos[i])
    BY <1>1 DEF SyncInv, MaskStored
  <2>2. cond_table[k].cond = "FLT_MAIN_TYPE"
    BY <1>1, <2>1, RowAsks
  <2>3. info.cond # "FLT_MAIN_TYPE"
    BY <1>1, <1>2 DEF SyncInv, Lists, NoClash, Clash
  <2> QED
    BY <1>6, <2>1, <2>2, <2>3
<1>8. InStep' /\ TakenBack'
  BY <1>5, <1>6 DEF InStep, TakenBack
<1>9. InProgress'
  BY <1>2, <1>3, <1>5 DEF InProgress
<1> QED
  BY <1>5, <1>6, <1>7, <1>8, <1>9 DEF SyncInv, Lists

(* RemoveAt moves the elements behind the removed one forward.             *)
LEMMA RemoveAtElements ==
    ASSUME NEW S, NEW seq \in Seq(S), NEW k \in 1 .. Len(seq)
    PROVE  /\ DOMAIN RemoveAt(seq, k) = 1 .. Len(seq) - 1
           /\ \A i \in 1 .. Len(seq) - 1 : RemoveAt(seq, k)[i] =
                 IF i < k THEN seq[i] ELSE seq[i + 1]
<1> DEFINE front == SubSeq(seq, 1, k - 1)
           back == SubSeq(seq, k + 1, Len(seq))
<1>1. Len(seq) \in Nat /\ DOMAIN seq = 1 .. Len(seq) /\ k \in Nat \ {0} /\ k <= Len(seq)
  OBVIOUS
<1>2. /\ front \in Seq(S) /\ Len(front) = k - 1
      /\ \A i \in 1 .. k - 1 : front[i] = seq[i]
  BY <1>1
<1>3. /\ back \in Seq(S) /\ Len(back) = Len(seq) - k
      /\ \A i \in 1 .. Len(seq) - k : back[i] = seq[(k + 1) + i - 1]
  <2>1. k + 1 \in Int /\ Len(seq) \in Int /\ \A j \in k + 1 .. Len(seq) : seq[j] \in S
    BY <1>1
  <2>2. /\ back \in Seq(S)
        /\ Len(back) = IF k + 1 <= Len(seq) THEN Len(seq) - (k + 1) + 1 ELSE 0
        /\ \A i \in 1 .. Len(seq) - (k + 1) + 1 : back[i] = seq[(k + 1) + i - 1]
    BY <2>1, SubSeqProperties
  <2>3. \A n, j \in Nat : j <= n =>
           /\ (IF j + 1 <= n THEN n - (j + 1) + 1 ELSE 0) = n - j
           /\ n - (j + 1) + 1 = n - j
    OBVIOUS
  <2> QED
    BY <1>1, <2>2, <2>3
<1>4. RemoveAt(seq, k) = front \o back
  BY DEF RemoveAt
<1> HIDE DEF front, back
<1>5. DOMAIN (front \o back) = 1 .. Len(seq) - 1
  <2>1. Len(front) + Len(back) = Len(seq) - 1
    BY <1>1, <1>2, <1>3
  <2> QED
    BY <1>2, <1>3, <2>1
<1>6. ASSUME NEW i \in 1 .. Len(seq) - 1
      PROVE  (front \o back)[i] = IF i < k THEN seq[i] ELSE seq[i + 1]
  <2>1. CASE i < k
    <3>1. i \in 1 .. Len(front) /\ i \in 1 .. k - 1
      BY <1>1, <1>2, <2>1
    <3>2. (front \o back)[i] = front[i]
      BY <1>2, <1>3, <3>1
    <3> QED
      BY <1>2, <2>1, <3>1, <3>2
  <2>2. CASE ~(i < k)
    <3>1. /\ i \in Len(front) + 1 .. Len(front) + Len(back)
          /\ i - Len(front) \in 1 .. Len(seq) - k
          /\ (k + 1) + (i - Len(front)) - 1 = i + 1
      BY <1>1, <1>2, <1>3, <2>2
    <3>2. (front \o back)[i] = back[i - Len(front)]
      BY <1>2, <1>3, <3>1
    <3> QED
      BY <1>3, <2>2, <3>1, <3>2
  <2> QED
    BY <2>1, <2>2
<1> QED
  BY <1>4, <1>5, <1>6

LEMMA EraseOneSync ==
    ASSUME TypeInv, SyncInv, EraseOne
    PROVE  SyncInv'
<1>1. /\ selected \in DOMAIN filter_infos /\ filter_infos \in Seq(Infos)
      /\ step = "erase_one"
  BY DEF EraseOne, TypeInv, TypeOK
<1>2. PICK n \in Nat : n = Len(filter_infos)
  BY <1>1
<1>3. /\ filter_infos' = RemoveAt(filter_infos, selected) /\ step' = "idle"
      /\ filter_info' = NoInfo /\ UNCHANGED cond_table
  BY DEF EraseOne, Finish, Begin
<1>4. /\ DOMAIN filter_infos = 1 .. n /\ selected \in 1 .. n
      /\ DOMAIN filter_infos' = 1 .. n - 1
      /\ \A i \in 1 .. n - 1 : filter_infos'[i] =
            IF i < selected THEN filter_infos[i] ELSE filter_infos[i + 1]
  <2>1. DOMAIN filter_infos = 1 .. n /\ selected \in 1 .. n
    BY <1>1, <1>2
  <2> QED
    BY <1>1, <1>2, <1>3, <2>1, RemoveAtElements
<1>5. \A i \in DOMAIN filter_infos' : \E p \in DOMAIN filter_infos :
         p # selected /\ filter_infos'[i] = filter_infos[p]
  <2> SUFFICES ASSUME NEW i \in 1 .. n - 1
               PROVE  \E p \in 1 .. n : p # selected /\ filter_infos'[i] = filter_infos[p]
    BY <1>4
  <2>1. CASE i < selected
    <3>1. i \in 1 .. n /\ i # selected
      BY <1>4, <2>1
    <3> QED
      BY <1>4, <2>1, <3>1
  <2>2. CASE ~(i < selected)
    <3>1. i + 1 \in 1 .. n /\ i + 1 # selected
      BY <1>4, <2>2
    <3> QED
      BY <1>4, <2>2, <3>1
  <2> QED
    BY <2>1, <2>2
<1>6. \A p \in DOMAIN filter_infos : p # selected =>
         \E i \in DOMAIN filter_infos' : filter_infos'[i] = filter_infos[p]
  <2> SUFFICES ASSUME NEW p \in 1 .. n, p # selected
               PROVE  \E i \in 1 .. n - 1 : filter_infos'[i] = filter_infos[p]
    BY <1>4
  <2>1. CASE p < selected
    <3>1. p \in 1 .. n - 1
      BY <1>4, <2>1
    <3> QED
      BY <1>4, <2>1, <3>1
  <2>2. CASE ~(p < selected)
    <3>1. p - 1 \in 1 .. n - 1 /\ ~(p - 1 < selected) /\ (p - 1) + 1 = p
      BY <1>4, <2>2
    <3> QED
      BY <1>4, <3>1
  <2> QED
    BY <2>1, <2>2
<1>7. NoClash(filter_infos')
  <2> SUFFICES ASSUME NEW i \in 1 .. n - 1, NEW j \in 1 .. n - 1,
                      Clash(filter_infos'[i], filter_infos'[j])
               PROVE  i = j
    BY <1>4 DEF NoClash
  <2> DEFINE from(k) == IF k < selected THEN k ELSE k + 1
  <2>1. /\ from(i) \in DOMAIN filter_infos /\ filter_infos'[i] = filter_infos[from(i)]
        /\ from(j) \in DOMAIN filter_infos /\ filter_infos'[j] = filter_infos[from(j)]
    BY <1>4
  <2>2. from(i) = from(j)
    <3> HIDE DEF from
    <3> QED
      BY <2>1 DEF SyncInv, Lists, NoClash
  <2> QED
    BY <1>4, <2>2
<1>8. GoodInfos(filter_infos')
  BY <1>5 DEF SyncInv, Lists, GoodInfos
<1>9. PICK info \in Infos : info = filter_info /\ info = filter_infos[selected]
  BY <1>1 DEF SyncInv, InProgress
<1>10. \A p \in DOMAIN filter_infos :
          Asks(filter_infos[p]) = Asks(info) => p = selected
  <2> SUFFICES ASSUME NEW p \in DOMAIN filter_infos, Asks(filter_infos[p]) = Asks(info)
               PROVE  p = selected
    OBVIOUS
  <2>1. filter_infos[p].cond = info.cond
    BY DEF Asks
  <2>2. info.cond \notin TimeConds
    BY <1>1, <1>9 DEF SyncInv, InProgress
  <2>3. Clash(filter_infos[p], filter_infos[selected])
    BY <1>9, <2>1, <2>2 DEF Clash
  <2> QED
    BY <1>1, <2>3 DEF SyncInv, Lists, NoClash
<1>11. AsksAll(filter_infos') = AsksAll(filter_infos) \ {Asks(info)}
  <2>1. \A i \in DOMAIN filter_infos' :
           Asks(filter_infos'[i]) \in AsksAll(filter_infos) \ {Asks(info)}
    BY <1>5, <1>10 DEF AsksAll
  <2>2. \A p \in DOMAIN filter_infos : Asks(filter_infos[p]) # Asks(info) =>
           Asks(filter_infos[p]) \in AsksAll(filter_infos')
    BY <1>6, <1>9 DEF AsksAll
  <2> QED
    BY <2>1, <2>2 DEF AsksAll
<1>12. InStep'
  BY <1>1, <1>3, <1>9, <1>11 DEF SyncInv, InStep
<1>13. MaskStored'
  <2> SUFFICES ASSUME NEW i \in DOMAIN filter_infos', filter_infos'[i].cond = "FLT_MAIN_TYPE"
               PROVE  \E k \in DOMAIN cond_table : cond_table[k] = Row(filter_infos'[i])
    BY <1>3 DEF MaskStored
  <2>1. PICK p \in DOMAIN filter_infos : p # selected /\ filter_infos'[i] = filter_infos[p]
    BY <1>5
  <2> QED
    BY <1>1, <2>1 DEF SyncInv, MaskStored
<1> QED
  BY <1>3, <1>7, <1>8, <1>12, <1>13 DEF SyncInv, Lists, InProgress, TakenBack

LEMMA UpdateRowSync ==
    ASSUME TypeInv, SyncInv, UpdateRow
    PROVE  SyncInv'
<1>1. PICK old \in Infos : old = filter_info
  BY DEF UpdateRow, TypeInv, TypeOK
<1>2. /\ selected \in DOMAIN filter_infos /\ filter_infos \in Seq(Infos)
      /\ cond_table \in Seq(Rows)
  BY DEF UpdateRow, TypeInv, TypeOK
<1>3. PICK new \in Infos : new = filter_infos[selected]
  BY <1>2
<1>4. /\ Kind(new) /\ OnlyIncluded(new) /\ new.cond = "FLT_MAIN_TYPE"
      /\ old.cond = "FLT_MAIN_TYPE"
      /\ \E k \in DOMAIN cond_table : cond_table[k] = Row(old)
      /\ GoodRows(cond_table) /\ NoClash(cond_table)
      /\ GoodInfos(filter_infos) /\ NoClash(filter_infos)
      /\ AsksAll(cond_table) = (AsksAll(filter_infos) \ {Asks(new)}) \cup {Asks(old)}
  BY <1>1, <1>2, <1>3
  DEF UpdateRow, SyncInv, Lists, GoodInfos, InProgress, InStep
<1>5. PICK place \in DOMAIN cond_table : cond_table[place] = Row(old)
  BY <1>4
<1>6. /\ cond_table' = Updated(old, new) /\ step' = "idle" /\ filter_info' = NoInfo
      /\ UNCHANGED filter_infos
  BY <1>1, <1>3 DEF UpdateRow, Finish, Begin
<1>7. /\ GoodRows(cond_table') /\ NoClash(cond_table')
      /\ AsksAll(cond_table') = (AsksAll(cond_table) \ {Asks(old)}) \cup {Asks(new)}
      /\ \E k \in DOMAIN cond_table' : cond_table'[k] = Row(new)
  BY <1>2, <1>4, <1>5, <1>6, UpdatedAsks
<1>8. \A i \in DOMAIN filter_infos : filter_infos[i].cond = "FLT_MAIN_TYPE" => i = selected
  BY <1>2, <1>3, <1>4 DEF NoClash, Clash
<1>9. AsksAll(cond_table') = AsksAll(filter_infos)
  <2>1. Asks(new) \in AsksAll(filter_infos)
    BY <1>2, <1>3 DEF AsksAll
  <2>2. Asks(old) \in AsksAll(filter_infos) => Asks(old) = Asks(new)
    <3> SUFFICES ASSUME NEW i \in DOMAIN filter_infos, Asks(filter_infos[i]) = Asks(old)
                 PROVE  Asks(old) = Asks(new)
      BY DEF AsksAll
    <3>1. filter_infos[i].cond = "FLT_MAIN_TYPE"
      BY <1>4 DEF Asks
    <3> QED
      BY <1>3, <1>8, <3>1
  <2> QED
    BY <1>4, <1>7, <2>1, <2>2
<1>10. MaskStored'
  BY <1>3, <1>6, <1>7, <1>8 DEF MaskStored
<1> QED
  BY <1>4, <1>6, <1>7, <1>9, <1>10 DEF SyncInv, Lists, InStep, InProgress, TakenBack

LEMMA ReleaseSync ==
    ASSUME TypeInv, SyncInv, ReleaseInfos
    PROVE  SyncInv'
<1>1. /\ filter_infos' = <<>> /\ cond_table' = <<>> /\ step' = "idle"
      /\ filter_info' = NoInfo
  BY DEF ReleaseInfos, Finish, Begin, SyncInv, InStep
<1>2. GoodInfos(filter_infos') /\ NoClash(filter_infos') /\ GoodRows(cond_table')
  BY <1>1 DEF GoodInfos, NoClash, GoodRows
<1>3. AsksAll(cond_table') = AsksAll(filter_infos')
  BY <1>1
<1>4. DOMAIN filter_infos' = {}
  BY <1>1
<1> QED
  BY <1>1, <1>2, <1>3, <1>4
  DEF SyncInv, Lists, InStep, InProgress, MaskStored, TakenBack

LEMMA RestartSync ==
    ASSUME TypeInv, SyncInv, Restart
    PROVE  SyncInv'
<1>1. /\ filter_infos' \in LoadedTable(cond_table) /\ step' = "idle"
      /\ filter_info' = NoInfo /\ UNCHANGED cond_table
  BY DEF Restart, Finish, Begin
<1>2. /\ cond_table \in Seq(Rows) /\ GoodRows(cond_table) /\ NoClash(cond_table)
  BY DEF TypeInv, TypeOK, SyncInv, Lists
<1>3. /\ GoodInfos(filter_infos') /\ NoClash(filter_infos')
      /\ AsksAll(filter_infos') = AsksAll(cond_table)
      /\ DOMAIN filter_infos' = DOMAIN cond_table
      /\ \A i \in DOMAIN cond_table : Row(filter_infos'[i]) = cond_table[i]
  <2>1. \A k \in DOMAIN cond_table :
           cond_table[k].cond \in NumberConds \/ IsDefault(cond_table[k])
    BY <1>2 DEF Restart, GoodRows, Kind
  <2> QED
    BY <1>1, <1>2, <2>1, LoadedTableAsks
<1> QED
  BY <1>1, <1>2, <1>3
  DEF SyncInv, Lists, InStep, InProgress, MaskStored, TakenBack

LEMMA NextSync == ToldApart /\ TypeInv /\ SyncInv /\ [Next]_vars => SyncInv'
<1> SUFFICES ASSUME ToldApart, TypeInv, SyncInv, [Next]_vars PROVE SyncInv'
  OBVIOUS
<1>1. CASE UNCHANGED vars
  BY <1>1 DEF vars, SyncInv, Lists, InStep, InProgress, MaskStored, TakenBack
<1>3. CASE CommandStep
  BY <1>3, DeleteRowSync, EraseInfosSync, InsertSync, PushSync, DeleteOneSync,
     EraseOneSync, UpdateRowSync, ReleaseSync DEF CommandStep
<1> QED
  BY <1>1, <1>3, UserSync, RestartSync DEF Next

LEMMA SyncInvariant ==
    ASSUME ToldApart
    PROVE  Spec => []SyncInv
<1>1. TypeInv /\ SyncInv /\ [Next]_vars => SyncInv'
  BY NextSync
<1> QED
  BY <1>1, InitSync, TypeInvariant, PTL DEF Spec

LEMMA EffectiveAll ==
    ASSUME TypeInv, SyncInv
    PROVE  /\ Conditions(filter_infos) = AsksAll(filter_infos)
           /\ {Effective(Loaded(cond_table[k], "own")) : k \in DOMAIN cond_table} =
                 AsksAll(cond_table)
<1>1. \A i \in DOMAIN filter_infos :
         Effective(filter_infos[i]) = Asks(filter_infos[i])
  BY EffectiveAsks DEF TypeInv, TypeOK, SyncInv, Lists, GoodInfos
<1>2. "own" \in Lengths
  BY DEF Lengths
<1>3. \A k \in DOMAIN cond_table :
         Effective(Loaded(cond_table[k], "own")) = Asks(cond_table[k])
  BY <1>2, LoadedAsks DEF TypeInv, TypeOK
<1> QED
  BY <1>1, <1>3 DEF Conditions, AsksAll

(* Whatever sequence of the menus', the toolbar's and the dialog's         *)
(* commands came before, and wherever the program is killed, the table     *)
(* holds the conditions in force, but for the one the killed step was      *)
(* about.                                                                  *)
THEOREM RestartKeeps ==
    ASSUME ToldApart
    PROVE  Spec => []RestartKeepsConditions
<1>1. TypeInv /\ SyncInv => RestartKeepsConditions
  <2> SUFFICES ASSUME TypeInv, SyncInv
               PROVE  SymDiff(AsksAll(cond_table), AsksAll(filter_infos)) \subseteq InDoubt
    BY EffectiveAll DEF RestartKeepsConditions
  <2>1. CASE step \in {"idle", "delete", "insert", "insert_new", "delete_one"}
    BY <2>1 DEF SyncInv, InStep, SymDiff
  <2>2. CASE step = "erase"
    <3>1. PICK info \in Infos : info = filter_info /\ Converted(info)
      BY <2>2, RowTyped DEF TypeInv, TypeOK, SyncInv, InProgress
    <3>2. Effective(Opposite(info)) = Asks(Opposite(info))
      BY <3>1, RowTyped, OppositeAsks, EffectiveAsks
    <3> QED
      BY <2>2, <3>1, <3>2 DEF SyncInv, InStep, InDoubt, SymDiff
  <2>3. CASE step \in {"push", "push_new", "erase_one"}
    <3>1. PICK info \in Infos : info = filter_info /\ Converted(info)
      BY <2>3, RowTyped DEF TypeInv, TypeOK, SyncInv, InProgress
    <3>2. Effective(info) = Asks(info)
      BY <3>1, EffectiveAsks
    <3> QED
      BY <2>3, <3>1, <3>2 DEF SyncInv, InStep, InDoubt, SymDiff
  <2>4. CASE step = "update"
    <3>1. PICK info \in Infos : info = filter_info /\ Converted(info)
      BY <2>4, RowTyped DEF TypeInv, TypeOK, SyncInv, InProgress
    <3>2. selected \in DOMAIN filter_infos
      BY <2>4 DEF TypeInv, TypeOK
    <3>3. PICK new \in Infos : new = filter_infos[selected] /\ Converted(new)
      BY <3>2 DEF TypeInv, TypeOK, SyncInv, Lists, GoodInfos
    <3>4. Effective(info) = Asks(info) /\ Effective(new) = Asks(new)
      BY <3>1, <3>3, EffectiveAsks
    <3> QED
      BY <2>4, <3>1, <3>3, <3>4 DEF SyncInv, InStep, InDoubt, SymDiff
  <2>5. CASE step = "release"
    <3>1. AsksAll(cond_table) = {}
      BY <2>5 DEF SyncInv, InStep, AsksAll
    <3> QED
      BY <2>5, <3>1, EffectiveAll DEF InDoubt, SymDiff
  <2> QED
    BY <2>1, <2>2, <2>3, <2>4, <2>5 DEF TypeInv, TypeOK, SyncInv, InProgress
<1> QED
  BY <1>1, TypeInvariant, SyncInvariant, PTL

(* Under the same commands an exclusion of the menu leaves no inclusion of *)
(* the same behind, in the vector or in the table.                         *)
THEOREM ExcludeEffective ==
    ASSUME ToldApart
    PROVE  Spec => ExcludeTakesEffect
<1>1. TypeInv /\ SyncInv /\ [Next]_vars =>
         [PushInfo /\ IsMenuExclusion(filter_info) =>
            /\ Effective(Opposite(filter_info)) \notin Conditions(filter_infos')
            /\ \A k \in DOMAIN cond_table' :
                  ~SameKey(cond_table'[k], Opposite(filter_info))]_vars
  <2> SUFFICES ASSUME TypeInv, SyncInv, PushInfo, IsMenuExclusion(filter_info)
               PROVE  /\ Effective(Opposite(filter_info)) \notin Conditions(filter_infos')
                      /\ \A k \in DOMAIN cond_table' :
                            ~SameKey(cond_table'[k], Opposite(filter_info))
    OBVIOUS
  <2>1. PICK info \in Infos : info = filter_info /\ Kind(info) /\ Converted(info)
    BY RowTyped DEF PushInfo, TypeInv, TypeOK, SyncInv, InProgress
  <2>2. PICK other \in Infos : other = Opposite(info)
    BY RowTyped
  <2>3. /\ Kind(other) /\ Converted(other) /\ other.filter_mode # info.filter_mode
        /\ Effective(other) = Asks(other)
    BY <2>1, <2>2, OppositeAsks, EffectiveAsks
  <2>4. Asks(other) \notin AsksAll(filter_infos) \cup AsksAll(cond_table)
    BY <2>1, <2>2 DEF PushInfo, SyncInv, TakenBack
  <2>5. \A i \in DOMAIN filter_infos' :
           \/ \E p \in DOMAIN filter_infos : filter_infos'[i] = filter_infos[p]
           \/ filter_infos'[i] = info
    <3>1. filter_infos \in Seq(Infos)
      BY DEF TypeInv, TypeOK
    <3>2. filter_infos' = filter_infos \/ filter_infos' = Append(filter_infos, info)
      BY <2>1 DEF PushInfo
    <3> QED
      BY <3>1, <3>2
  <2>6. \A p \in DOMAIN filter_infos : Effective(filter_infos[p]) # Asks(other)
    BY <2>4, EffectiveAll DEF Conditions
  <2>7. Effective(info) # Asks(other)
    BY <2>3 DEF Effective, Asks
  <2>8. Effective(other) \notin Conditions(filter_infos')
    BY <2>3, <2>5, <2>6, <2>7 DEF Conditions
  <2>9. ASSUME NEW k \in DOMAIN cond_table PROVE ~SameKey(cond_table[k], other)
    <3>1. cond_table[k] \in Rows /\ Kind(cond_table[k])
      BY DEF TypeInv, TypeOK, SyncInv, Lists, GoodRows
    <3>2. Asks(cond_table[k]) # Asks(other)
      BY <2>4 DEF AsksAll
    <3> QED
      BY <2>3, <3>1, <3>2, SameKeyAsks
  <2>10. UNCHANGED cond_table
    BY DEF PushInfo
  <2> QED
    BY <2>1, <2>2, <2>8, <2>9, <2>10
<1> QED
  BY <1>1, TypeInvariant, SyncInvariant, PTL DEF Spec, ExcludeTakesEffect
=============================================================================
