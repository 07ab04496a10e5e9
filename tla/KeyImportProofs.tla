-------------------------- MODULE KeyImportProofs --------------------------
(***************************************************************************)
(* The register of keys and the files read into it, for files of any       *)
(* length, any register and any number of clerks.                          *)
(*                                                                         *)
(* A plan is a fold over the rows of a file.  The first part of the module *)
(* shows what such a fold is: a plan for each number of rows, each made of *)
(* the one before it.  What a plan comes to is then an invariant of those  *)
(* plans, shown row by row (Climb).                                        *)
(***************************************************************************)
EXTENDS KeyImport, WellFoundedInduction, NaturalsInduction, SequenceTheorems,
        FiniteSetTheorems, TLAPS

\* Of the natural numbers of a set, one is the least.
LEMMA LeastExists ==
  ASSUME NEW T \in SUBSET Nat, T # {}
  PROVE  \E n \in T : \A m \in T : n <= m
<1>1. IsWellFoundedOn(OpToRel(<, Nat), Nat)
  BY NatLessThanWellFounded
<1>2. PICK n \in T : \A m \in T : ~ (<<m, n>> \in OpToRel(<, Nat))
  BY <1>1, WFMin
<1>3. ASSUME NEW m \in T PROVE n <= m
  <2>1. ~ (m < n)
    BY <1>2 DEF OpToRel
  <2> QED BY <2>1
<1> QED BY <1>3

\* Induction over the natural numbers: a set of them that has 0 and, with each
\* number, the next one, has them all.
LEMMA Climb ==
  ASSUME NEW S, 0 \in S, \A n \in Nat : n \in S => n + 1 \in S
  PROVE  Nat \subseteq S
<1> SUFFICES ASSUME Nat \ S # {} PROVE FALSE
  OBVIOUS
<1>1. PICK n \in Nat \ S : \A m \in Nat \ S : n <= m
  BY LeastExists
<1>2. n # 0 /\ n - 1 \in Nat /\ ~ (n <= n - 1)
  OBVIOUS
<1>3. n - 1 \in S
  BY <1>1, <1>2
<1> QED BY <1>2, <1>3

\* A set of positions has a last one.
LEMMA LastPosition ==
  ASSUME NEW n \in Nat, NEW s \in SUBSET (1 .. n), s # {}
  PROVE  Max(s) \in s /\ \A x \in s : x <= Max(s)
<1> DEFINE T == {m \in Nat : \A x \in s : x <= m}
<1>1. T \in SUBSET Nat /\ n \in T
  OBVIOUS
<1>2. PICK m \in T : \A k \in T : m <= k
  BY <1>1, LeastExists
<1>3. m \in Nat /\ \A x \in s : x <= m /\ x \in Nat /\ x # 0
  OBVIOUS
<1>4. m \in s
  <2> SUFFICES ASSUME m \notin s PROVE FALSE
    OBVIOUS
  <2>1. \A x \in s : x <= m - 1
    BY <1>3
  <2>2. m - 1 \in Nat
    <3>1. PICK x \in s : TRUE
      OBVIOUS
    <3>2. x <= m /\ x \in Nat /\ x # 0
      BY <1>3, <3>1
    <3> QED BY <1>3, <3>2
  <2>3. m - 1 \in T
    BY <2>1, <2>2
  <2> QED BY <1>2, <1>3, <2>3
<1>5. \E x \in s : \A y \in s : x >= y
  BY <1>3, <1>4
<1>6. Max(s) \in s /\ \A y \in s : Max(s) >= y
  BY <1>5 DEF Max
<1> QED BY <1>3, <1>6

\* The function that folds the elements of a sequence at the positions of a set.
IsFold(f, F, X, base, seq, n) ==
  /\ f[{}] = base
  /\ \A s \in SUBSET (1 .. n) :
       s # {} /\ f[s \ {Max(s)}] \in X => f[s] = F[<<f[s \ {Max(s)}], seq[Max(s)]>>]

Foldable(F, base, seq, X, n) ==
  \E f \in [SUBSET (1 .. n) -> X] : IsFold(f, F, X, base, seq, n)

\* It exists.
LEMMA FoldExists ==
  ASSUME NEW X, NEW R, NEW F \in [X \X R -> X], NEW base \in X, NEW seq \in Seq(R)
  PROVE  Foldable(F, base, seq, X, Len(seq))
<1> DEFINE Folded == {n \in Nat : n <= Len(seq) => Foldable(F, base, seq, X, n)}
<1>0. Len(seq) \in Nat /\ \A i \in 1 .. Len(seq) : seq[i] \in R
  BY ElementOfSeq
<1>1. 0 \in Folded
  <2>1. [s \in SUBSET (1 .. 0) |-> base] \in [SUBSET (1 .. 0) -> X]
    OBVIOUS
  <2>2. 1 .. 0 = {}
    OBVIOUS
  <2>3. IsFold([s \in SUBSET (1 .. 0) |-> base], F, X, base, seq, 0)
    BY <2>2 DEF IsFold
  <2>4. Foldable(F, base, seq, X, 0)
    BY <2>1, <2>3 DEF Foldable
  <2> QED BY <2>4
<1>2. ASSUME NEW n \in Nat, n \in Folded PROVE n + 1 \in Folded
  <2> SUFFICES ASSUME n + 1 <= Len(seq) PROVE Foldable(F, base, seq, X, n + 1)
    OBVIOUS
  <2>1. PICK f \in [SUBSET (1 .. n) -> X] : IsFold(f, F, X, base, seq, n)
    <3>1. Foldable(F, base, seq, X, n)
      <4>1. n <= Len(seq)
        BY <1>0
      <4> QED BY <1>2, <4>1
    <3> QED BY <3>1 DEF Foldable
  <2> DEFINE g == [s \in SUBSET (1 .. n + 1) |->
                     IF n + 1 \in s THEN F[<<f[s \ {n + 1}], seq[n + 1]>>] ELSE f[s]]
  <2>2. ASSUME NEW s \in SUBSET (1 .. n + 1)
        PROVE  /\ s \ {n + 1} \in SUBSET (1 .. n)
               /\ n + 1 \notin s => s \in SUBSET (1 .. n)
    OBVIOUS
  <2>3. seq[n + 1] \in R
    BY <1>0
  <2>4. g \in [SUBSET (1 .. n + 1) -> X]
    BY <2>2, <2>3
  <2>5. g[{}] = base
    BY <2>1 DEF IsFold
  <2>6. ASSUME NEW s \in SUBSET (1 .. n + 1), s # {}
        PROVE  g[s] = F[<<g[s \ {Max(s)}], seq[Max(s)]>>]
    <3>1. Max(s) \in s /\ \A x \in s : x <= Max(s)
      <4>1. n + 1 \in Nat
        OBVIOUS
      <4> QED BY <2>6, <4>1, LastPosition
    <3>2. CASE n + 1 \in s
      <4>1. Max(s) = n + 1
        <5>1. Max(s) \in 1 .. n + 1 /\ n + 1 <= Max(s)
          BY <3>1, <3>2
        <5> QED BY <5>1
      <4>2. g[s \ {n + 1}] = f[s \ {n + 1}] /\ g[s] = F[<<f[s \ {n + 1}], seq[n + 1]>>]
        BY <3>2
      <4> QED BY <4>1, <4>2
    <3>3. CASE n + 1 \notin s
      <4>1. s \in SUBSET (1 .. n) /\ s \ {Max(s)} \in SUBSET (1 .. n + 1)
            /\ n + 1 \notin s \ {Max(s)}
        BY <2>2, <3>3
      <4>2. g[s] = f[s] /\ g[s \ {Max(s)}] = f[s \ {Max(s)}]
        BY <3>3, <4>1
      <4> QED BY <2>1, <2>6, <4>1, <4>2 DEF IsFold
    <3> QED BY <3>2, <3>3
  <2> HIDE DEF g
  <2>7. IsFold(g, F, X, base, seq, n + 1)
    BY <2>5, <2>6 DEF IsFold
  <2> QED BY <2>4, <2>7 DEF Foldable
<1>3. Len(seq) \in Folded
  <2> HIDE DEF Folded
  <2> QED BY <1>0, <1>1, <1>2, Climb
<1> QED BY <1>0, <1>3

\* The steps of a fold: what it has come to after each number of elements.
FoldSteps(steps, F, base, seq) ==
  /\ steps[0] = base
  /\ \A n \in 1 .. Len(seq) : steps[n] = F[<<steps[n - 1], seq[n]>>]

Stepwise(iter, F, X, base, seq) ==
  LET steps == [n \in 0 .. Len(seq) |-> iter[1 .. n]]
  IN steps \in [0 .. Len(seq) -> X] /\ FoldSteps(steps, F, base, seq)

\* The function of FoldLeft's definition goes through those steps.
LEMMA FoldByStep ==
  ASSUME NEW X, NEW R, NEW F \in [X \X R -> X], NEW base \in X, NEW seq \in Seq(R),
         NEW iter, IsFold(iter, F, X, base, seq, Len(seq))
  PROVE  Stepwise(iter, F, X, base, seq)
<1> DEFINE N == Len(seq)
           steps == [n \in 0 .. N |-> iter[1 .. n]]
           Good == {n \in Nat : n <= N => iter[1 .. n] \in X}
<1>0. N \in Nat /\ \A i \in 1 .. N : seq[i] \in R
  BY ElementOfSeq
<1>1. 1 .. 0 = {}
  OBVIOUS
<1>2. ASSUME NEW n \in 1 .. N, iter[1 .. n - 1] \in X
      PROVE  iter[1 .. n] = F[<<iter[1 .. n - 1], seq[n]>>]
  <2> HIDE DEF steps, Good
  <2>0. n \in Nat /\ 1 <= n /\ n <= N
    BY <1>0
  <2>1. (1 .. n) \in SUBSET (1 .. N) /\ 1 .. n # {} /\ n \in 1 .. n
    <3>1. n \in 1 .. n
      BY <2>0
    <3>2. \A i \in 1 .. n : i \in 1 .. N
      BY <1>0, <2>0
    <3> QED BY <3>1, <3>2
  <2>2. Max(1 .. n) \in 1 .. n /\ \A x \in 1 .. n : x <= Max(1 .. n)
    BY <2>0, <2>1, LastPosition
  <2>3. Max(1 .. n) = n
    BY <2>0, <2>1, <2>2
  <2>4. (1 .. n) \ {n} = 1 .. n - 1
    BY <2>0
  <2> QED BY <2>1, <2>3, <2>4, <1>2 DEF IsFold
<1>3. 0 \in Good
  BY <1>1 DEF IsFold
<1>4. ASSUME NEW n \in Nat, n \in Good PROVE n + 1 \in Good
  <2> SUFFICES ASSUME n + 1 <= N PROVE iter[1 .. n + 1] \in X
    OBVIOUS
  <2>1. n + 1 \in 1 .. N /\ (n + 1) - 1 = n /\ n <= N
    BY <1>0
  <2>2. iter[1 .. n + 1] = F[<<iter[1 .. n], seq[n + 1]>>]
    BY <1>2, <1>4, <2>1
  <2>3. iter[1 .. n] \in X /\ seq[n + 1] \in R
    BY <1>0, <1>4, <2>1
  <2> QED BY <2>2, <2>3
<1>5. Nat \subseteq Good
  <2> HIDE DEF Good
  <2> QED BY <1>3, <1>4, Climb
<1>6. \A n \in 0 .. N : iter[1 .. n] \in X
  BY <1>0, <1>5
<1>7. steps \in [0 .. N -> X]
  BY <1>6
<1>8. steps[0] = base
  BY <1>0, <1>1 DEF IsFold
<1>9. ASSUME NEW n \in 1 .. N PROVE steps[n] = F[<<steps[n - 1], seq[n]>>]
  <2>1. n \in 0 .. N /\ n - 1 \in 0 .. N
    BY <1>0
  <2> QED BY <1>2, <1>6, <2>1
<1>10. FoldSteps(steps, F, base, seq)
  BY <1>8, <1>9 DEF FoldSteps
<1> QED BY <1>7, <1>10 DEF Stepwise

-----------------------------------------------------------------------------
(* The fold of import_keys_file.                                           *)

\* A plan for each number of rows, and the plan of the whole file.
ImportSteps(before, known, file, plans) ==
  /\ plans[0] = NothingRead(before)
  /\ \A n \in 1 .. Len(file) : plans[n] = ImportRow(known, plans[n - 1], file[n])
  /\ ImportPlan(before, known, file) = plans[Len(file)]

\* An import keeps plans of a kind that every row keeps.
LEMMA ImportFold ==
  ASSUME NEW R, NEW file \in Seq(R), NEW before, NEW known, NEW X,
         NothingRead(before) \in X,
         \A plan \in X, row \in R : ImportRow(known, plan, row) \in X
  PROVE  \E plans \in [0 .. Len(file) -> X] : ImportSteps(before, known, file, plans)
<1>0. /\ Len(file) \in Nat /\ DOMAIN file = 1 .. Len(file)
      /\ \A i \in 1 .. Len(file) : file[i] \in R
  BY LenProperties, ElementOfSeq
<1> DEFINE F == [x \in X \X R |-> ImportRow(known, x[1], x[2])]
           Rec(f) == f = [s \in SUBSET (DOMAIN file) |->
                            IF s = {} THEN NothingRead(before)
                            ELSE ImportRow(known, f[s \ {Max(s)}], file[Max(s)])]
           iter == CHOOSE f : Rec(f)
<1>1. F \in [X \X R -> X]
  OBVIOUS
<1>2. PICK f \in [SUBSET (1 .. Len(file)) -> X] :
        IsFold(f, F, X, NothingRead(before), file, Len(file))
  <2> HIDE DEF F
  <2> QED BY <1>1, FoldExists DEF Foldable
<1>3. ASSUME NEW s \in SUBSET (1 .. Len(file)), s # {}
      PROVE  /\ Max(s) \in 1 .. Len(file) /\ s \ {Max(s)} \in SUBSET (1 .. Len(file))
             /\ f[s] = ImportRow(known, f[s \ {Max(s)}], file[Max(s)])
  <2>1. Max(s) \in s
    BY <1>0, <1>3, LastPosition
  <2>2. f[s] = F[<<f[s \ {Max(s)}], file[Max(s)]>>]
    BY <1>2, <1>3 DEF IsFold
  <2>3. f[s \ {Max(s)}] \in X /\ file[Max(s)] \in R
    BY <1>0, <2>1
  <2> QED BY <2>1, <2>2, <2>3
<1>4. Rec(f)
  BY <1>0, <1>2, <1>3 DEF IsFold
<1>5. Rec(iter)
  BY <1>4
<1>6. ImportPlan(before, known, file) = iter[DOMAIN file]
  BY DEF ImportPlan, FoldLeft, MapThenFoldSet
<1>7. IsFold(iter, F, X, NothingRead(before), file, Len(file))
  <2>1. \A s \in SUBSET (DOMAIN file) :
          iter[s] = IF s = {} THEN NothingRead(before)
                    ELSE ImportRow(known, iter[s \ {Max(s)}], file[Max(s)])
    <3> HIDE DEF iter
    <3> QED BY <1>5
  <2> HIDE DEF iter, Rec
  <2>2. ASSUME NEW s \in SUBSET (1 .. Len(file)), s # {}, iter[s \ {Max(s)}] \in X
        PROVE  iter[s] = F[<<iter[s \ {Max(s)}], file[Max(s)]>>]
    <3>1. file[Max(s)] \in R
      BY <1>0, <1>3, <2>2
    <3> QED BY <1>0, <2>1, <2>2, <3>1
  <2> HIDE DEF F
  <2> QED BY <1>0, <2>1, <2>2 DEF IsFold
<1> DEFINE plans == [n \in 0 .. Len(file) |-> iter[1 .. n]]
<1>8. plans \in [0 .. Len(file) -> X] /\ FoldSteps(plans, F, NothingRead(before), file)
  <2> HIDE DEF F, iter
  <2>1. NothingRead(before) \in X
    OBVIOUS
  <2>2. Stepwise(iter, F, X, NothingRead(before), file)
    BY <1>1, <1>7, <2>1, FoldByStep
  <2> QED BY <2>2 DEF Stepwise
<1>9. ImportSteps(before, known, file, plans)
  <2> HIDE DEF iter
  <2>1. plans[0] = NothingRead(before)
    BY <1>8 DEF FoldSteps
  <2>2. ASSUME NEW n \in 1 .. Len(file)
        PROVE  plans[n] = ImportRow(known, plans[n - 1], file[n])
    <3>1. plans[n - 1] \in X /\ file[n] \in R
      <4>1. n - 1 \in 0 .. Len(file)
        BY <1>0
      <4> HIDE DEF plans
      <4> QED BY <1>0, <1>8, <4>1
    <3>2. plans[n] = F[<<plans[n - 1], file[n]>>]
      BY <1>8 DEF FoldSteps
    <3> HIDE DEF plans
    <3> QED BY <3>1, <3>2
  <2>3. ImportPlan(before, known, file) = plans[Len(file)]
    BY <1>0, <1>6
  <2> QED BY <2>1, <2>2, <2>3 DEF ImportSteps
<1> QED BY <1>8, <1>9

-----------------------------------------------------------------------------
(* Tables of the register.                                                 *)

\* What a table is at its ids.
LEMMA TableRows ==
  ASSUME NEW table \in Seq(KeyRow)
  PROVE  /\ Len(table) \in Nat /\ DOMAIN table = 1 .. Len(table)
         /\ \A i \in DOMAIN table : /\ i \in Nat /\ i >= 1 /\ i <= Len(table)
                                   /\ table[i] \in KeyRow
BY LenProperties, ElementOfSeq

\* A new HEX is given to one row.
LEMMA HexSet ==
  ASSUME NEW table \in Seq(KeyRow), NEW id \in DOMAIN table,
         NEW hex \in Hexes \cup {Blank}
  PROVE  /\ SetHex(table, id, hex) \in Seq(KeyRow)
         /\ Len(SetHex(table, id, hex)) = Len(table)
         /\ DOMAIN SetHex(table, id, hex) = DOMAIN table
         /\ SetHex(table, id, hex)[id] = [table[id] EXCEPT !.hex = hex]
         /\ \A i \in DOMAIN table : i # id => SetHex(table, id, hex)[i] = table[i]
<1>1. [table[id] EXCEPT !.hex = hex] \in KeyRow
  <2>1. table[id] \in KeyRow
    BY TableRows
  <2> QED BY <2>1 DEF KeyRow
<1>2. SetHex(table, id, hex) = [table EXCEPT ![id] = [table[id] EXCEPT !.hex = hex]]
  BY DEF SetHex
<1> QED BY <1>1, <1>2, TableRows, ExceptSeq

\* A row is added at the end.
LEMMA RowAdded ==
  ASSUME NEW table \in Seq(KeyRow), NEW row \in KeyRow
  PROVE  /\ Append(table, row) \in Seq(KeyRow)
         /\ Len(Append(table, row)) = Len(table) + 1
         /\ DOMAIN Append(table, row) = 1 .. Len(table) + 1
         /\ Append(table, row)[Len(table) + 1] = row
         /\ \A i \in DOMAIN table : /\ i \in DOMAIN Append(table, row)
                                   /\ Append(table, row)[i] = table[i]
<1>1. Append(table, row) \in Seq(KeyRow) /\ Len(Append(table, row)) = Len(table) + 1
  BY AppendProperties
<1>2. Append(table, row)[Len(table) + 1] = row
      /\ \A i \in 1 .. Len(table) : Append(table, row)[i] = table[i]
  BY AppendProperties
<1> QED BY <1>1, <1>2, TableRows

\* A new row is a row of the register.
LEMMA NewRowTyped ==
  ASSUME NEW type \in KeyTypes, NEW number \in Numbers, NEW hex \in Hexes \cup {Blank}
  PROVE  NewRow(type, number, hex) \in KeyRow
BY DEF NewRow, KeyRow

\* A row that no row of the table is like fits into it.
LEMMA AddedFits ==
  ASSUME NEW table \in Seq(KeyRow), Fits(table), NEW type \in KeyTypes,
         NEW number \in Numbers, NEW hex \in Hexes \cup {Blank},
         NumberAt(table, type, number) = {}, HexAt(table, hex) = {}
  PROVE  Fits(Append(table, NewRow(type, number, hex)))
<1> DEFINE row == NewRow(type, number, hex)
           more == Append(table, row)
<1>1. row \in KeyRow /\ row.type = type /\ row.number = number /\ row.hex = hex
  BY NewRowTyped DEF NewRow
<1>2. \A i \in DOMAIN more : i = Len(table) + 1 \/ i \in DOMAIN table
  BY <1>1, RowAdded, TableRows
<1>3. more[Len(table) + 1] = row /\ \A i \in DOMAIN table : more[i] = table[i]
  BY <1>1, RowAdded
<1>4. \A i \in DOMAIN table : /\ <<table[i].type, table[i].number>> # <<type, number>>
                              /\ table[i].hex # hex
  BY DEF NumberAt, HexAt
<1> HIDE DEF row, more
<1>5. ASSUME NEW i \in DOMAIN more, NEW j \in DOMAIN more, i # j
      PROVE  /\ <<more[i].type, more[i].number>> # <<more[j].type, more[j].number>>
             /\ more[i].hex # Blank => more[i].hex # more[j].hex
  <2>1. CASE i \in DOMAIN table /\ j \in DOMAIN table
    BY <1>3, <1>5, <2>1 DEF Fits
  <2>2. CASE i = Len(table) + 1 /\ j \in DOMAIN table
    BY <1>1, <1>3, <1>4, <2>2
  <2>3. CASE i \in DOMAIN table /\ j = Len(table) + 1
    BY <1>1, <1>3, <1>4, <2>3
  <2> QED BY <1>2, <1>5, <2>1, <2>2, <2>3
<1>6. Fits(more)
  BY <1>5 DEF Fits
<1> QED BY <1>6 DEF more, row

\* Nor does a row get in the way with a HEX that no other row has.
LEMMA HexSetFits ==
  ASSUME NEW table \in Seq(KeyRow), Fits(table), NEW id \in DOMAIN table,
         NEW hex \in Hexes \cup {Blank}, HexAt(table, hex) \subseteq {id}
  PROVE  Fits(SetHex(table, id, hex))
<1> DEFINE T == SetHex(table, id, hex)
<1>1. /\ DOMAIN T = DOMAIN table /\ T[id] = [table[id] EXCEPT !.hex = hex]
      /\ \A i \in DOMAIN table : i # id => T[i] = table[i]
  BY HexSet
<1>2. table[id] \in KeyRow
  BY TableRows
<1>3. T[id].type = table[id].type /\ T[id].number = table[id].number /\ T[id].hex = hex
  BY <1>1, <1>2 DEF KeyRow
<1>4. \A i \in DOMAIN table : i # id => table[i].hex # hex
  BY DEF HexAt
<1> HIDE DEF T
<1>5. \A i \in DOMAIN T : T[i].type = table[i].type /\ T[i].number = table[i].number
  BY <1>1, <1>3
<1>6. ASSUME NEW i \in DOMAIN T, NEW j \in DOMAIN T, i # j
      PROVE  /\ <<T[i].type, T[i].number>> # <<T[j].type, T[j].number>>
             /\ T[i].hex # Blank => T[i].hex # T[j].hex
  <2>1. <<table[i].type, table[i].number>> # <<table[j].type, table[j].number>>
        /\ (table[i].hex # Blank => table[i].hex # table[j].hex)
    BY <1>1, <1>6 DEF Fits
  <2>2. <<T[i].type, T[i].number>> # <<T[j].type, T[j].number>>
    BY <1>5, <2>1
  <2>3. CASE i = id
    <3>1. T[i].hex = hex /\ T[j] = table[j] /\ table[j].hex # hex
      BY <1>1, <1>3, <1>4, <1>6, <2>3
    <3> QED BY <2>2, <3>1
  <2>4. CASE j = id
    <3>1. T[j].hex = hex /\ T[i] = table[i] /\ table[i].hex # hex
      BY <1>1, <1>3, <1>4, <1>6, <2>4
    <3> QED BY <2>2, <3>1
  <2>5. CASE i # id /\ j # id
    BY <1>1, <1>6, <2>1, <2>5
  <2> QED BY <2>3, <2>4, <2>5
<1>7. Fits(T)
  BY <1>6 DEF Fits
<1> QED BY <1>7 DEF T

-----------------------------------------------------------------------------
(* The register page.                                                      *)

ImportPlans == [table : Seq(KeyRow), made : SUBSET KeyTypes, added : Nat,
                updated : Nat, duplicates : Nat, errors : Nat]

\* One row more is counted: added, updated, met before, or refused.
Counted(plan, next, added, updated, duplicates, errors) ==
  /\ next.added = plan.added + added
  /\ next.updated = plan.updated + updated
  /\ next.duplicates = plan.duplicates + duplicates
  /\ next.errors = plan.errors + errors

IsRefused(plan, row, next) ==
  next.table = plan.table /\ Counted(plan, next, 0, 0, 0, 1)

IsDuplicate(plan, row, next) ==
  /\ next.table = plan.table /\ HexAt(plan.table, row.hex) # {}
  /\ Counted(plan, next, 0, 0, 1, 0)

IsAdded(plan, row, next) ==
  /\ NumberAt(plan.table, row.name, row.number) = {} /\ HexAt(plan.table, row.hex) = {}
  /\ row.hex \in Hexes
  /\ next.table = Append(plan.table, NewRow(row.name, row.number, row.hex))
  /\ Counted(plan, next, 1, 0, 0, 0)

IsUpdated(plan, row, next) ==
  /\ HexAt(plan.table, row.hex) = {} /\ row.hex \in Hexes
  /\ \E i \in DOMAIN plan.table :
       /\ plan.table[i].hex = Blank
       /\ next.table = SetHex(plan.table, i, row.hex)
  /\ Counted(plan, next, 0, 1, 0, 0)

\* What a row of the page comes to.
Outcome(known, plan, row, next) ==
  /\ \/ next.made = plan.made
     \/ row.name \notin known /\ next.made = plan.made \cup {row.name}
  /\ \/ IsRefused(plan, row, next) \/ IsDuplicate(plan, row, next)
     \/ IsAdded(plan, row, next) \/ IsUpdated(plan, row, next)

\* The unique indexes make the row of a number of a type, and of a HEX, the only
\* one: to choose one is to take it.
LEMMA OneRowOfANumber ==
  ASSUME NEW table, Fits(table), NEW type, NEW number,
         NEW i \in NumberAt(table, type, number)
  PROVE  /\ NumberAt(table, type, number) = {i}
         /\ (CHOOSE j \in NumberAt(table, type, number) : TRUE) = i
BY DEF Fits, NumberAt

\* The row of a HEX is the only one.
LEMMA OneRowOfAHex ==
  ASSUME NEW table, Fits(table), NEW hex, hex # Blank, NEW i \in HexAt(table, hex)
  PROVE  HexAt(table, hex) = {i}
BY DEF Fits, HexAt

\* A row of the register page comes to one of the four outcomes.
LEMMA ImportRowOutcome ==
  ASSUME NEW known, NEW plan \in ImportPlans, Fits(plan.table), NEW row \in RegisterRow
  PROVE  Outcome(known, plan, row, ImportRow(known, plan, row))
<1> DEFINE next == ImportRow(known, plan, row)
           at == NumberAt(plan.table, row.name, row.number)
           made == IF row.name \in known \/ row.hex = BadHex THEN {} ELSE {row.name}
           typed == [plan EXCEPT !.made = @ \cup made]
           same == \E i \in at : plan.table[i].hex = row.hex
           blank == \E i \in at : plan.table[i].hex = Blank
<1>0. /\ typed \in ImportPlans
      /\ typed.table = plan.table /\ typed.added = plan.added
      /\ typed.updated = plan.updated /\ typed.duplicates = plan.duplicates
      /\ typed.errors = plan.errors /\ typed.made = plan.made \cup made
  BY DEF ImportPlans, RegisterRow
<1>1. \/ typed.made = plan.made
      \/ row.name \notin known /\ typed.made = plan.made \cup {row.name}
  BY <1>0 DEF ImportPlans
<1>2. row.hex \in Hexes \cup {BadHex}
  BY DEF RegisterRow, FileRow
<1>3. CASE row.hex = BadHex
  <2>1. next = [plan EXCEPT !.errors = @ + 1]
    BY <1>3 DEF ImportRow
  <2>2. next.made = plan.made /\ IsRefused(plan, row, next)
    BY <2>1 DEF ImportPlans, IsRefused, Counted
  <2> QED BY <2>2 DEF Outcome
<1>4. CASE row.hex # BadHex /\ (HexKnown(plan.table, row.hex, at) \/ same)
  <2>1. next = [typed EXCEPT !.duplicates = @ + 1]
    BY <1>4 DEF ImportRow
  <2>2. HexAt(plan.table, row.hex) # {}
    BY <1>4 DEF HexKnown, HexAt, NumberAt
  <2> HIDE DEF next, typed, at, same
  <2>3. next.made = typed.made /\ IsDuplicate(plan, row, next)
    BY <1>0, <2>1, <2>2 DEF ImportPlans, IsDuplicate, Counted
  <2> QED BY <1>1, <2>3 DEF Outcome, next
<1>5. CASE row.hex # BadHex /\ ~(HexKnown(plan.table, row.hex, at) \/ same)
  <2>0. row.hex \in Hexes /\ HexAt(plan.table, row.hex) = {}
    BY <1>2, <1>5 DEF HexKnown, HexAt, NumberAt
  <2>1. CASE at = {}
    <3>1. next = [typed EXCEPT !.added = @ + 1,
                               !.table = Append(@, NewRow(row.name, row.number, row.hex))]
      BY <1>5, <2>1 DEF ImportRow
    <3> HIDE DEF next, typed, same
    <3>2. next.made = typed.made /\ IsAdded(plan, row, next)
      BY <1>0, <2>0, <2>1, <3>1 DEF ImportPlans, IsAdded, Counted
    <3> QED BY <1>1, <3>2 DEF Outcome, next
  <2>2. CASE at # {} /\ blank
    <3>1. next = [typed EXCEPT !.updated = @ + 1,
                               !.table = SetHex(@, CHOOSE i \in at : TRUE, row.hex)]
      BY <1>5, <2>2 DEF ImportRow
    <3>2. PICK i \in at : plan.table[i].hex = Blank
      BY <2>2
    <3>3. i \in DOMAIN plan.table /\ (CHOOSE j \in at : TRUE) = i
      <4>1. (CHOOSE j \in at : TRUE) = i
        BY OneRowOfANumber
      <4> QED BY <4>1 DEF NumberAt
    <3>4. next = [typed EXCEPT !.updated = @ + 1, !.table = SetHex(@, i, row.hex)]
      BY <3>1, <3>3
    <3> HIDE DEF next, typed, same, at
    <3>5. /\ next.made = typed.made /\ next.table = SetHex(plan.table, i, row.hex)
          /\ Counted(plan, next, 0, 1, 0, 0)
      BY <1>0, <3>4 DEF ImportPlans, Counted
    <3>6. IsUpdated(plan, row, next)
      BY <2>0, <3>2, <3>3, <3>5 DEF IsUpdated
    <3> QED BY <1>1, <3>5, <3>6 DEF Outcome, next
  <2>3. CASE at # {} /\ ~blank
    <3>1. next = [typed EXCEPT !.errors = @ + 1]
      BY <1>5, <2>3 DEF ImportRow
    <3> HIDE DEF next, typed, same, at
    <3>2. next.made = typed.made /\ IsRefused(plan, row, next)
      BY <1>0, <3>1 DEF ImportPlans, IsRefused, Counted
    <3> QED BY <1>1, <3>2 DEF Outcome, next
  <2> QED BY <2>1, <2>2, <2>3
<1> QED BY <1>3, <1>4, <1>5

\* The plan an import begins with is well typed.
LEMMA NothingReadTyped ==
  ASSUME NEW before \in Seq(KeyRow) PROVE NothingRead(before) \in ImportPlans
BY DEF NothingRead, ImportPlans

\* A plan with another table is well typed.
LEMMA TablePut ==
  ASSUME NEW plan \in ImportPlans, NEW table \in Seq(KeyRow)
  PROVE  [plan EXCEPT !.table = table] \in ImportPlans
BY DEF ImportPlans

\* A plan with one of its counters raised is well typed.
LEMMA PlanFields ==
  ASSUME NEW plan \in ImportPlans, NEW table \in Seq(KeyRow)
  PROVE  /\ [plan EXCEPT !.duplicates = @ + 1] \in ImportPlans
         /\ [plan EXCEPT !.errors = @ + 1] \in ImportPlans
         /\ [plan EXCEPT !.added = @ + 1, !.table = table] \in ImportPlans
         /\ [plan EXCEPT !.updated = @ + 1, !.table = table] \in ImportPlans
<1>0. /\ plan.added + 1 \in Nat /\ plan.updated + 1 \in Nat
      /\ plan.duplicates + 1 \in Nat /\ plan.errors + 1 \in Nat
  BY DEF ImportPlans
<1>1. \A n \in Nat : [plan EXCEPT !.duplicates = n] \in ImportPlans
  BY SMTT(60) DEF ImportPlans
<1>2. \A n \in Nat : [plan EXCEPT !.errors = n] \in ImportPlans
  BY SMTT(60) DEF ImportPlans
<1>3. \A n \in Nat : [plan EXCEPT !.added = n] \in ImportPlans
  BY SMTT(60) DEF ImportPlans
<1>4. \A n \in Nat : [plan EXCEPT !.updated = n] \in ImportPlans
  BY SMTT(60) DEF ImportPlans
<1>5. \A n \in Nat : /\ [plan EXCEPT !.added = n, !.table = table] \in ImportPlans
                     /\ [plan EXCEPT !.updated = n, !.table = table] \in ImportPlans
  BY <1>3, <1>4, TablePut
<1> QED BY <1>0, <1>1, <1>2, <1>5

\* What a row makes of a plan is well typed.
LEMMA ImportRowTyped ==
  ASSUME NEW known, NEW plan \in ImportPlans, NEW row \in RegisterRow
  PROVE  ImportRow(known, plan, row) \in ImportPlans
<1> DEFINE at == NumberAt(plan.table, row.name, row.number)
           made == IF row.name \in known \/ row.hex = BadHex THEN {} ELSE {row.name}
           typed == [plan EXCEPT !.made = @ \cup made]
<1>1. /\ row.name \in KeyTypes /\ row.number \in Numbers /\ row.hex \in Hexes \cup {BadHex}
      /\ plan.table \in Seq(KeyRow)
  BY DEF RegisterRow, FileRow, ImportPlans
<1>2. typed \in ImportPlans /\ typed.table = plan.table
  BY <1>1 DEF ImportPlans
<1>3. CASE row.hex = BadHex
  <2>1. ImportRow(known, plan, row) = [plan EXCEPT !.errors = @ + 1]
    BY <1>3 DEF ImportRow
  <2> QED BY <2>1 DEF ImportPlans
<1>4. CASE row.hex # BadHex
  <2>1. Append(plan.table, NewRow(row.name, row.number, row.hex)) \in Seq(KeyRow)
    BY <1>1, <1>4, NewRowTyped, RowAdded
  <2>2. \A i \in at : SetHex(plan.table, i, row.hex) \in Seq(KeyRow)
    BY <1>1, <1>4, HexSet DEF NumberAt
  <2>3. at # {} => SetHex(plan.table, CHOOSE i \in at : TRUE, row.hex) \in Seq(KeyRow)
    BY <2>2
  <2>4. \/ ImportRow(known, plan, row) = [typed EXCEPT !.duplicates = @ + 1]
        \/ ImportRow(known, plan, row)
             = [typed EXCEPT !.added = @ + 1,
                             !.table = Append(@, NewRow(row.name, row.number, row.hex))]
        \/ at # {} /\ ImportRow(known, plan, row)
             = [typed EXCEPT !.updated = @ + 1,
                             !.table = SetHex(@, CHOOSE i \in at : TRUE, row.hex)]
        \/ ImportRow(known, plan, row) = [typed EXCEPT !.errors = @ + 1]
    BY <1>4, SMTT(30) DEF ImportRow
  <2> HIDE DEF typed, at
  <2>5. /\ [typed EXCEPT !.duplicates = @ + 1] \in ImportPlans
        /\ [typed EXCEPT !.errors = @ + 1] \in ImportPlans
    BY ZenonT(30), <1>1, <1>2, PlanFields
  <2>6. ASSUME NEW t \in Seq(KeyRow)
        PROVE  /\ [typed EXCEPT !.added = @ + 1, !.table = t] \in ImportPlans
               /\ [typed EXCEPT !.updated = @ + 1, !.table = t] \in ImportPlans
    BY <1>2, PlanFields
  <2> QED BY <1>2, <2>1, <2>3, <2>4, <2>5, <2>6
<1> QED BY <1>3, <1>4

\* The rows of a table are as they were but for a HEX where there was none.
OnlyFilled(before, table) ==
  \A i \in DOMAIN before :
    /\ table[i].type = before[i].type
    /\ table[i].number = before[i].number
    /\ table[i].home = before[i].home
    /\ before[i].hex # Blank => table[i].hex = before[i].hex

\* What has become of the first n rows of a file: the counts of the report are
\* those of the table, which fits; a key that had a HEX is as it was.
ImportTold(before, known, file, n, plan) ==
  /\ Fits(plan.table)
  /\ Len(plan.table) = Len(before) + plan.added
  /\ OnlyFilled(before, plan.table)
  /\ \A i \in DOMAIN plan.table \ DOMAIN before : plan.table[i].hex # Blank
  /\ plan.made \cap known = {}
  /\ plan.updated = Cardinality({i \in DOMAIN before : plan.table[i] # before[i]})
  /\ plan.added + plan.updated + plan.duplicates + plan.errors = n
  /\ plan.errors = 0 => \A j \in 1 .. n : HexAt(plan.table, file[j].hex) # {}

\* Whichever counter a row raises, the counters add up to one row more.
LEMMA OneMore ==
  ASSUME NEW plan, NEW n \in Nat, plan.added \in Nat, plan.updated \in Nat,
         plan.duplicates \in Nat, plan.errors \in Nat,
         plan.added + plan.updated + plan.duplicates + plan.errors = n - 1
  PROVE  /\ (plan.added + 1) + plan.updated + plan.duplicates + plan.errors = n
         /\ plan.added + (plan.updated + 1) + plan.duplicates + plan.errors = n
         /\ plan.added + plan.updated + (plan.duplicates + 1) + plan.errors = n
         /\ plan.added + plan.updated + plan.duplicates + (plan.errors + 1) = n
OBVIOUS

\* A row keeps true what a plan tells of the rows before it.
LEMMA ImportToldKept ==
  ASSUME NEW before \in Seq(KeyRow), NEW known, NEW file \in Seq(RegisterRow),
         NEW n \in 1 .. Len(file), NEW plan \in ImportPlans,
         ImportTold(before, known, file, n - 1, plan)
  PROVE  ImportTold(before, known, file, n, ImportRow(known, plan, file[n]))
<1> DEFINE row == file[n]
           next == ImportRow(known, plan, row)
           table == plan.table
<1>0. /\ n \in Nat /\ row \in RegisterRow /\ table \in Seq(KeyRow)
      /\ plan.made \subseteq KeyTypes
      /\ plan.added \in Nat /\ plan.updated \in Nat /\ plan.duplicates \in Nat
      /\ plan.errors \in Nat
  BY LenProperties, ElementOfSeq DEF ImportPlans
<1>14. /\ n \in Nat /\ plan.added \in Nat /\ plan.updated \in Nat
       /\ plan.duplicates \in Nat /\ plan.errors \in Nat
  BY <1>0
<1>15. plan.added + plan.updated + plan.duplicates + plan.errors = n - 1
  BY DEF ImportTold
<1>16. /\ (plan.added + 1) + plan.updated + plan.duplicates + plan.errors = n
       /\ plan.added + (plan.updated + 1) + plan.duplicates + plan.errors = n
       /\ plan.added + plan.updated + (plan.duplicates + 1) + plan.errors = n
       /\ plan.added + plan.updated + plan.duplicates + (plan.errors + 1) = n
  BY <1>14, <1>15, OneMore
<1>1. next \in ImportPlans
  BY <1>0, ImportRowTyped
<1>2. Outcome(known, plan, row, next)
  BY <1>0, ImportRowOutcome DEF ImportTold
<1>3. next.made \cap known = {}
  BY <1>2 DEF Outcome, ImportTold
<1>4. /\ Len(before) \in Nat /\ DOMAIN before = 1 .. Len(before)
      /\ Len(table) \in Nat /\ DOMAIN table = 1 .. Len(table)
      /\ DOMAIN before \subseteq DOMAIN table
  <2>1. Len(before) \in Nat /\ DOMAIN before = 1 .. Len(before)
    BY TableRows
  <2>2. Len(table) \in Nat /\ DOMAIN table = 1 .. Len(table)
    BY <1>0, TableRows
  <2>3. Len(table) = Len(before) + plan.added
    BY DEF ImportTold
  <2> QED BY <1>0, <2>1, <2>2, <2>3
<1> DEFINE changed(t) == {i \in DOMAIN before : t[i] # before[i]}
<1>5. row.name \in KeyTypes /\ row.number \in Numbers /\ row = file[n]
  BY <1>0 DEF RegisterRow, FileRow
<1>11. /\ plan.updated = Cardinality(changed(table))
       /\ plan.added + plan.updated + plan.duplicates + plan.errors = n - 1
       /\ Len(table) = Len(before) + plan.added
  BY DEF ImportTold
<1>12. plan.errors = 0 => \A j \in 1 .. n - 1 : HexAt(table, file[j].hex) # {}
  BY DEF ImportTold
<1>13. /\ Fits(table)
       /\ OnlyFilled(before, table)
       /\ \A i \in DOMAIN table \ DOMAIN before : table[i].hex # Blank
  BY DEF ImportTold
<1> HIDE DEF next, table, row
<1>6. \A j \in 1 .. n : j \in 1 .. n - 1 \/ j = n
  BY <1>0
<1>7. CASE IsRefused(plan, row, next)
  <2>1. next.table = table /\ Counted(plan, next, 0, 0, 0, 1)
    BY <1>7 DEF IsRefused, table
  <2>2. /\ Len(next.table) = Len(before) + next.added
        /\ next.added + next.updated + next.duplicates + next.errors = n
        /\ next.updated = Cardinality(changed(next.table))
        /\ next.errors # 0
    <3>1. /\ next.added = plan.added /\ next.updated = plan.updated
          /\ next.duplicates = plan.duplicates /\ next.errors = plan.errors + 1
      BY <1>0, <2>1 DEF Counted
    <3> HIDE DEF changed
    <3>2. Len(next.table) = Len(before) + next.added
      BY <1>11, <2>1, <3>1
    <3>3. next.added + next.updated + next.duplicates + next.errors = n
      BY <1>16, <3>1
    <3>4. next.updated = Cardinality(changed(next.table))
      BY <1>11, <2>1, <3>1
    <3> QED BY <1>0, <3>1, <3>2, <3>3, <3>4
  <2> QED BY <1>3, <1>13, <2>1, <2>2 DEF ImportTold, next, row
<1>8. CASE IsDuplicate(plan, row, next)
  <2>1. /\ next.table = table /\ Counted(plan, next, 0, 0, 1, 0)
        /\ HexAt(next.table, file[n].hex) # {}
    BY <1>5, <1>8 DEF IsDuplicate, table
  <2>2. /\ Len(next.table) = Len(before) + next.added
        /\ next.added + next.updated + next.duplicates + next.errors = n
        /\ next.updated = Cardinality(changed(next.table))
        /\ next.errors = plan.errors
    <3>1. /\ next.added = plan.added /\ next.updated = plan.updated
          /\ next.duplicates = plan.duplicates + 1 /\ next.errors = plan.errors
      BY <1>0, <2>1 DEF Counted
    <3> HIDE DEF changed
    <3>2. Len(next.table) = Len(before) + next.added
      BY <1>11, <2>1, <3>1
    <3>3. next.added + next.updated + next.duplicates + next.errors = n
      BY <1>16, <3>1
    <3>4. next.updated = Cardinality(changed(next.table))
      BY <1>11, <2>1, <3>1
    <3> QED BY <1>0, <3>1, <3>2, <3>3, <3>4
  <2>3. next.errors = 0 => \A j \in 1 .. n : HexAt(next.table, file[j].hex) # {}
    BY <1>6, <1>12, <2>1, <2>2
  <2> QED BY <1>3, <1>13, <2>1, <2>2, <2>3 DEF ImportTold, next, row
<1>9. CASE IsAdded(plan, row, next)
  <2> DEFINE new == NewRow(row.name, row.number, row.hex)
  <2>1. new \in KeyRow /\ new.hex = row.hex /\ row.hex # Blank
    BY <1>5, <1>9, NewRowTyped, BlankAssumption DEF IsAdded, NewRow
  <2>2. next.table = Append(table, new) /\ Counted(plan, next, 1, 0, 0, 0)
    BY <1>9 DEF IsAdded, table
  <2>3. Fits(next.table)
    <3>1. /\ NumberAt(table, row.name, row.number) = {} /\ HexAt(table, row.hex) = {}
          /\ row.hex \in Hexes \cup {Blank}
      BY <1>9 DEF IsAdded, table
    <3>2. Fits(Append(table, new))
      BY <1>0, <1>5, <1>13, <3>1, AddedFits
    <3> QED BY <2>2, <3>2
  <2> HIDE DEF new
  <2>4. /\ Len(next.table) = Len(table) + 1 /\ DOMAIN next.table = 1 .. Len(table) + 1
        /\ next.table[Len(table) + 1] = new
        /\ \A i \in DOMAIN table : i \in DOMAIN next.table /\ next.table[i] = table[i]
    BY <1>0, <2>1, <2>2, RowAdded
  <2>5. Len(next.table) = Len(before) + next.added
    BY <1>0, <1>4, <1>11, <2>2, <2>4 DEF Counted
  <2>6. \A i \in DOMAIN before : next.table[i] = table[i]
    BY <1>4, <2>4
  <2>7. \A i \in DOMAIN next.table \ DOMAIN before : next.table[i].hex # Blank
    <3>1. \A i \in DOMAIN next.table : i \in DOMAIN table \/ i = Len(table) + 1
      BY <1>4, <2>4
    <3> QED BY <1>13, <2>1, <2>4, <3>1
  <2>8. changed(next.table) = changed(table)
    BY <2>6
  <2>9. \A j \in 1 .. n - 1 :
          HexAt(table, file[j].hex) # {} => HexAt(next.table, file[j].hex) # {}
    BY <2>4 DEF HexAt
  <2>10. HexAt(next.table, file[n].hex) # {}
    <3>1. Len(table) + 1 \in DOMAIN next.table
      BY <1>4, <2>4
    <3> QED BY <2>1, <2>4, <3>1 DEF HexAt, row
  <2>11. next.errors = 0 => \A j \in 1 .. n : HexAt(next.table, file[j].hex) # {}
    <3>1. next.errors = plan.errors
      BY <1>0, <2>2 DEF Counted
    <3> QED BY <1>6, <1>12, <2>9, <2>10, <3>1
  <2>12. /\ next.updated = Cardinality(changed(next.table))
         /\ next.added + next.updated + next.duplicates + next.errors = n
    <3>1. /\ next.added = plan.added + 1 /\ next.updated = plan.updated
          /\ next.duplicates = plan.duplicates /\ next.errors = plan.errors
      BY <1>0, <2>2 DEF Counted
    <3> HIDE DEF changed
    <3>2. next.added + next.updated + next.duplicates + next.errors = n
      BY <1>16, <3>1
    <3>3. next.updated = Cardinality(changed(next.table))
      BY <1>11, <2>8, <3>1
    <3> QED BY <3>2, <3>3
  <2>13. OnlyFilled(before, next.table)
    BY <1>13, <2>6 DEF OnlyFilled
  <2> QED BY <1>3, <2>3, <2>5, <2>7, <2>11, <2>12, <2>13 DEF ImportTold, next, row
<1>10. CASE IsUpdated(plan, row, next)
  <2>1. PICK id \in DOMAIN table : /\ table[id].hex = Blank
                                   /\ next.table = SetHex(table, id, row.hex)
    BY <1>10 DEF IsUpdated, table
  <2>2. /\ row.hex \in Hexes /\ row.hex # Blank /\ HexAt(table, row.hex) = {}
        /\ Counted(plan, next, 0, 1, 0, 0)
    BY <1>10, BlankAssumption DEF IsUpdated, table
  <2>3. Fits(next.table)
    BY <1>0, <1>13, <2>1, <2>2, HexSetFits
  <2>4. /\ Len(next.table) = Len(table) /\ DOMAIN next.table = DOMAIN table
        /\ next.table[id] = [table[id] EXCEPT !.hex = row.hex]
        /\ \A i \in DOMAIN table : i # id => next.table[i] = table[i]
    BY <1>0, <2>1, <2>2, HexSet
  <2>5. id \in DOMAIN before
    BY <1>13, <2>1
  <2>6. table[id] \in KeyRow /\ before[id] \in KeyRow
    BY <1>0, <2>1, <2>5, TableRows
  <2>7. next.table[id].hex = row.hex
    BY <2>4, <2>6 DEF KeyRow
  <2>8. table[id] = before[id]
    <3>1. /\ table[id].type = before[id].type /\ table[id].number = before[id].number
          /\ table[id].home = before[id].home
      BY <1>13, <2>5 DEF OnlyFilled
    <3>2. before[id].hex = Blank
      BY <1>13, <2>1, <2>5 DEF OnlyFilled
    <3> QED BY <2>1, <2>6, <3>1, <3>2 DEF KeyRow
  <2>9. OnlyFilled(before, next.table)
    <3>1. \A i \in DOMAIN before : i # id => next.table[i] = table[i]
      BY <1>4, <2>4
    <3>2. /\ next.table[id].type = before[id].type
          /\ next.table[id].number = before[id].number
          /\ next.table[id].home = before[id].home /\ before[id].hex = Blank
      BY <2>1, <2>4, <2>6, <2>8 DEF KeyRow
    <3> QED BY <1>13, <3>1, <3>2 DEF OnlyFilled
  <2>10. changed(next.table) = changed(table) \cup {id} /\ id \notin changed(table)
    <3>1. next.table[id] # before[id]
      BY <2>1, <2>2, <2>7, <2>8
    <3> QED BY <1>4, <2>4, <2>5, <2>8, <3>1
  <2>11. Cardinality(changed(next.table)) = Cardinality(changed(table)) + 1
    <3>1. IsFiniteSet(changed(table))
      <4>1. changed(table) \subseteq 1 .. Len(before) /\ Len(before) \in Nat
        BY <1>4
      <4>2. IsFiniteSet(1 .. Len(before))
        BY <4>1, FS_Interval
      <4> HIDE DEF changed
      <4> QED BY <4>1, <4>2, FS_Subset
    <3> HIDE DEF changed
    <3> QED BY <2>10, <3>1, FS_AddElement
  <2>12. /\ next.updated = Cardinality(changed(next.table))
         /\ next.added + next.updated + next.duplicates + next.errors = n
         /\ Len(next.table) = Len(before) + next.added
    <3>1. /\ next.added = plan.added /\ next.updated = plan.updated + 1
          /\ next.duplicates = plan.duplicates /\ next.errors = plan.errors
      BY <1>0, <2>2 DEF Counted
    <3> HIDE DEF changed
    <3>2. next.added + next.updated + next.duplicates + next.errors = n
      BY <1>16, <3>1
    <3>3. next.updated = Cardinality(changed(next.table))
      BY <1>11, <2>11, <3>1
    <3>4. Len(next.table) = Len(before) + next.added
      BY <1>11, <2>4, <3>1
    <3> QED BY <3>2, <3>3, <3>4
  <2>13. \A i \in DOMAIN next.table \ DOMAIN before : next.table[i].hex # Blank
    BY <1>13, <2>4, <2>5
  <2>14. \A j \in 1 .. n - 1 :
           HexAt(table, file[j].hex) # {} => HexAt(next.table, file[j].hex) # {}
    <3> SUFFICES ASSUME NEW j \in 1 .. n - 1, HexAt(table, file[j].hex) # {}
                 PROVE  HexAt(next.table, file[j].hex) # {}
      OBVIOUS
    <3>1. PICK i \in DOMAIN table : table[i].hex = file[j].hex
      BY DEF HexAt
    <3>2. file[j].hex # Blank
      <4>1. file[j] \in RegisterRow
        <5>1. j \in 1 .. Len(file)
          BY <1>0, LenProperties
        <5> QED BY <5>1, ElementOfSeq
      <4> QED BY <4>1, BlankAssumption, BadHexAssumption DEF RegisterRow, FileRow
    <3>3. i # id
      BY <2>1, <3>1, <3>2
    <3> QED BY <2>4, <3>1, <3>3 DEF HexAt
  <2>15. HexAt(next.table, file[n].hex) # {}
    BY <2>1, <2>4, <2>7 DEF HexAt, row
  <2>16. next.errors = 0 => \A j \in 1 .. n : HexAt(next.table, file[j].hex) # {}
    <3>1. next.errors = plan.errors
      BY <1>0, <2>2 DEF Counted
    <3> QED BY <1>6, <1>12, <2>14, <2>15, <3>1
  <2> QED BY <1>3, <2>3, <2>9, <2>12, <2>13, <2>16 DEF ImportTold, next, row
<1> QED BY <1>2, <1>7, <1>8, <1>9, <1>10 DEF Outcome, next, row

-----------------------------------------------------------------------------
(* What a commit writes.                                                   *)

\* A function on the first n positions is a table of n rows.
LEMMA RowsAreTable ==
  ASSUME NEW n \in Nat, NEW rows \in [1 .. n -> KeyRow]
  PROVE  rows \in Seq(KeyRow) /\ Len(rows) = n /\ DOMAIN rows = 1 .. n
<1>1. rows \in Seq(KeyRow)
  BY SeqDef
<1>2. DOMAIN rows = 1 .. Len(rows) /\ Len(rows) \in Nat
  BY <1>1, LenProperties
<1>3. DOMAIN rows = 1 .. n
  OBVIOUS
<1>4. Len(rows) = n
  BY <1>2, <1>3
<1> QED BY <1>1, <1>3, <1>4

WithTail(kept, plan, m) == kept \o SubSeq(plan, m + 1, Len(plan))

\* The rows a plan adds come after those there are.
LEMMA TailAdded ==
  ASSUME NEW kept \in Seq(KeyRow), NEW plan \in Seq(KeyRow), NEW m \in Nat,
         m <= Len(plan)
  PROVE  /\ WithTail(kept, plan, m) \in Seq(KeyRow)
         /\ Len(WithTail(kept, plan, m)) = Len(kept) + (Len(plan) - m)
         /\ DOMAIN kept \subseteq DOMAIN WithTail(kept, plan, m)
         /\ \A i \in DOMAIN kept : WithTail(kept, plan, m)[i] = kept[i]
         /\ Len(kept) = m =>
              \A i \in m + 1 .. Len(plan) : WithTail(kept, plan, m)[i] = plan[i]
<1> DEFINE tail == SubSeq(plan, m + 1, Len(plan))
           all == kept \o tail
<1>0. /\ Len(plan) \in Nat /\ Len(kept) \in Nat /\ DOMAIN kept = 1 .. Len(kept)
      /\ m + 1 \in Int
  BY TableRows
<1>1. \A i \in m + 1 .. Len(plan) : plan[i] \in KeyRow
  <2>1. \A i \in m + 1 .. Len(plan) : i \in 1 .. Len(plan)
    BY <1>0
  <2> QED BY <2>1, ElementOfSeq
<1>2. /\ tail \in Seq(KeyRow)
      /\ Len(tail) = IF m + 1 <= Len(plan) THEN Len(plan) - (m + 1) + 1 ELSE 0
      /\ \A i \in 1 .. Len(plan) - (m + 1) + 1 : tail[i] = plan[(m + 1) + i - 1]
  BY <1>0, <1>1, SubSeqProperties
<1>3. Len(tail) = Len(plan) - m
  BY <1>0, <1>2
<1> HIDE DEF tail
<1>4. /\ all \in Seq(KeyRow) /\ Len(all) = Len(kept) + Len(tail)
      /\ \A i \in 1 .. Len(kept) + Len(tail) :
           all[i] = IF i <= Len(kept) THEN kept[i] ELSE tail[i - Len(kept)]
  BY <1>2, ConcatProperties
<1> HIDE DEF all
<1>5. Len(all) = Len(kept) + (Len(plan) - m)
  BY <1>3, <1>4
<1>6. DOMAIN all = 1 .. Len(all)
  BY <1>4, LenProperties
<1>7. ASSUME NEW i \in DOMAIN kept PROVE i \in DOMAIN all /\ all[i] = kept[i]
  <2>1. i \in 1 .. Len(kept) + Len(tail) /\ i <= Len(kept)
    BY <1>0, <1>3
  <2> QED BY <1>4, <1>6, <2>1
<1>8. ASSUME Len(kept) = m, NEW i \in m + 1 .. Len(plan) PROVE all[i] = plan[i]
  <2>1. /\ i \in 1 .. Len(kept) + Len(tail) /\ ~ (i <= Len(kept))
        /\ i - m \in 1 .. Len(plan) - (m + 1) + 1 /\ (m + 1) + (i - m) - 1 = i
    BY <1>0, <1>3, <1>8
  <2>2. all[i] = tail[i - m]
    BY <1>4, <1>8, <2>1
  <2>3. tail[i - m] = plan[(m + 1) + (i - m) - 1]
    BY <1>2, <2>1
  <2> QED BY <2>1, <2>2, <2>3
<1> QED BY <1>4, <1>5, <1>7, <1>8 DEF all, tail, WithTail

\* An import gives a HEX to rows without one, and adds rows.
LEMMA MergedRows ==
  ASSUME NEW now \in Seq(KeyRow), NEW before \in Seq(KeyRow), NEW plan \in Seq(KeyRow),
         Len(before) <= Len(now), Len(before) <= Len(plan)
  PROVE  /\ Merged(now, before, plan) \in Seq(KeyRow)
         /\ Len(Merged(now, before, plan)) = Len(now) + (Len(plan) - Len(before))
         /\ DOMAIN now \subseteq DOMAIN Merged(now, before, plan)
         /\ \A i \in DOMAIN now : now[i].hex # Blank
                                    => Merged(now, before, plan)[i] = now[i]
<1> DEFINE row(i) == IF i > Len(before) THEN now[i]
                     ELSE [now[i] EXCEPT !.hex = Filled(@, before[i].hex, plan[i].hex)]
           kept == [i \in DOMAIN now |-> row(i)]
<1>0. /\ Len(now) \in Nat /\ Len(before) \in Nat /\ Len(plan) \in Nat
      /\ DOMAIN now = 1 .. Len(now)
  BY TableRows
<1>1. ASSUME NEW i \in DOMAIN now
      PROVE  row(i) \in KeyRow /\ (now[i].hex # Blank => row(i) = now[i])
  <2>1. now[i] \in KeyRow
    BY TableRows
  <2>2. CASE i > Len(before)
    BY <2>1, <2>2
  <2>3. CASE ~ (i > Len(before))
    <3>1. i \in 1 .. Len(plan)
      BY <1>0, <2>3
    <3>2. plan[i] \in KeyRow
      BY <3>1, ElementOfSeq
    <3>3. row(i) = [now[i] EXCEPT !.hex = Filled(@, before[i].hex, plan[i].hex)]
      BY <2>3
    <3>4. Filled(now[i].hex, before[i].hex, plan[i].hex) \in Hexes \cup {Blank}
          /\ (now[i].hex # Blank
                => Filled(now[i].hex, before[i].hex, plan[i].hex) = now[i].hex)
      BY <2>1, <3>2 DEF Filled, KeyRow
    <3> QED BY <2>1, <3>3, <3>4 DEF KeyRow
  <2> QED BY <2>2, <2>3
<1>2. kept \in [1 .. Len(now) -> KeyRow] /\ DOMAIN kept = DOMAIN now
  BY <1>0, <1>1
<1>3. Merged(now, before, plan) = WithTail(kept, plan, Len(before))
  BY DEF Merged, WithTail
<1>5. \A i \in DOMAIN now : now[i].hex # Blank => kept[i] = now[i]
  BY <1>1
<1> HIDE DEF kept
<1>4. kept \in Seq(KeyRow) /\ Len(kept) = Len(now)
  BY <1>0, <1>2, RowsAreTable
<1> DEFINE all == WithTail(kept, plan, Len(before))
<1>6. /\ all \in Seq(KeyRow) /\ Len(all) = Len(kept) + (Len(plan) - Len(before))
      /\ DOMAIN kept \subseteq DOMAIN all
      /\ \A i \in DOMAIN kept : all[i] = kept[i]
  BY <1>0, <1>4, TailAdded
<1> HIDE DEF all
<1> QED BY <1>2, <1>3, <1>4, <1>5, <1>6 DEF all

\* Made on the table it was made from, a plan is what comes out.
LEMMA MergedIsPlan ==
  ASSUME NEW before \in Seq(KeyRow), NEW plan \in Seq(KeyRow), Len(before) <= Len(plan),
         OnlyFilled(before, plan)
  PROVE  Merged(before, before, plan) = plan
<1> DEFINE row(i) == IF i > Len(before) THEN before[i]
                     ELSE [before[i] EXCEPT !.hex = Filled(@, before[i].hex, plan[i].hex)]
           kept == [i \in DOMAIN before |-> row(i)]
<1>0. /\ Len(before) \in Nat /\ Len(plan) \in Nat
      /\ DOMAIN before = 1 .. Len(before)
  BY TableRows
<1>1. ASSUME NEW i \in DOMAIN before PROVE row(i) = plan[i] /\ plan[i] \in KeyRow
  <2>1. before[i] \in KeyRow /\ plan[i] \in KeyRow /\ ~ (i > Len(before))
    <3>1. i \in 1 .. Len(before) /\ i \in 1 .. Len(plan)
      BY <1>0
    <3> QED BY <3>1, <1>0, ElementOfSeq
  <2>2. row(i) = [before[i] EXCEPT !.hex = Filled(@, before[i].hex, plan[i].hex)]
    BY <2>1
  <2>3. /\ plan[i].type = before[i].type /\ plan[i].number = before[i].number
        /\ plan[i].home = before[i].home
        /\ before[i].hex # Blank => plan[i].hex = before[i].hex
    BY DEF OnlyFilled
  <2>4. plan[i] = [before[i] EXCEPT !.hex = plan[i].hex]
    BY <2>1, <2>3 DEF KeyRow
  <2>5. Filled(before[i].hex, before[i].hex, plan[i].hex) = plan[i].hex
    BY <2>3 DEF Filled
  <2> QED BY <2>1, <2>2, <2>4, <2>5
<1>2. kept \in [1 .. Len(before) -> KeyRow]
  BY <1>0, <1>1
<1>3. Merged(before, before, plan) = WithTail(kept, plan, Len(before))
  BY DEF Merged, WithTail
<1>5. \A i \in DOMAIN before : kept[i] = plan[i]
  BY <1>1
<1> HIDE DEF kept
<1>4. kept \in Seq(KeyRow) /\ Len(kept) = Len(before) /\ DOMAIN kept = DOMAIN before
  BY <1>0, <1>2, RowsAreTable
<1> DEFINE all == WithTail(kept, plan, Len(before))
<1>6. /\ all \in Seq(KeyRow) /\ Len(all) = Len(kept) + (Len(plan) - Len(before))
      /\ \A i \in DOMAIN kept : all[i] = kept[i]
      /\ Len(kept) = Len(before) =>
           \A i \in Len(before) + 1 .. Len(plan) : all[i] = plan[i]
  <2>1. /\ all \in Seq(KeyRow) /\ Len(all) = Len(kept) + (Len(plan) - Len(before))
        /\ \A i \in DOMAIN kept : all[i] = kept[i]
    BY <1>0, <1>4, TailAdded
  <2>2. Len(kept) = Len(before) =>
          \A i \in Len(before) + 1 .. Len(plan) : all[i] = plan[i]
    BY <1>0, <1>4, TailAdded
  <2> QED BY <2>1, <2>2
<1> HIDE DEF all
<1>7. Len(all) = Len(plan) /\ \A i \in 1 .. Len(all) : all[i] = plan[i]
  <2>1. Len(all) = Len(plan)
    BY <1>0, <1>4, <1>6
  <2>2. \A i \in 1 .. Len(all) : i \in DOMAIN before \/ i \in Len(before) + 1 .. Len(plan)
    BY <1>0, <2>1
  <2> QED BY <1>4, <1>5, <1>6, <2>1, <2>2
<1>8. all = plan
  BY <1>6, <1>7, SeqEqual
<1> QED BY <1>3, <1>8 DEF all

-----------------------------------------------------------------------------
(* The folds of the two migrations.                                        *)

IssuedRows(file) == {r \in ToSet(file) : r.to # Unassigned /\ r.hex # BadHex}

IssuedStart(before, file) ==
  [NothingLinked(before) EXCEPT
     !.errors = Cardinality({i \in DOMAIN file : /\ file[i].to # Unassigned
                                                /\ file[i].hex = BadHex})
                  + ConflictCount(IssuedRows(file))]

IssuedSteps(before, known, file, dry, plans) ==
  /\ plans[0] = IssuedStart(before, file)
  /\ \A n \in 1 .. Len(file) :
       plans[n] = IssuedRow(known, IssuedRows(file), plans[n - 1], file[n], dry)
  /\ IssuedPlan(before, known, file, dry) = plans[Len(file)]

FreeRows(file) == {r \in ToSet(file) : r.to = Unassigned /\ r.hex # BadHex}

FreeStart(before, file) ==
  [NothingLinked(before) EXCEPT
     !.errors = Cardinality({i \in DOMAIN file : /\ file[i].to = Unassigned
                                                /\ file[i].hex = BadHex})]

FreeSteps(before, known, file, plans) ==
  /\ plans[0] = FreeStart(before, file)
  /\ \A n \in 1 .. Len(file) :
       plans[n] = FreeRow(known, FreeRows(file), plans[n - 1], file[n])
  /\ FreePlan(before, known, file) = plans[Len(file)]

\* As ImportFold.
LEMMA IssuedFold ==
  ASSUME NEW R, NEW file \in Seq(R), NEW before, NEW known, NEW dry, NEW rows,
         rows = IssuedRows(file), NEW X,
         IssuedStart(before, file) \in X,
         \A plan \in X, row \in R : IssuedRow(known, rows, plan, row, dry) \in X
  PROVE  \E plans \in [0 .. Len(file) -> X] : IssuedSteps(before, known, file, dry, plans)
<1>0. /\ Len(file) \in Nat /\ DOMAIN file = 1 .. Len(file)
      /\ \A i \in 1 .. Len(file) : file[i] \in R
  BY LenProperties, ElementOfSeq
<1> DEFINE F == [x \in X \X R |-> IssuedRow(known, rows, x[1], x[2], dry)]
           Rec(f) == f = [s \in SUBSET (DOMAIN file) |->
                            IF s = {} THEN IssuedStart(before, file)
                            ELSE IssuedRow(known, rows, f[s \ {Max(s)}], file[Max(s)], dry)]
           iter == CHOOSE f : Rec(f)
<1>1. F \in [X \X R -> X]
  OBVIOUS
<1>2. PICK f \in [SUBSET (1 .. Len(file)) -> X] :
        IsFold(f, F, X, IssuedStart(before, file), file, Len(file))
  <2> HIDE DEF F
  <2> QED BY <1>1, FoldExists DEF Foldable
<1>3. ASSUME NEW s \in SUBSET (1 .. Len(file)), s # {}
      PROVE  /\ Max(s) \in 1 .. Len(file) /\ s \ {Max(s)} \in SUBSET (1 .. Len(file))
             /\ f[s] = IssuedRow(known, rows, f[s \ {Max(s)}], file[Max(s)], dry)
  <2>1. Max(s) \in s
    BY <1>0, <1>3, LastPosition
  <2>2. f[s] = F[<<f[s \ {Max(s)}], file[Max(s)]>>]
    BY <1>2, <1>3 DEF IsFold
  <2>3. f[s \ {Max(s)}] \in X /\ file[Max(s)] \in R
    BY <1>0, <2>1
  <2> QED BY <2>1, <2>2, <2>3
<1>4. Rec(f)
  BY <1>0, <1>2, <1>3 DEF IsFold
<1>5. Rec(iter)
  BY <1>4
<1>6. IssuedPlan(before, known, file, dry) = iter[DOMAIN file]
  BY DEF IssuedPlan, IssuedStart, IssuedRows, FoldLeft, MapThenFoldSet
<1>7. IsFold(iter, F, X, IssuedStart(before, file), file, Len(file))
  <2>1. \A s \in SUBSET (DOMAIN file) :
          iter[s] = IF s = {} THEN IssuedStart(before, file)
                    ELSE IssuedRow(known, rows, iter[s \ {Max(s)}], file[Max(s)], dry)
    <3> HIDE DEF iter
    <3> QED BY <1>5
  <2> HIDE DEF iter, Rec
  <2>2. ASSUME NEW s \in SUBSET (1 .. Len(file)), s # {}, iter[s \ {Max(s)}] \in X
        PROVE  iter[s] = F[<<iter[s \ {Max(s)}], file[Max(s)]>>]
    <3>1. file[Max(s)] \in R
      BY <1>0, <1>3, <2>2
    <3> QED BY <1>0, <2>1, <2>2, <3>1
  <2> HIDE DEF F
  <2> QED BY <1>0, <2>1, <2>2 DEF IsFold
<1> DEFINE plans == [n \in 0 .. Len(file) |-> iter[1 .. n]]
<1>8. plans \in [0 .. Len(file) -> X] /\ FoldSteps(plans, F, IssuedStart(before, file), file)
  <2> HIDE DEF F, iter
  <2>1. IssuedStart(before, file) \in X
    OBVIOUS
  <2>2. Stepwise(iter, F, X, IssuedStart(before, file), file)
    BY <1>1, <1>7, <2>1, FoldByStep
  <2> QED BY <2>2 DEF Stepwise
<1>9. IssuedSteps(before, known, file, dry, plans)
  <2> HIDE DEF iter
  <2>1. plans[0] = IssuedStart(before, file)
    BY <1>8 DEF FoldSteps
  <2>2. ASSUME NEW n \in 1 .. Len(file)
        PROVE  plans[n] = IssuedRow(known, rows, plans[n - 1], file[n], dry)
    <3>1. plans[n - 1] \in X /\ file[n] \in R
      <4>1. n - 1 \in 0 .. Len(file)
        BY <1>0
      <4> HIDE DEF plans
      <4> QED BY <1>0, <1>8, <4>1
    <3>2. plans[n] = F[<<plans[n - 1], file[n]>>]
      BY <1>8 DEF FoldSteps
    <3> HIDE DEF plans
    <3> QED BY <3>1, <3>2
  <2>3. IssuedPlan(before, known, file, dry) = plans[Len(file)]
    BY <1>0, <1>6
  <2> QED BY <2>1, <2>2, <2>3 DEF IssuedSteps
<1> QED BY <1>8, <1>9

\* As ImportFold.
LEMMA FreeFold ==
  ASSUME NEW R, NEW file \in Seq(R), NEW before, NEW known, NEW rows,
         rows = FreeRows(file), NEW X,
         FreeStart(before, file) \in X,
         \A plan \in X, row \in R : FreeRow(known, rows, plan, row) \in X
  PROVE  \E plans \in [0 .. Len(file) -> X] : FreeSteps(before, known, file, plans)
<1>0. /\ Len(file) \in Nat /\ DOMAIN file = 1 .. Len(file)
      /\ \A i \in 1 .. Len(file) : file[i] \in R
  BY LenProperties, ElementOfSeq
<1> DEFINE F == [x \in X \X R |-> FreeRow(known, rows, x[1], x[2])]
           Rec(f) == f = [s \in SUBSET (DOMAIN file) |->
                            IF s = {} THEN FreeStart(before, file)
                            ELSE FreeRow(known, rows, f[s \ {Max(s)}], file[Max(s)])]
           iter == CHOOSE f : Rec(f)
<1>1. F \in [X \X R -> X]
  OBVIOUS
<1>2. PICK f \in [SUBSET (1 .. Len(file)) -> X] :
        IsFold(f, F, X, FreeStart(before, file), file, Len(file))
  <2> HIDE DEF F
  <2> QED BY <1>1, FoldExists DEF Foldable
<1>3. ASSUME NEW s \in SUBSET (1 .. Len(file)), s # {}
      PROVE  /\ Max(s) \in 1 .. Len(file) /\ s \ {Max(s)} \in SUBSET (1 .. Len(file))
             /\ f[s] = FreeRow(known, rows, f[s \ {Max(s)}], file[Max(s)])
  <2>1. Max(s) \in s
    BY <1>0, <1>3, LastPosition
  <2>2. f[s] = F[<<f[s \ {Max(s)}], file[Max(s)]>>]
    BY <1>2, <1>3 DEF IsFold
  <2>3. f[s \ {Max(s)}] \in X /\ file[Max(s)] \in R
    BY <1>0, <2>1
  <2> QED BY <2>1, <2>2, <2>3
<1>4. Rec(f)
  BY <1>0, <1>2, <1>3 DEF IsFold
<1>5. Rec(iter)
  BY <1>4
<1>6. FreePlan(before, known, file) = iter[DOMAIN file]
  BY DEF FreePlan, FreeStart, FreeRows, FoldLeft, MapThenFoldSet
<1>7. IsFold(iter, F, X, FreeStart(before, file), file, Len(file))
  <2>1. \A s \in SUBSET (DOMAIN file) :
          iter[s] = IF s = {} THEN FreeStart(before, file)
                    ELSE FreeRow(known, rows, iter[s \ {Max(s)}], file[Max(s)])
    <3> HIDE DEF iter
    <3> QED BY <1>5
  <2> HIDE DEF iter, Rec
  <2>2. ASSUME NEW s \in SUBSET (1 .. Len(file)), s # {}, iter[s \ {Max(s)}] \in X
        PROVE  iter[s] = F[<<iter[s \ {Max(s)}], file[Max(s)]>>]
    <3>1. file[Max(s)] \in R
      BY <1>0, <1>3, <2>2
    <3> QED BY <1>0, <2>1, <2>2, <3>1
  <2> HIDE DEF F
  <2> QED BY <1>0, <2>1, <2>2 DEF IsFold
<1> DEFINE plans == [n \in 0 .. Len(file) |-> iter[1 .. n]]
<1>8. plans \in [0 .. Len(file) -> X] /\ FoldSteps(plans, F, FreeStart(before, file), file)
  <2> HIDE DEF F, iter
  <2>1. FreeStart(before, file) \in X
    OBVIOUS
  <2>2. Stepwise(iter, F, X, FreeStart(before, file), file)
    BY <1>1, <1>7, <2>1, FoldByStep
  <2> QED BY <2>2 DEF Stepwise
<1>9. FreeSteps(before, known, file, plans)
  <2> HIDE DEF iter
  <2>1. plans[0] = FreeStart(before, file)
    BY <1>8 DEF FoldSteps
  <2>2. ASSUME NEW n \in 1 .. Len(file)
        PROVE  plans[n] = FreeRow(known, rows, plans[n - 1], file[n])
    <3>1. plans[n - 1] \in X /\ file[n] \in R
      <4>1. n - 1 \in 0 .. Len(file)
        BY <1>0
      <4> HIDE DEF plans
      <4> QED BY <1>0, <1>8, <4>1
    <3>2. plans[n] = F[<<plans[n - 1], file[n]>>]
      BY <1>8 DEF FoldSteps
    <3> HIDE DEF plans
    <3> QED BY <3>1, <3>2
  <2>3. FreePlan(before, known, file) = plans[Len(file)]
    BY <1>0, <1>6
  <2> QED BY <2>1, <2>2, <2>3 DEF FreeSteps
<1> QED BY <1>8, <1>9

-----------------------------------------------------------------------------
(* One row of a migration.                                                 *)

MigrationPlans ==
  [table : Seq(KeyRow), seen : SUBSET FileRow, touched : SUBSET Nat, found : Nat,
   created : Nat, linked : Nat, changed : Nat, already : Nat, lost : Nat,
   duplicates : Nat, errors : Nat]

\* The fields of the plan of a migration have their types.
LEMMA MigrationFields ==
  ASSUME NEW plan \in MigrationPlans
  PROVE  /\ plan.table \in Seq(KeyRow) /\ plan.seen \subseteq FileRow
         /\ plan.touched \subseteq Nat
         /\ plan.found \in Nat /\ plan.created \in Nat /\ plan.linked \in Nat
         /\ plan.changed \in Nat /\ plan.already \in Nat /\ plan.lost \in Nat
         /\ plan.duplicates \in Nat /\ plan.errors \in Nat
BY DEF MigrationPlans

\* A row of the table gets a HEX and an assignment.
Written(table, id, hex, home) ==
  [table EXCEPT ![id] = [table[id] EXCEPT !.hex = hex, !.home = home]]

\* Writing a row keeps the others, and its type and number.
LEMMA RowWritten ==
  ASSUME NEW table \in Seq(KeyRow), NEW id \in DOMAIN table,
         NEW hex \in Hexes \cup {Blank}, NEW home \in Homes \cup {Unassigned}
  PROVE  /\ Written(table, id, hex, home) \in Seq(KeyRow)
         /\ Len(Written(table, id, hex, home)) = Len(table)
         /\ DOMAIN Written(table, id, hex, home) = DOMAIN table
         /\ Written(table, id, hex, home)[id].type = table[id].type
         /\ Written(table, id, hex, home)[id].number = table[id].number
         /\ Written(table, id, hex, home)[id].hex = hex
         /\ Written(table, id, hex, home)[id].home = home
         /\ \A i \in DOMAIN table : i # id =>
              Written(table, id, hex, home)[i] = table[i]
<1> DEFINE row == [table[id] EXCEPT !.hex = hex, !.home = home]
<1>0. table[id] \in KeyRow
  BY TableRows
<1>1. /\ row \in KeyRow /\ row.type = table[id].type /\ row.number = table[id].number
      /\ row.hex = hex /\ row.home = home
  BY <1>0 DEF KeyRow
<1>2. Written(table, id, hex, home) = [table EXCEPT ![id] = row]
  BY DEF Written
<1> HIDE DEF row
<1>3. /\ [table EXCEPT ![id] = row] \in Seq(KeyRow)
      /\ Len([table EXCEPT ![id] = row]) = Len(table)
      /\ \A i \in 1 .. Len(table) :
           [table EXCEPT ![id] = row][i] = IF i = id THEN row ELSE table[i]
  BY <1>1, TableRows, ExceptSeq
<1> QED BY <1>1, <1>2, <1>3, TableRows

\* The key a row of an issued file makes.
IssuedKey(row) ==
  [type |-> Named[row.name], number |-> row.number, hex |-> row.hex, home |-> row.to]

\* A row that has an assignment which is an address, and a HEX.
IssuableRow == {r \in FileRow : r.hex \in Hexes /\ r.to \in Homes}

LinkCreates(plan, row, next) ==
  /\ FoundKeys(plan.table, row) = {}
  /\ next.table = Append(plan.table, IssuedKey(row))
  /\ next.touched = plan.touched \cup {Len(plan.table) + 1}
  /\ next.found = plan.found /\ next.created = plan.created + 1
  /\ next.already = plan.already /\ next.changed = plan.changed + 1

LinkFinds(plan, row, dry, next, id) ==
  /\ id \in FoundKeys(plan.table, row)
  /\ id = CHOOSE i \in FoundKeys(plan.table, row) : TRUE
  /\ next.table = Written(plan.table, id,
                          IF dry THEN plan.table[id].hex ELSE row.hex, row.to)
  /\ next.touched = plan.touched \cup {id}
  /\ next.found = plan.found + 1 /\ next.created = plan.created
  /\ IF plan.table[id].home = row.to
       THEN next.already = plan.already + 1 /\ next.changed = plan.changed
       ELSE next.already = plan.already /\ next.changed = plan.changed + 1

LinkOutcome(plan, row, dry, next) ==
  /\ next.seen = plan.seen /\ next.lost = plan.lost
  /\ next.duplicates = plan.duplicates /\ next.errors = plan.errors
  /\ next.linked = plan.linked + 1
  /\ \/ LinkCreates(plan, row, next)
     \/ \E id \in DOMAIN plan.table : LinkFinds(plan, row, dry, next, id)

\* A row of a file is looked for in the table and nowhere else.
LEMMA FoundInTable ==
  ASSUME NEW table, NEW row PROVE FoundKeys(table, row) \subseteq DOMAIN table
BY DEF FoundKeys, HexAt, NumberAt

\* The key a row asks for is one the register may hold.
LEMMA IssuedKeyTyped ==
  ASSUME NEW row \in IssuableRow
  PROVE  IssuedKey(row) \in KeyRow /\ row.name \in TypeNames /\ Named[row.name] \in KeyTypes
BY NamedAssumption DEF IssuableRow, FileRow, IssuedKey, KeyRow

\* An assignment creates the key or finds it.
LEMMA LinkedOutcome ==
  ASSUME NEW plan \in MigrationPlans, NEW row \in IssuableRow, NEW dry \in BOOLEAN
  PROVE  /\ LinkOutcome(plan, row, dry, Linked(plan, row, dry))
         /\ Linked(plan, row, dry) \in MigrationPlans
<1> DEFINE ids == FoundKeys(plan.table, row)
           id == IF ids = {} THEN Len(plan.table) + 1 ELSE CHOOSE i \in ids : TRUE
           table == IF ids = {} THEN Append(plan.table, NewRow(Named[row.name], row.number,
                                                               row.hex))
                    ELSE IF dry THEN plan.table
                    ELSE SetHex(plan.table, id, row.hex)
           same == table[id].home = row.to
           last == [table EXCEPT ![id].home = row.to]
           next == Linked(plan, row, dry)
<1>0. /\ plan.table \in Seq(KeyRow) /\ plan.touched \subseteq Nat
      /\ row.hex \in Hexes /\ row.to \in Homes /\ row.number \in Numbers
      /\ row.to # Unassigned /\ Named[row.name] \in KeyTypes
  BY MigrationFields, IssuedKeyTyped, BlankAssumption DEF IssuableRow, FileRow
<1>1. next = [plan EXCEPT !.table   = last,
                          !.touched = @ \cup {id},
                          !.found   = IF ids = {} THEN @ ELSE @ + 1,
                          !.created = IF ids = {} THEN @ + 1 ELSE @,
                          !.already = IF same THEN @ + 1 ELSE @,
                          !.changed = IF same THEN @ ELSE @ + 1,
                          !.linked  = @ + 1]
  BY DEF Linked
<1> HIDE DEF next, last, same, id, ids, table
<1>2. /\ next.table = last /\ next.touched = plan.touched \cup {id}
      /\ next.found = (IF ids = {} THEN plan.found ELSE plan.found + 1)
      /\ next.created = (IF ids = {} THEN plan.created + 1 ELSE plan.created)
      /\ next.already = (IF same THEN plan.already + 1 ELSE plan.already)
      /\ next.changed = (IF same THEN plan.changed ELSE plan.changed + 1)
      /\ next.linked = plan.linked + 1
      /\ next.seen = plan.seen /\ next.lost = plan.lost
      /\ next.duplicates = plan.duplicates /\ next.errors = plan.errors
  BY <1>1 DEF MigrationPlans
<1>3. last \in Seq(KeyRow) /\ id \in Nat => next \in MigrationPlans
  <2> SUFFICES ASSUME last \in Seq(KeyRow), id \in Nat PROVE next \in MigrationPlans
    OBVIOUS
  <2> DEFINE f == IF ids = {} THEN plan.found ELSE plan.found + 1
             c == IF ids = {} THEN plan.created + 1 ELSE plan.created
             a == IF same THEN plan.already + 1 ELSE plan.already
             g == IF same THEN plan.changed ELSE plan.changed + 1
             l == plan.linked + 1
  <2>1. f \in Nat /\ c \in Nat /\ a \in Nat /\ g \in Nat /\ l \in Nat
    BY MigrationFields, SMTT(30)
  <2>2. next = [plan EXCEPT !.table = last, !.touched = @ \cup {id}, !.found = f,
                            !.created = c, !.already = a, !.changed = g, !.linked = l]
    BY <1>1
  <2> HIDE DEF f, c, a, g, l
  <2>3. plan.touched \cup {id} \in SUBSET Nat
    BY <1>0
  <2> QED BY <2>1, <2>2, <2>3 DEF MigrationPlans
<1>4. CASE ids = {}
  <2> DEFINE new == NewRow(Named[row.name], row.number, row.hex)
  <2>1. /\ new \in KeyRow /\ new.home = Unassigned
        /\ [new EXCEPT !.home = row.to] = IssuedKey(row)
    BY <1>0, NewRowTyped DEF NewRow, IssuedKey
  <2>2. table = Append(plan.table, new) /\ id = Len(plan.table) + 1
    BY <1>4 DEF table, id
  <2> HIDE DEF new
  <2>3. /\ table \in Seq(KeyRow) /\ Len(table) = Len(plan.table) + 1
        /\ DOMAIN table = 1 .. Len(plan.table) + 1 /\ table[id] = new
        /\ \A i \in DOMAIN plan.table : table[i] = plan.table[i]
    BY <1>0, <2>1, <2>2, RowAdded
  <2>4. ~same
    BY <1>0, <2>1, <2>3 DEF same
  <2>5. Len(plan.table) \in Nat /\ id \in Nat /\ id \in DOMAIN table
    BY <1>0, <2>2, <2>3, TableRows
  <2>6. last = [table EXCEPT ![id] = IssuedKey(row)]
    BY <2>1, <2>3 DEF last
  <2>7. IssuedKey(row) \in KeyRow
    BY IssuedKeyTyped
  <2>8. /\ last \in Seq(KeyRow) /\ Len(last) = Len(table)
        /\ \A i \in 1 .. Len(table) : last[i] = IF i = id THEN IssuedKey(row) ELSE table[i]
    BY <2>3, <2>5, <2>6, <2>7, ExceptSeq
  <2>9. last = Append(plan.table, IssuedKey(row))
    <3>1. /\ Append(plan.table, IssuedKey(row)) \in Seq(KeyRow)
          /\ Len(Append(plan.table, IssuedKey(row))) = Len(plan.table) + 1
          /\ Append(plan.table, IssuedKey(row))[id] = IssuedKey(row)
          /\ \A i \in DOMAIN plan.table :
               Append(plan.table, IssuedKey(row))[i] = plan.table[i]
      BY <1>0, <2>2, <2>7, RowAdded
    <3>2. \A i \in 1 .. Len(last) : i = id \/ i \in DOMAIN plan.table
      BY <1>0, <2>2, <2>3, <2>5, <2>8, TableRows
    <3>3. \A i \in 1 .. Len(last) : last[i] = Append(plan.table, IssuedKey(row))[i]
      BY <2>3, <2>8, <3>1, <3>2
    <3> QED BY <2>3, <2>8, <3>1, <3>3, SeqEqual
  <2>10. LinkCreates(plan, row, next)
    BY <1>2, <1>4, <2>2, <2>4, <2>9 DEF LinkCreates, ids
  <2> QED BY <1>2, <1>3, <2>5, <2>8, <2>10 DEF LinkOutcome, next
<1>5. CASE ids # {}
  <2>1. id \in ids /\ id = CHOOSE i \in ids : TRUE
    BY <1>5 DEF id
  <2>2. id \in DOMAIN plan.table /\ id \in Nat
    BY <1>0, <2>1, FoundInTable, TableRows DEF ids
  <2> DEFINE hex == IF dry THEN plan.table[id].hex ELSE row.hex
  <2>3. plan.table[id] \in KeyRow /\ hex \in Hexes \cup {Blank}
    <3>1. plan.table[id] \in KeyRow
      BY <1>0, <2>2, TableRows
    <3> QED BY <1>0, <3>1 DEF KeyRow
  <2>4. /\ table \in Seq(KeyRow) /\ DOMAIN table = DOMAIN plan.table
        /\ table = [plan.table EXCEPT ![id] = table[id]]
        /\ table[id] = [plan.table[id] EXCEPT !.hex = hex]
    <3>1. CASE dry
      <4>1. table = plan.table
        BY <1>5, <3>1 DEF table
      <4>2. plan.table = [plan.table EXCEPT ![id] = plan.table[id]]
        BY <1>0, TableRows, LenProperties
      <4>3. plan.table[id] = [plan.table[id] EXCEPT !.hex = plan.table[id].hex]
        BY <2>3 DEF KeyRow
      <4> QED BY <1>0, <3>1, <4>1, <4>2, <4>3
    <3>2. CASE ~dry
      <4>1. table = SetHex(plan.table, id, row.hex)
        BY <1>5, <3>2 DEF table
      <4>2. /\ table \in Seq(KeyRow) /\ DOMAIN table = DOMAIN plan.table
            /\ table[id] = [plan.table[id] EXCEPT !.hex = row.hex]
        BY <1>0, <2>2, <4>1, HexSet
      <4>3. table = [plan.table EXCEPT ![id] = [plan.table[id] EXCEPT !.hex = row.hex]]
        BY <4>1 DEF SetHex
      <4> QED BY <3>2, <4>2, <4>3
    <3> QED BY <3>1, <3>2
  <2>5. table[id].home = plan.table[id].home
    BY <2>3, <2>4 DEF KeyRow
  <2>6. last = Written(plan.table, id, hex, row.to)
    <3>1. last = [table EXCEPT ![id] = [table[id] EXCEPT !.home = row.to]]
      BY DEF last
    <3>2. last = [plan.table EXCEPT ![id] = [table[id] EXCEPT !.home = row.to]]
      BY <2>2, <2>4, <3>1
    <3>3. [table[id] EXCEPT !.home = row.to]
            = [plan.table[id] EXCEPT !.hex = hex, !.home = row.to]
      BY <2>4
    <3> QED BY <3>2, <3>3 DEF Written
  <2> HIDE DEF hex
  <2>7. last \in Seq(KeyRow)
    BY <1>0, <2>2, <2>3, <2>6, RowWritten
  <2>8. LinkFinds(plan, row, dry, next, id)
    BY <1>2, <1>5, <2>1, <2>5, <2>6 DEF LinkFinds, same, ids, hex
  <2> QED BY <1>2, <1>3, <2>2, <2>7, <2>8 DEF LinkOutcome, next
<1> QED BY <1>4, <1>5

\* What import_legacy_issued_keys makes of a row: it is not its business, it is
\* met again, or it is looked at and counted.
RowPasses(rows, plan, row, next) ==
  (row \notin rows \/ Conflicts(rows, row)) /\ next = plan

RowAgain(rows, plan, row, next) ==
  /\ row \in rows /\ ~Conflicts(rows, row) /\ row \in plan.seen
  /\ next = [plan EXCEPT !.duplicates = @ + 1]

RowLooked(known, rows, plan, row, dry, next) ==
  /\ row \in rows /\ ~Conflicts(rows, row) /\ row \notin plan.seen
  /\ \E met \in MigrationPlans :
       /\ met = [plan EXCEPT !.seen = @ \cup {row}]
       /\ \/ /\ Named[row.name] \notin known
             /\ next = [met EXCEPT !.errors = @ + 1]
          \/ /\ Named[row.name] \in known /\ row.to = Nowhere
             /\ next = [met EXCEPT !.lost = @ + 1]
          \/ /\ Named[row.name] \in known /\ row.to # Nowhere
             /\ ~Agrees(plan.table, row)
             /\ next = [met EXCEPT !.errors = @ + 1]
          \/ /\ Named[row.name] \in known /\ row.to # Nowhere
             /\ Agrees(plan.table, row)
             /\ row \in IssuableRow
             /\ next = Linked(met, row, dry)

SeenPut(plan, row) == [plan EXCEPT !.seen = @ \cup {row}]

\* To have seen a row changes nothing else in a plan.
LEMMA SeenPutFields ==
  ASSUME NEW plan \in MigrationPlans, NEW row \in FileRow
  PROVE  /\ SeenPut(plan, row) \in MigrationPlans
         /\ SeenPut(plan, row).table = plan.table
         /\ SeenPut(plan, row).seen = plan.seen \cup {row}
         /\ SeenPut(plan, row).touched = plan.touched
         /\ SeenPut(plan, row).found = plan.found
         /\ SeenPut(plan, row).created = plan.created
         /\ SeenPut(plan, row).linked = plan.linked
         /\ SeenPut(plan, row).changed = plan.changed
         /\ SeenPut(plan, row).already = plan.already
         /\ SeenPut(plan, row).lost = plan.lost
         /\ SeenPut(plan, row).duplicates = plan.duplicates
         /\ SeenPut(plan, row).errors = plan.errors
BY DEF MigrationPlans, SeenPut

\* Rows an issued file is about.
IssuedRowsOnly(rows) ==
  rows \subseteq {r \in FileRow : r.to # Unassigned /\ r.hex # BadHex}

\* A row of the file of issued keys is passed by, counted as a duplicate, or
\* looked at.
LEMMA IssuedRowOutcome ==
  ASSUME NEW known, NEW rows, IssuedRowsOnly(rows), NEW plan \in MigrationPlans,
         NEW row \in FileRow, NEW dry \in BOOLEAN
  PROVE  LET next == IssuedRow(known, rows, plan, row, dry)
         IN \/ RowPasses(rows, plan, row, next) \/ RowAgain(rows, plan, row, next)
            \/ RowLooked(known, rows, plan, row, dry, next)
<1> DEFINE met == SeenPut(plan, row)
           next == IssuedRow(known, rows, plan, row, dry)
<1>1. CASE row \notin rows \/ Conflicts(rows, row)
  BY <1>1 DEF IssuedRow, RowPasses
<1>2. CASE row \in rows /\ ~Conflicts(rows, row) /\ row \in plan.seen
  BY <1>2 DEF IssuedRow, RowAgain
<1>3. CASE row \in rows /\ ~Conflicts(rows, row) /\ row \notin plan.seen
  <2>1. met \in MigrationPlans /\ met = [plan EXCEPT !.seen = @ \cup {row}]
    BY SeenPutFields DEF SeenPut
  <2>2. row.to # Nowhere => row \in IssuableRow
    BY <1>3 DEF IssuedRowsOnly, FileRow, IssuableRow
  <2>3. next = IF Named[row.name] \notin known THEN [met EXCEPT !.errors = @ + 1]
               ELSE IF row.to = Nowhere THEN [met EXCEPT !.lost = @ + 1]
               ELSE IF ~Agrees(plan.table, row) THEN [met EXCEPT !.errors = @ + 1]
               ELSE Linked(met, row, dry)
    BY <1>3 DEF IssuedRow, SeenPut
  <2> HIDE DEF met, next
  <2>4. RowLooked(known, rows, plan, row, dry, next)
    BY <1>3, <2>1, <2>2, <2>3 DEF RowLooked
  <2> QED BY <2>4 DEF next
<1> QED BY <1>1, <1>2, <1>3

\* A plan with one of its counters raised is well typed.
LEMMA CounterPut ==
  ASSUME NEW plan \in MigrationPlans
  PROVE  /\ [plan EXCEPT !.duplicates = @ + 1] \in MigrationPlans
         /\ [plan EXCEPT !.errors = @ + 1] \in MigrationPlans
         /\ [plan EXCEPT !.lost = @ + 1] \in MigrationPlans
         /\ [plan EXCEPT !.found = @ + 1] \in MigrationPlans
<1>0. plan.duplicates + 1 \in Nat /\ plan.errors + 1 \in Nat /\ plan.lost + 1 \in Nat
      /\ plan.found + 1 \in Nat
  BY MigrationFields
<1>1. \A n \in Nat : [plan EXCEPT !.duplicates = n] \in MigrationPlans
  BY SMTT(60) DEF MigrationPlans
<1>2. \A n \in Nat : [plan EXCEPT !.errors = n] \in MigrationPlans
  BY SMTT(60) DEF MigrationPlans
<1>3. \A n \in Nat : [plan EXCEPT !.lost = n] \in MigrationPlans
  BY SMTT(60) DEF MigrationPlans
<1>4. \A n \in Nat : [plan EXCEPT !.found = n] \in MigrationPlans
  BY SMTT(60) DEF MigrationPlans
<1> QED BY <1>0, <1>1, <1>2, <1>3, <1>4

\* What a row of issued keys makes of a plan is well typed.
LEMMA IssuedRowTyped ==
  ASSUME NEW known, NEW rows, IssuedRowsOnly(rows), NEW plan \in MigrationPlans,
         NEW row \in FileRow, NEW dry \in BOOLEAN
  PROVE  IssuedRow(known, rows, plan, row, dry) \in MigrationPlans
<1> DEFINE next == IssuedRow(known, rows, plan, row, dry)
<1>1. \/ RowPasses(rows, plan, row, next) \/ RowAgain(rows, plan, row, next)
      \/ RowLooked(known, rows, plan, row, dry, next)
  BY IssuedRowOutcome
<1> HIDE DEF next
<1>2. CASE RowPasses(rows, plan, row, next)
  BY <1>2 DEF RowPasses, next
<1>3. CASE RowAgain(rows, plan, row, next)
  BY <1>3, CounterPut DEF RowAgain, next
<1>4. CASE RowLooked(known, rows, plan, row, dry, next)
  <2>1. PICK met \in MigrationPlans :
          \/ next = [met EXCEPT !.errors = @ + 1]
          \/ next = [met EXCEPT !.lost = @ + 1]
          \/ row \in IssuableRow /\ next = Linked(met, row, dry)
    BY <1>4 DEF RowLooked
  <2>2. CASE next = [met EXCEPT !.errors = @ + 1]
    BY <2>2, CounterPut DEF next
  <2>3. CASE next = [met EXCEPT !.lost = @ + 1]
    BY <2>3, CounterPut DEF next
  <2>4. CASE row \in IssuableRow /\ next = Linked(met, row, dry)
    BY <2>4, LinkedOutcome DEF next
  <2> QED BY <2>1, <2>2, <2>3, <2>4
<1> QED BY <1>1, <1>2, <1>3, <1>4

\* The conflicts of a file can be counted.
LEMMA ConflictsCounted ==
  ASSUME NEW rows, IsFiniteSet(rows) PROVE ConflictCount(rows) \in Nat
<1> DEFINE A == {x \in rows : HexConflict(rows, x)}
           B == {x \in rows : NumberConflict(rows, x)}
<1>1. IsFiniteSet(A) /\ IsFiniteSet(B)
  BY FS_Subset
<1> HIDE DEF A, B
<1>2. IsFiniteSet({r.hex : r \in A}) /\ IsFiniteSet({Identity(r) : r \in B})
  <2>1. [r \in A |-> r.hex] \in Surjection(A, {r.hex : r \in A})
    BY DEF Surjection
  <2>2. [r \in B |-> Identity(r)] \in Surjection(B, {Identity(r) : r \in B})
    BY DEF Surjection
  <2> QED BY <1>1, <2>1, <2>2, FS_Surjection
<1>3. Cardinality({r.hex : r \in A}) \in Nat /\ Cardinality({Identity(r) : r \in B}) \in Nat
  BY <1>2, FS_CardinalityType
<1> QED BY <1>3 DEF ConflictCount, A, B

\* A migration begins with the table as it is, and with nothing counted but the
\* rows of the file it refuses at once.
Begun(before, plan) ==
  /\ plan \in MigrationPlans
  /\ plan.table = before /\ plan.seen = {} /\ plan.touched = {}
  /\ plan.found = 0 /\ plan.created = 0 /\ plan.linked = 0 /\ plan.changed = 0
  /\ plan.already = 0 /\ plan.lost = 0 /\ plan.duplicates = 0

\* A file has finitely many rows.
LEMMA RowsOfFile ==
  ASSUME NEW file \in Seq(FileRow)
  PROVE  /\ IsFiniteSet(DOMAIN file) /\ IsFiniteSet(ToSet(file))
         /\ ToSet(file) \subseteq FileRow
         /\ \A n \in 1 .. Len(file) : file[n] \in FileRow /\ file[n] \in ToSet(file)
<1>0. /\ Len(file) \in Nat /\ DOMAIN file = 1 .. Len(file)
      /\ \A i \in 1 .. Len(file) : file[i] \in FileRow
  BY LenProperties, ElementOfSeq
<1>1. IsFiniteSet(DOMAIN file)
  <2>1. IsFiniteSet(1 .. Len(file))
    BY <1>0, FS_Interval
  <2> QED BY <1>0, <2>1
<1>2. [i \in DOMAIN file |-> file[i]] \in Surjection(DOMAIN file, ToSet(file))
  BY DEF Surjection, ToSet
<1>3. IsFiniteSet(ToSet(file))
  BY <1>1, <1>2, FS_Surjection
<1> QED BY <1>0, <1>1, <1>3 DEF ToSet

\* The errors a file has from the start change nothing else.
LEMMA ErrorsPut ==
  ASSUME NEW before, NEW plan, Begun(before, plan), NEW e \in Nat
  PROVE  Begun(before, [plan EXCEPT !.errors = e])
<1>1. plan \in MigrationPlans
  BY DEF Begun
<1>2. [plan EXCEPT !.errors = e] \in MigrationPlans
  BY <1>1 DEF MigrationPlans
<1> QED BY <1>1, <1>2 DEF Begun, MigrationPlans

\* The plan a migration begins with is well typed and has changed nothing.
LEMMA NothingLinkedTyped ==
  ASSUME NEW before \in Seq(KeyRow), NEW e \in Nat
  PROVE  Begun(before, [NothingLinked(before) EXCEPT !.errors = e])
<1>1. Begun(before, NothingLinked(before))
  BY DEF NothingLinked, Begun, MigrationPlans
<1> QED BY <1>1, ErrorsPut

\* So does that of issued keys ...
LEMMA IssuedBegins ==
  ASSUME NEW before \in Seq(KeyRow), NEW file \in Seq(FileRow)
  PROVE  Begun(before, IssuedStart(before, file)) /\ IssuedRowsOnly(IssuedRows(file))
<1>1. IssuedRows(file) \subseteq ToSet(file) /\ IssuedRowsOnly(IssuedRows(file))
  BY RowsOfFile DEF IssuedRows, IssuedRowsOnly
<1>2. IsFiniteSet(IssuedRows(file))
  BY <1>1, RowsOfFile, FS_Subset
<1>3. ConflictCount(IssuedRows(file)) \in Nat
  BY <1>2, ConflictsCounted
<1> DEFINE bad == {i \in DOMAIN file : file[i].to # Unassigned /\ file[i].hex = BadHex}
<1>4. bad \subseteq DOMAIN file /\ IsFiniteSet(DOMAIN file)
  BY RowsOfFile
<1>5. Cardinality(bad) \in Nat
  <2> HIDE DEF bad
  <2> QED BY <1>4, FS_Subset, FS_CardinalityType
<1>6. IssuedStart(before, file)
        = [NothingLinked(before) EXCEPT
             !.errors = Cardinality(bad) + ConflictCount(IssuedRows(file))]
  BY DEF IssuedStart
<1> HIDE DEF bad
<1>7. Cardinality(bad) + ConflictCount(IssuedRows(file)) \in Nat
  BY <1>3, <1>5
<1> QED BY <1>1, <1>6, <1>7, NothingLinkedTyped

\* ... and that of free keys.
LEMMA FreeBegins ==
  ASSUME NEW before \in Seq(KeyRow), NEW file \in Seq(FileRow)
  PROVE  Begun(before, FreeStart(before, file)) /\ FreeRows(file) \subseteq FileRow
         /\ \A r \in FreeRows(file) : r.hex # BadHex
<1>1. FreeRows(file) \subseteq FileRow /\ \A r \in FreeRows(file) : r.hex # BadHex
  BY RowsOfFile DEF FreeRows
<1> DEFINE bad == {i \in DOMAIN file : file[i].to = Unassigned /\ file[i].hex = BadHex}
<1>4. bad \subseteq DOMAIN file /\ IsFiniteSet(DOMAIN file)
  BY RowsOfFile
<1>5. Cardinality(bad) \in Nat
  <2> HIDE DEF bad
  <2> QED BY <1>4, FS_Subset, FS_CardinalityType
<1>6. FreeStart(before, file) = [NothingLinked(before) EXCEPT !.errors = Cardinality(bad)]
  BY DEF FreeStart
<1> HIDE DEF bad
<1> QED BY <1>1, <1>5, <1>6, NothingLinkedTyped

\* The plan is as it was but for a counter.
Skipped(plan, next) ==
  /\ next.table = plan.table /\ next.touched = plan.touched
  /\ next.created = plan.created /\ next.changed = plan.changed

\* A row of an issued file that is to be looked up in the register.
Candidate(known, rows, row) ==
  /\ row \in rows /\ ~Conflicts(rows, row)
  /\ Named[row.name] \in known /\ row.to # Nowhere

\* What a row of an issued file does to the table: nothing, or it is linked.
IssuedStep(known, rows, plan, row, dry, next) ==
  \/ /\ Skipped(plan, next) /\ next.seen = plan.seen
     /\ row \notin rows \/ Conflicts(rows, row) \/ row \in plan.seen
  \/ /\ Skipped(plan, next) /\ next.seen = plan.seen \cup {row} /\ row \in rows
     /\ ~Candidate(known, rows, row) \/ ~Agrees(plan.table, row)
  \/ /\ row \notin plan.seen /\ next.seen = plan.seen \cup {row}
     /\ Candidate(known, rows, row) /\ Agrees(plan.table, row) /\ row \in IssuableRow
     /\ \/ LinkCreates(plan, row, next)
        \/ \E id \in DOMAIN plan.table : LinkFinds(plan, row, dry, next, id)

\* A raised counter leaves the table and what was seen.
LEMMA CounterFields ==
  ASSUME NEW plan \in MigrationPlans
  PROVE  /\ Skipped(plan, [plan EXCEPT !.duplicates = @ + 1])
         /\ [plan EXCEPT !.duplicates = @ + 1].seen = plan.seen
         /\ Skipped(plan, [plan EXCEPT !.errors = @ + 1])
         /\ [plan EXCEPT !.errors = @ + 1].seen = plan.seen
         /\ Skipped(plan, [plan EXCEPT !.lost = @ + 1])
         /\ [plan EXCEPT !.lost = @ + 1].seen = plan.seen
         /\ Skipped(plan, [plan EXCEPT !.found = @ + 1])
         /\ [plan EXCEPT !.found = @ + 1].seen = plan.seen
BY DEF MigrationPlans, Skipped

\* A row of issued keys leaves the table alone or is assigned.
LEMMA IssuedStepTaken ==
  ASSUME NEW known, NEW rows, IssuedRowsOnly(rows), NEW plan \in MigrationPlans,
         NEW row \in FileRow, NEW dry \in BOOLEAN
  PROVE  IssuedStep(known, rows, plan, row, dry, IssuedRow(known, rows, plan, row, dry))
<1> DEFINE next == IssuedRow(known, rows, plan, row, dry)
<1>1. \/ RowPasses(rows, plan, row, next) \/ RowAgain(rows, plan, row, next)
      \/ RowLooked(known, rows, plan, row, dry, next)
  BY IssuedRowOutcome
<1> HIDE DEF next
<1>2. CASE RowPasses(rows, plan, row, next)
  BY <1>2 DEF RowPasses, IssuedStep, Skipped, next
<1>3. CASE RowAgain(rows, plan, row, next)
  BY <1>3, CounterFields DEF RowAgain, IssuedStep, next
<1>4. CASE RowLooked(known, rows, plan, row, dry, next)
  <2>1. row \in rows /\ ~Conflicts(rows, row) /\ row \notin plan.seen
    BY <1>4 DEF RowLooked
  <2>2. PICK met \in MigrationPlans :
          /\ met = SeenPut(plan, row)
          /\ \/ /\ Named[row.name] \notin known \/ ~Agrees(plan.table, row)
                /\ next = [met EXCEPT !.errors = @ + 1]
             \/ row.to = Nowhere /\ next = [met EXCEPT !.lost = @ + 1]
             \/ /\ Named[row.name] \in known /\ row.to # Nowhere
                /\ Agrees(plan.table, row) /\ row \in IssuableRow
                /\ next = Linked(met, row, dry)
    BY <1>4 DEF RowLooked, SeenPut
  <2>3. /\ met.seen = plan.seen \cup {row} /\ met.table = plan.table
        /\ met.touched = plan.touched /\ met.created = plan.created
        /\ met.changed = plan.changed /\ met.found = plan.found
        /\ met.already = plan.already
    BY <2>2, SeenPutFields
  <2>4. CASE /\ Named[row.name] \notin known \/ ~Agrees(plan.table, row)
             /\ next = [met EXCEPT !.errors = @ + 1]
    <3>1. Skipped(met, next) /\ next.seen = met.seen
      BY <2>4, CounterFields
    <3> QED BY <2>1, <2>3, <2>4, <3>1 DEF IssuedStep, Skipped, Candidate, next
  <2>5. CASE row.to = Nowhere /\ next = [met EXCEPT !.lost = @ + 1]
    <3>1. Skipped(met, next) /\ next.seen = met.seen
      BY <2>5, CounterFields
    <3> QED BY <2>1, <2>3, <2>5, <3>1 DEF IssuedStep, Skipped, Candidate, next
  <2>6. CASE /\ Named[row.name] \in known /\ row.to # Nowhere
             /\ Agrees(plan.table, row) /\ row \in IssuableRow
             /\ next = Linked(met, row, dry)
    <3>1. LinkOutcome(met, row, dry, next)
      BY <2>6, LinkedOutcome
    <3>2. next.seen = met.seen
      BY <3>1 DEF LinkOutcome
    <3>3. \/ LinkCreates(plan, row, next)
          \/ \E id \in DOMAIN plan.table : LinkFinds(plan, row, dry, next, id)
      <4>1. LinkCreates(met, row, next) => LinkCreates(plan, row, next)
        BY <2>3 DEF LinkCreates
      <4>2. \A id : LinkFinds(met, row, dry, next, id) => LinkFinds(plan, row, dry, next, id)
        BY <2>3 DEF LinkFinds
      <4> QED BY <2>3, <3>1, <4>1, <4>2 DEF LinkOutcome
    <3> QED BY <2>1, <2>3, <2>6, <3>2, <3>3 DEF IssuedStep, Candidate, next
  <2> QED BY <2>2, <2>4, <2>5, <2>6
<1> QED BY <1>1, <1>2, <1>3, <1>4

\* What a row of a free file does: nothing, or its key is created.
FreeStep(known, rows, plan, row, next) ==
  \/ /\ Skipped(plan, next) /\ next.seen = plan.seen
     /\ row \notin rows \/ row \in plan.seen
  \/ /\ Skipped(plan, next) /\ next.seen = plan.seen \cup {row} /\ row \in rows
     /\ \/ Conflicts(rows, row) \/ Named[row.name] \notin known
        \/ FoundKeys(plan.table, row) # {}
  \/ /\ row \in rows /\ next.seen = plan.seen \cup {row}
     /\ ~Conflicts(rows, row) /\ Named[row.name] \in known
     /\ FoundKeys(plan.table, row) = {} /\ row.hex \in Hexes
     /\ next.table = Append(plan.table, NewRow(Named[row.name], row.number, row.hex))
     /\ next.touched = plan.touched /\ next.created = plan.created + 1
     /\ next.changed = plan.changed

\* A plan with another table is well typed.
LEMMA MigrationTablePut ==
  ASSUME NEW plan \in MigrationPlans, NEW table \in Seq(KeyRow)
  PROVE  [plan EXCEPT !.table = table] \in MigrationPlans
BY DEF MigrationPlans

\* A key a free row creates is added to the table and counted.
LEMMA FreeCreated ==
  ASSUME NEW plan \in MigrationPlans, NEW table \in Seq(KeyRow)
  PROVE  LET next == [plan EXCEPT !.created = @ + 1, !.table = table]
         IN /\ next \in MigrationPlans /\ next.seen = plan.seen
            /\ next.table = table /\ next.touched = plan.touched
            /\ next.created = plan.created + 1 /\ next.changed = plan.changed
<1>1. plan.created + 1 \in Nat
  BY MigrationFields
<1>2. [plan EXCEPT !.created = @ + 1] \in MigrationPlans
  BY <1>1, SMTT(90) DEF MigrationPlans
<1>3. [plan EXCEPT !.created = @ + 1, !.table = table] \in MigrationPlans
  BY <1>2, MigrationTablePut
<1> QED BY <1>3 DEF MigrationPlans

\* A row that does not agree with the register is about a key it has.
LEMMA DisagreesFound ==
  ASSUME NEW table, NEW row, ~Agrees(table, row)
  PROVE  FoundKeys(table, row) # {}
BY DEF Agrees, FoundKeys

\* A row of free keys leaves the table alone or adds a key to it.
LEMMA FreeRowOutcome ==
  ASSUME NEW known, NEW rows, rows \subseteq FileRow, \A r \in rows : r.hex # BadHex,
         NEW plan \in MigrationPlans, NEW row \in FileRow
  PROVE  /\ FreeRow(known, rows, plan, row) \in MigrationPlans
         /\ FreeStep(known, rows, plan, row, FreeRow(known, rows, plan, row))
<1> DEFINE next == FreeRow(known, rows, plan, row)
           met == SeenPut(plan, row)
           at == FoundKeys(plan.table, row)
           refused == \/ Conflicts(rows, row) \/ Named[row.name] \notin known
                      \/ ~Agrees(plan.table, row)
                      \/ \E i \in at : plan.table[i].hex = Blank
           new == NewRow(Named[row.name], row.number, row.hex)
<1>1. CASE row \notin rows
  BY <1>1 DEF FreeRow, FreeStep, Skipped
<1>2. CASE row \in rows /\ row \in plan.seen
  <2>1. next = [plan EXCEPT !.duplicates = @ + 1]
    BY <1>2 DEF FreeRow
  <2> QED BY <1>2, <2>1, CounterPut, CounterFields DEF FreeStep
<1>3. CASE row \in rows /\ row \notin plan.seen
  <2>0. /\ met \in MigrationPlans /\ met.seen = plan.seen \cup {row}
        /\ met.table = plan.table
        /\ met.touched = plan.touched /\ met.created = plan.created
        /\ met.changed = plan.changed /\ plan.table \in Seq(KeyRow)
    BY SeenPutFields, MigrationFields
  <2>1. next = IF refused THEN [met EXCEPT !.errors = @ + 1]
               ELSE IF at # {} THEN [met EXCEPT !.found = @ + 1]
               ELSE [met EXCEPT !.created = @ + 1, !.table = Append(@, new)]
    BY <1>3 DEF FreeRow, SeenPut
  <2>2. refused => \/ Conflicts(rows, row) \/ Named[row.name] \notin known \/ at # {}
    BY DisagreesFound
  <2>6. ~refused => ~Conflicts(rows, row) /\ Named[row.name] \in known
    OBVIOUS
  <2> HIDE DEF next, met, refused, at
  <2>3. CASE refused
    <3>1. next = [met EXCEPT !.errors = @ + 1]
      BY <2>1, <2>3
    <3>2. next \in MigrationPlans /\ Skipped(met, next) /\ next.seen = met.seen
      BY <2>0, <3>1, CounterPut, CounterFields
    <3>3. FreeStep(known, rows, plan, row, next)
      BY <1>3, <2>0, <2>2, <2>3, <3>2 DEF FreeStep, Skipped, at
    <3> QED BY <3>2, <3>3 DEF next
  <2>4. CASE ~refused /\ at # {}
    <3>1. next = [met EXCEPT !.found = @ + 1]
      BY <2>1, <2>4
    <3>2. next \in MigrationPlans /\ Skipped(met, next) /\ next.seen = met.seen
      BY <2>0, <3>1, CounterPut, CounterFields
    <3>3. FreeStep(known, rows, plan, row, next)
      BY <1>3, <2>0, <2>4, <3>2 DEF FreeStep, Skipped, at
    <3> QED BY <3>2, <3>3 DEF next
  <2>5. CASE ~refused /\ at = {}
    <3>0. new \in KeyRow /\ row.hex \in Hexes
      <4>1. row.hex \in Hexes /\ row.number \in Numbers /\ Named[row.name] \in KeyTypes
        BY <1>3, NamedAssumption DEF FileRow
      <4> QED BY <4>1, NewRowTyped
    <3>1. next = [met EXCEPT !.created = @ + 1, !.table = Append(met.table, new)]
      BY <2>1, <2>5
    <3> HIDE DEF new
    <3>2. Append(met.table, new) \in Seq(KeyRow)
      BY <2>0, <3>0, RowAdded
    <3>3. /\ next \in MigrationPlans /\ next.seen = met.seen
          /\ next.table = Append(met.table, new) /\ next.touched = met.touched
          /\ next.created = met.created + 1 /\ next.changed = met.changed
      BY ZenonT(30), <2>0, <3>1, <3>2, FreeCreated
    <3>4. FreeStep(known, rows, plan, row, next)
      BY <1>3, <2>0, <2>5, <2>6, <3>0, <3>3 DEF FreeStep, at, new
    <3> QED BY <3>3, <3>4 DEF next
  <2> QED BY <2>3, <2>4, <2>5
<1> QED BY <1>1, <1>2, <1>3

\* The plans of a migration, one for each number of rows.
LEMMA IssuedPlans ==
  ASSUME NEW before \in Seq(KeyRow), NEW known, NEW file \in Seq(FileRow),
         NEW dry \in BOOLEAN
  PROVE  \E plans \in [0 .. Len(file) -> MigrationPlans] :
           IssuedSteps(before, known, file, dry, plans)
<1>1. IssuedStart(before, file) \in MigrationPlans /\ IssuedRowsOnly(IssuedRows(file))
  BY IssuedBegins DEF Begun
<1>2. ASSUME NEW plan \in MigrationPlans, NEW row \in FileRow
      PROVE  IssuedRow(known, IssuedRows(file), plan, row, dry) \in MigrationPlans
  BY <1>1, IssuedRowTyped
<1> DEFINE rows == IssuedRows(file)
<1>3. rows = IssuedRows(file)
  OBVIOUS
<1>4. \A plan \in MigrationPlans, row \in FileRow :
        IssuedRow(known, rows, plan, row, dry) \in MigrationPlans
  BY <1>2
<1> HIDE DEF rows
<1> QED BY <1>1, <1>3, <1>4, IssuedFold

\* The migration of free keys is a chain of plans, one for each row.
LEMMA FreePlans ==
  ASSUME NEW before \in Seq(KeyRow), NEW known, NEW file \in Seq(FileRow)
  PROVE  \E plans \in [0 .. Len(file) -> MigrationPlans] :
           FreeSteps(before, known, file, plans)
<1>1. /\ FreeStart(before, file) \in MigrationPlans
      /\ FreeRows(file) \subseteq FileRow /\ \A r \in FreeRows(file) : r.hex # BadHex
  BY FreeBegins DEF Begun
<1> DEFINE rows == FreeRows(file)
<1>3. rows = FreeRows(file)
  OBVIOUS
<1>4. \A plan \in MigrationPlans, row \in FileRow :
        FreeRow(known, rows, plan, row) \in MigrationPlans
  BY <1>1, FreeRowOutcome
<1> HIDE DEF rows
<1> QED BY <1>1, <1>3, <1>4, FreeFold

-----------------------------------------------------------------------------
(* What a migration leaves of the table it has read.                       *)

\* A row that agrees with the register is about one key at most.
LEMMA FoundAgrees ==
  ASSUME NEW table \in Seq(KeyRow), Fits(table), NEW row \in IssuableRow,
         Agrees(table, row), NEW id \in FoundKeys(table, row)
  PROVE  /\ FoundKeys(table, row) = {id} /\ HexAt(table, row.hex) \subseteq {id}
         /\ NumberAt(table, Named[row.name], row.number) = {id}
         /\ id \in DOMAIN table /\ table[id].hex \in {Blank, row.hex}
         /\ table[id].type = Named[row.name] /\ table[id].number = row.number
<1> DEFINE byNumber == NumberAt(table, Named[row.name], row.number)
           byHex == HexAt(table, row.hex)
<1>1. id \in byNumber
  BY DEF Agrees, FoundKeys
<1>2. byNumber = {id}
  BY <1>1, OneRowOfANumber
<1>3. byHex # {} => byHex = {id}
  BY <1>2 DEF Agrees
<1>4. table[id].hex \in {Blank, row.hex}
  BY <1>1 DEF Agrees
<1>5. id \in DOMAIN table /\ table[id].type = Named[row.name] /\ table[id].number = row.number
  BY <1>1 DEF NumberAt
<1>6. FoundKeys(table, row) = {id}
  BY <1>2, <1>3 DEF FoundKeys
<1> QED BY <1>2, <1>3, <1>4, <1>5, <1>6

\* A row of an issued file is linked to the key with an id.
Placed(plan, row, next, id) ==
  /\ next.table \in Seq(KeyRow) /\ Fits(next.table)
  /\ id \in DOMAIN next.table /\ next.table[id] = IssuedKey(row)
  /\ DOMAIN plan.table \subseteq DOMAIN next.table
  /\ \A i \in DOMAIN next.table : i # id => i \in DOMAIN plan.table
                                           /\ next.table[i] = plan.table[i]
  /\ id \in DOMAIN plan.table => /\ plan.table[id].type = Named[row.name]
                                 /\ plan.table[id].number = row.number
                                 /\ plan.table[id].hex \in {Blank, row.hex}
  /\ next.touched = plan.touched \cup {id}

\* A key that is added with its assignment fits as it would without.
LEMMA IssuedKeyFits ==
  ASSUME NEW table \in Seq(KeyRow), Fits(table), NEW row \in IssuableRow,
         NumberAt(table, Named[row.name], row.number) = {}, HexAt(table, row.hex) = {}
  PROVE  Fits(Append(table, IssuedKey(row)))
<1> DEFINE new == IssuedKey(row)
           more == Append(table, new)
<1>1. /\ new \in KeyRow /\ new.type = Named[row.name] /\ new.number = row.number
      /\ new.hex = row.hex
  BY IssuedKeyTyped DEF IssuedKey
<1> HIDE DEF new
<1>2. /\ DOMAIN more = 1 .. Len(table) + 1 /\ more[Len(table) + 1] = new
      /\ \A i \in DOMAIN table : more[i] = table[i]
  BY <1>1, RowAdded
<1>3. \A i \in DOMAIN more : i = Len(table) + 1 \/ i \in DOMAIN table
  BY <1>2, TableRows
<1>4. \A i \in DOMAIN table : /\ <<table[i].type, table[i].number>> # <<new.type, new.number>>
                              /\ table[i].hex # new.hex
  BY <1>1 DEF NumberAt, HexAt
<1> HIDE DEF more
<1>5. ASSUME NEW i \in DOMAIN more, NEW j \in DOMAIN more, i # j
      PROVE  /\ <<more[i].type, more[i].number>> # <<more[j].type, more[j].number>>
             /\ more[i].hex # Blank => more[i].hex # more[j].hex
  <2>1. CASE i \in DOMAIN table /\ j \in DOMAIN table
    BY <1>2, <1>5, <2>1 DEF Fits
  <2>2. CASE i = Len(table) + 1 /\ j \in DOMAIN table
    BY <1>2, <1>4, <2>2
  <2>3. CASE i \in DOMAIN table /\ j = Len(table) + 1
    BY <1>2, <1>4, <2>3
  <2> QED BY <1>3, <1>5, <2>1, <2>2, <2>3
<1>6. Fits(more)
  BY <1>5 DEF Fits
<1> QED BY <1>6 DEF more, new

\* A row may be given a HEX no other row has.
LEMMA WrittenFits ==
  ASSUME NEW table \in Seq(KeyRow), Fits(table), NEW id \in DOMAIN table,
         NEW hex \in Hexes \cup {Blank}, NEW home \in Homes \cup {Unassigned},
         HexAt(table, hex) \subseteq {id}
  PROVE  Fits(Written(table, id, hex, home))
<1> DEFINE T == Written(table, id, hex, home)
<1>1. /\ DOMAIN T = DOMAIN table /\ T[id].hex = hex
      /\ T[id].type = table[id].type /\ T[id].number = table[id].number
      /\ \A i \in DOMAIN table : i # id => T[i] = table[i]
  BY RowWritten, SMTT(30)
<1>2. \A i \in DOMAIN table : i # id => table[i].hex # hex
  BY DEF HexAt
<1> HIDE DEF T
<1>3. \A i \in DOMAIN T : T[i].type = table[i].type /\ T[i].number = table[i].number
  BY <1>1
<1>4. ASSUME NEW i \in DOMAIN T, NEW j \in DOMAIN T, i # j
      PROVE  /\ <<T[i].type, T[i].number>> # <<T[j].type, T[j].number>>
             /\ T[i].hex # Blank => T[i].hex # T[j].hex
  <2>1. /\ <<table[i].type, table[i].number>> # <<table[j].type, table[j].number>>
        /\ table[i].hex # Blank => table[i].hex # table[j].hex
    BY <1>1, <1>4 DEF Fits
  <2>2. <<T[i].type, T[i].number>> # <<T[j].type, T[j].number>>
    BY <1>3, <2>1
  <2>3. T[i].hex # Blank => T[i].hex # T[j].hex
    <3>1. CASE i = id
      BY <1>1, <1>2, <1>4, <3>1
    <3>2. CASE j = id
      BY <1>1, <1>2, <1>4, <3>2
    <3>3. CASE i # id /\ j # id
      BY <1>1, <1>4, <2>1, <3>3
    <3> QED BY <3>1, <3>2, <3>3
  <2> QED BY <2>2, <2>3
<1>5. Fits(T)
  BY <1>4 DEF Fits
<1> QED BY <1>5 DEF T

\* An assignment that agrees with the register places its key at one row.
LEMMA LinkPlaces ==
  ASSUME NEW plan, plan.table \in Seq(KeyRow), Fits(plan.table),
         NEW row \in IssuableRow, Agrees(plan.table, row), NEW next,
         \/ LinkCreates(plan, row, next)
         \/ \E id \in DOMAIN plan.table : LinkFinds(plan, row, FALSE, next, id)
  PROVE  \E id : Placed(plan, row, next, id)
<1> DEFINE table == plan.table
<1>0. /\ IssuedKey(row) \in KeyRow /\ row.hex \in Hexes /\ row.to \in Homes
      /\ Len(table) \in Nat /\ DOMAIN table = 1 .. Len(table)
  BY IssuedKeyTyped, TableRows DEF IssuableRow
<1>1. CASE LinkCreates(plan, row, next)
  <2> DEFINE id == Len(table) + 1
  <2>1. HexAt(table, row.hex) = {} /\ NumberAt(table, Named[row.name], row.number) = {}
    BY <1>1 DEF LinkCreates, FoundKeys
  <2>2. next.table = Append(table, IssuedKey(row)) /\ next.touched = plan.touched \cup {id}
    BY <1>1 DEF LinkCreates
  <2>3. Fits(next.table)
    BY <2>1, <2>2, IssuedKeyFits
  <2>4. /\ next.table \in Seq(KeyRow) /\ DOMAIN next.table = 1 .. Len(table) + 1
        /\ next.table[id] = IssuedKey(row)
        /\ \A i \in DOMAIN table : i \in DOMAIN next.table /\ next.table[i] = table[i]
    BY <1>0, <2>2, RowAdded
  <2>5. /\ \A i \in DOMAIN next.table : i = id \/ i \in DOMAIN table
        /\ id \in DOMAIN next.table /\ id \notin DOMAIN table
    BY <1>0, <2>4
  <2>6. Placed(plan, row, next, id)
    BY <2>2, <2>3, <2>4, <2>5 DEF Placed
  <2> QED BY <2>6
<1>2. ASSUME NEW id \in DOMAIN table, LinkFinds(plan, row, FALSE, next, id)
      PROVE  Placed(plan, row, next, id)
  <2>1. /\ id \in FoundKeys(table, row) /\ next.table = Written(table, id, row.hex, row.to)
        /\ next.touched = plan.touched \cup {id}
    BY <1>2 DEF LinkFinds
  <2>2. /\ HexAt(table, row.hex) \subseteq {id} /\ table[id].hex \in {Blank, row.hex}
        /\ table[id].type = Named[row.name] /\ table[id].number = row.number
    BY ZenonT(30), <2>1, FoundAgrees
  <2>3. Fits(next.table)
    BY <1>0, <2>1, <2>2, WrittenFits
  <2>4. /\ next.table \in Seq(KeyRow) /\ DOMAIN next.table = DOMAIN table
        /\ next.table[id].type = Named[row.name] /\ next.table[id].number = row.number
        /\ next.table[id].hex = row.hex /\ next.table[id].home = row.to
        /\ \A i \in DOMAIN table : i # id => next.table[i] = table[i]
    BY <1>0, <2>1, <2>2, RowWritten
  <2>5. next.table[id] \in KeyRow
    BY <2>4, TableRows
  <2>6. next.table[id] = IssuedKey(row)
    BY <2>4, <2>5 DEF KeyRow, IssuedKey
  <2> QED BY <2>1, <2>2, <2>3, <2>4, <2>6 DEF Placed
<1> QED BY <1>1, <1>2

\* A migration adds keys, gives a HEX where there is none, and gives a key
\* another assignment only when it counts the key as touched.
TableKept(before, plan) ==
  /\ Fits(plan.table) /\ DOMAIN before \subseteq DOMAIN plan.table
  /\ \A i \in DOMAIN before :
       /\ plan.table[i].type = before[i].type /\ plan.table[i].number = before[i].number
       /\ before[i].hex # Blank => plan.table[i].hex = before[i].hex
       /\ i \notin plan.touched => plan.table[i].home = before[i].home

\* Placing a key keeps the rows that were there, but for a HEX that was missing.
LEMMA TableKeptPlaced ==
  ASSUME NEW before, NEW plan, NEW row, NEW next, NEW id, TableKept(before, plan),
         Placed(plan, row, next, id)
  PROVE  TableKept(before, next)
<1>1. Fits(next.table) /\ DOMAIN before \subseteq DOMAIN next.table
  BY DEF TableKept, Placed
<1>2. ASSUME NEW i \in DOMAIN before
      PROVE  /\ next.table[i].type = before[i].type /\ next.table[i].number = before[i].number
             /\ before[i].hex # Blank => next.table[i].hex = before[i].hex
             /\ i \notin next.touched => next.table[i].home = before[i].home
  <2>1. CASE i # id
    <3>1. next.table[i] = plan.table[i] /\ (i \notin next.touched => i \notin plan.touched)
      BY <1>1, <2>1 DEF Placed
    <3> QED BY <3>1 DEF TableKept
  <2>2. CASE i = id
    <3>1. /\ i \in DOMAIN plan.table /\ i \in next.touched
          /\ next.table[i].type = Named[row.name] /\ next.table[i].number = row.number
          /\ next.table[i].hex = row.hex
          /\ plan.table[i].type = Named[row.name] /\ plan.table[i].number = row.number
          /\ plan.table[i].hex \in {Blank, row.hex}
      BY <2>2 DEF Placed, TableKept, IssuedKey
    <3> QED BY <3>1 DEF TableKept
  <2> QED BY <2>1, <2>2
<1> QED BY <1>1, <1>2 DEF TableKept

\* The plan a migration begins with has kept them.
LEMMA TableKeptBegun ==
  ASSUME NEW before, Fits(before), NEW plan, Begun(before, plan)
  PROVE  TableKept(before, plan)
BY DEF TableKept, Begun

\* A row that is skipped keeps them.
LEMMA TableKeptSkipped ==
  ASSUME NEW before, NEW plan, NEW next, TableKept(before, plan), Skipped(plan, next)
  PROVE  TableKept(before, next)
BY DEF TableKept, Skipped

\* A free row adds a key.
LEMMA TableKeptFree ==
  ASSUME NEW before, NEW known, NEW rows, NEW row \in FileRow, NEW plan, NEW next,
         plan.table \in Seq(KeyRow), TableKept(before, plan),
         FreeStep(known, rows, plan, row, next)
  PROVE  TableKept(before, next)
<1>1. CASE Skipped(plan, next)
  BY <1>1, TableKeptSkipped
<1>2. CASE /\ FoundKeys(plan.table, row) = {} /\ row.hex \in Hexes
           /\ next.table = Append(plan.table, NewRow(Named[row.name], row.number, row.hex))
           /\ next.touched = plan.touched
  <2>1. /\ HexAt(plan.table, row.hex) = {}
        /\ NumberAt(plan.table, Named[row.name], row.number) = {}
    BY <1>2 DEF FoundKeys
  <2>2. Named[row.name] \in KeyTypes /\ row.number \in Numbers
    BY NamedAssumption DEF FileRow
  <2>3. Fits(next.table)
    BY <1>2, <2>1, <2>2, AddedFits DEF TableKept
  <2>4. NewRow(Named[row.name], row.number, row.hex) \in KeyRow
    BY <1>2, <2>2, NewRowTyped
  <2>5. \A i \in DOMAIN plan.table : /\ i \in DOMAIN next.table
                                     /\ next.table[i] = plan.table[i]
    BY <1>2, <2>4, RowAdded
  <2> QED BY <1>2, <2>3, <2>5 DEF TableKept
<1> QED BY <1>1, <1>2 DEF FreeStep

-----------------------------------------------------------------------------
(* Applying a migration again.                                             *)

\* The register has a key just as a row says.
Held(table, row) == \E i \in DOMAIN table : table[i] = IssuedKey(row)

\* Each row that was looked up is in the register, or was refused and would be
\* again.
Settled(known, rows, seen, table) ==
  \A r \in seen : Candidate(known, rows, r) => Held(table, r) \/ ~Agrees(table, r)

\* Two rows that are in no conflict have HEX codes of their own.
LEMMA ApartByHex ==
  ASSUME NEW rows, rows \subseteq FileRow, NEW r \in rows, NEW s \in rows,
         ~Conflicts(rows, r), r.hex = s.hex
  PROVE  r = s
<1>1. <<Identity(s), s.to>> = <<Identity(r), r.to>>
  BY DEF Conflicts, HexConflict
<1>2. s.name = r.name /\ s.number = r.number /\ s.to = r.to
  BY <1>1 DEF Identity
<1>3. r \in FileRow /\ s \in FileRow
  OBVIOUS
<1> QED BY <1>2, <1>3 DEF FileRow

\* A key that has its HEX and its address keeps them when another is placed.
LEMMA HeldKept ==
  ASSUME NEW plan, NEW row, NEW next, NEW id, Placed(plan, row, next, id),
         NEW r \in IssuableRow, r.hex # row.hex, Held(plan.table, r)
  PROVE  Held(next.table, r)
<1>1. PICK i \in DOMAIN plan.table : plan.table[i] = IssuedKey(r)
  BY DEF Held
<1>2. plan.table[i].hex = r.hex /\ r.hex # Blank
  BY <1>1, BlankAssumption DEF IssuedKey, IssuableRow
<1>3. i # id
  BY <1>1, <1>2 DEF Placed
<1>4. i \in DOMAIN next.table /\ next.table[i] = plan.table[i]
  BY <1>1, <1>3 DEF Placed
<1> QED BY <1>1, <1>4 DEF Held

\* A row that does not agree with the register does not come to agree with it
\* later.
LEMMA DisagreeKept ==
  ASSUME NEW plan, Fits(plan.table), NEW row, row.hex # Blank, NEW next, NEW id,
         Placed(plan, row, next, id),
         NEW r \in IssuableRow, r.hex # row.hex, ~Agrees(plan.table, r)
  PROVE  ~Agrees(next.table, r)
<1> DEFINE table == plan.table
           byNumber(t) == NumberAt(t, Named[r.name], r.number)
           byHex(t) == HexAt(t, r.hex)
<1>0. r.hex # Blank
  BY BlankAssumption DEF IssuableRow
<1>1. \/ byHex(table) # {} /\ byHex(table) # byNumber(table)
      \/ \E i \in byNumber(table) : table[i].hex \notin {Blank, r.hex}
  BY DEF Agrees
<1>2. \A i \in DOMAIN table :
        /\ i \in DOMAIN next.table
        /\ next.table[i].type = table[i].type /\ next.table[i].number = table[i].number
        /\ next.table[i].hex = (IF i = id THEN row.hex ELSE table[i].hex)
  <2> SUFFICES ASSUME NEW i \in DOMAIN table
               PROVE  /\ i \in DOMAIN next.table
                      /\ next.table[i].type = table[i].type
                      /\ next.table[i].number = table[i].number
                      /\ next.table[i].hex = (IF i = id THEN row.hex ELSE table[i].hex)
    OBVIOUS
  <2>1. CASE i = id
    BY <2>1 DEF Placed, IssuedKey
  <2>2. CASE i # id
    BY <2>2 DEF Placed
  <2> QED BY <2>1, <2>2
<1>3. ASSUME NEW i \in byNumber(table), table[i].hex \notin {Blank, r.hex}
      PROVE  ~Agrees(next.table, r)
  <2>1. i \in byNumber(next.table) /\ next.table[i].hex \notin {Blank, r.hex}
    BY <1>2, <1>3 DEF NumberAt
  <2> QED BY <2>1 DEF Agrees
<1>4. CASE byHex(table) # {} /\ byHex(table) # byNumber(table)
  <2>1. PICK i \in DOMAIN table : table[i].hex = r.hex
    BY <1>4 DEF HexAt
  <2>2. byHex(table) = {i}
    BY <1>0, <2>1, OneRowOfAHex DEF HexAt
  <2>3. i # id
    BY <1>0, <2>1 DEF Placed
  <2>4. i \in byHex(next.table)
    BY <1>2, <2>1, <2>3 DEF HexAt
  <2>5. i \notin byNumber(table)
    BY <1>4, <2>2, OneRowOfANumber
  <2>6. i \notin byNumber(next.table)
    BY <1>2, <2>1, <2>5 DEF NumberAt
  <2> QED BY <2>4, <2>6 DEF Agrees
<1> QED BY <1>1, <1>3, <1>4

\* With its key placed, a row is settled and the rows before it stay so.
LEMMA SettledPlaced ==
  ASSUME NEW known, NEW rows, IssuedRowsOnly(rows), NEW row \in IssuableRow,
         Candidate(known, rows, row), NEW plan, Fits(plan.table), NEW next, NEW id,
         Placed(plan, row, next, id), row \notin plan.seen,
         Settled(known, rows, plan.seen, plan.table)
  PROVE  Settled(known, rows, plan.seen \cup {row}, next.table)
<1>0. row.hex # Blank /\ rows \subseteq FileRow
  BY BlankAssumption DEF IssuableRow, IssuedRowsOnly
<1>1. Held(next.table, row)
  BY DEF Placed, Held
<1>2. ASSUME NEW r \in plan.seen, Candidate(known, rows, r)
      PROVE  Held(next.table, r) \/ ~Agrees(next.table, r)
  <2>1. r # row /\ r \in rows /\ row \in rows /\ ~Conflicts(rows, r)
    BY <1>2 DEF Candidate
  <2>2. r \in IssuableRow
    <3>1. r \in FileRow /\ r.to # Unassigned /\ r.hex # BadHex /\ r.to # Nowhere
      BY <1>2, <2>1 DEF IssuedRowsOnly, Candidate
    <3> QED BY <3>1 DEF FileRow, IssuableRow
  <2>3. r.hex # row.hex
    BY <1>0, <2>1, ApartByHex
  <2>4. Held(plan.table, r) => Held(next.table, r)
    BY <2>2, <2>3, HeldKept
  <2>5. ~Agrees(plan.table, r) => ~Agrees(next.table, r)
    BY <1>0, <2>2, <2>3, DisagreeKept
  <2> QED BY <1>2, <2>4, <2>5 DEF Settled
<1> QED BY <1>1, <1>2 DEF Settled

\* What has become of the first n rows of an issued file.
IssuedTold(before, known, rows, file, n, plan) ==
  /\ TableKept(before, plan)
  /\ Settled(known, rows, plan.seen, plan.table)
  /\ \A j \in 1 .. n : file[j] \in rows /\ ~Conflicts(rows, file[j])
                         => file[j] \in plan.seen

\* A row keeps true what the plan of issued keys tells of the rows before it.
LEMMA IssuedToldKept ==
  ASSUME NEW before, NEW known, NEW rows, IssuedRowsOnly(rows), NEW file \in Seq(FileRow),
         NEW n \in 1 .. Len(file), NEW plan \in MigrationPlans,
         IssuedTold(before, known, rows, file, n - 1, plan)
  PROVE  IssuedTold(before, known, rows, file, n,
                    IssuedRow(known, rows, plan, file[n], FALSE))
<1> DEFINE row == file[n]
           next == IssuedRow(known, rows, plan, row, FALSE)
<1>0. row \in FileRow /\ plan.table \in Seq(KeyRow) /\ Fits(plan.table)
      /\ Len(file) \in Nat
  BY RowsOfFile, MigrationFields, LenProperties DEF IssuedTold, TableKept
<1>1. IssuedStep(known, rows, plan, row, FALSE, next)
  BY <1>0, IssuedStepTaken
<1> HIDE DEF next
<1>2. ASSUME plan.seen \subseteq next.seen,
             row \in rows /\ ~Conflicts(rows, row) => row \in next.seen
      PROVE  \A j \in 1 .. n : file[j] \in rows /\ ~Conflicts(rows, file[j])
                                 => file[j] \in next.seen
  <2> SUFFICES ASSUME NEW j \in 1 .. n, file[j] \in rows, ~Conflicts(rows, file[j])
               PROVE  file[j] \in next.seen
    OBVIOUS
  <2>1. j = n \/ j \in 1 .. n - 1
    BY <1>0
  <2> QED BY <1>2, <2>1 DEF IssuedTold
<1>3. CASE /\ Skipped(plan, next) /\ next.seen = plan.seen
           /\ row \notin rows \/ Conflicts(rows, row) \/ row \in plan.seen
  <2>1. TableKept(before, next)
    BY <1>3, TableKeptSkipped DEF IssuedTold
  <2>2. Settled(known, rows, next.seen, next.table)
    BY <1>3 DEF IssuedTold, Skipped
  <2>3. \A j \in 1 .. n : file[j] \in rows /\ ~Conflicts(rows, file[j])
                            => file[j] \in next.seen
    BY <1>2, <1>3
  <2> QED BY <2>1, <2>2, <2>3 DEF IssuedTold, next
<1>4. CASE /\ Skipped(plan, next) /\ next.seen = plan.seen \cup {row} /\ row \in rows
           /\ ~Candidate(known, rows, row) \/ ~Agrees(plan.table, row)
  <2>1. TableKept(before, next)
    BY <1>4, TableKeptSkipped DEF IssuedTold
  <2>2. Settled(known, rows, next.seen, next.table)
    <3>1. next.table = plan.table /\ Settled(known, rows, plan.seen, plan.table)
      BY <1>4 DEF IssuedTold, Skipped
    <3> QED BY <1>4, <3>1 DEF Settled
  <2>3. \A j \in 1 .. n : file[j] \in rows /\ ~Conflicts(rows, file[j])
                            => file[j] \in next.seen
    BY <1>2, <1>4
  <2> QED BY <2>1, <2>2, <2>3 DEF IssuedTold, next
<1>5. CASE /\ row \notin plan.seen /\ next.seen = plan.seen \cup {row}
           /\ Candidate(known, rows, row) /\ Agrees(plan.table, row) /\ row \in IssuableRow
           /\ \/ LinkCreates(plan, row, next)
              \/ \E id \in DOMAIN plan.table : LinkFinds(plan, row, FALSE, next, id)
  <2>1. PICK id : Placed(plan, row, next, id)
    BY <1>0, <1>5, LinkPlaces
  <2>2. TableKept(before, next)
    BY <2>1, TableKeptPlaced DEF IssuedTold
  <2>3. Settled(known, rows, next.seen, next.table)
    <3>1. Settled(known, rows, plan.seen, plan.table)
      BY DEF IssuedTold
    <3>2. Settled(known, rows, plan.seen \cup {row}, next.table)
      BY <1>0, <1>5, <2>1, <3>1, SettledPlaced
    <3> QED BY <1>5, <3>2
  <2>4. \A j \in 1 .. n : file[j] \in rows /\ ~Conflicts(rows, file[j])
                            => file[j] \in next.seen
    BY <1>2, <1>5
  <2> QED BY <2>2, <2>3, <2>4 DEF IssuedTold, next
<1> QED BY <1>1, <1>3, <1>4, <1>5 DEF IssuedStep

\* What an issued file comes to, applied.
LEMMA IssuedPlanTold ==
  ASSUME NEW before \in Seq(KeyRow), Fits(before), NEW known, NEW file \in Seq(FileRow)
  PROVE  LET plan == IssuedPlan(before, known, file, FALSE)
         IN /\ plan \in MigrationPlans
            /\ IssuedTold(before, known, IssuedRows(file), file, Len(file), plan)
<1> DEFINE N == Len(file)
           rows == IssuedRows(file)
<1>0. N \in Nat /\ IssuedRowsOnly(rows) /\ Begun(before, IssuedStart(before, file))
  BY LenProperties, IssuedBegins
<1>1. PICK plans \in [0 .. N -> MigrationPlans] :
        IssuedSteps(before, known, file, FALSE, plans)
  BY IssuedPlans
<1> DEFINE Good == {n \in Nat : n <= N => IssuedTold(before, known, rows, file, n, plans[n])}
<1>2. 0 \in Good
  <2>1. plans[0] = IssuedStart(before, file)
    BY <1>1 DEF IssuedSteps
  <2>2. TableKept(before, plans[0])
    BY <1>0, <2>1, TableKeptBegun
  <2>3. plans[0].seen = {}
    BY <1>0, <2>1 DEF Begun
  <2>4. Settled(known, rows, plans[0].seen, plans[0].table)
    BY <2>3 DEF Settled
  <2>5. IssuedTold(before, known, rows, file, 0, plans[0])
    BY <2>2, <2>4 DEF IssuedTold
  <2> QED BY <2>5
<1>3. ASSUME NEW n \in Nat, n \in Good PROVE n + 1 \in Good
  <2> SUFFICES ASSUME n + 1 <= N
               PROVE  IssuedTold(before, known, rows, file, n + 1, plans[n + 1])
    OBVIOUS
  <2> HIDE DEF rows
  <2>1. n + 1 \in 1 .. N /\ n \in 0 .. N /\ (n + 1) - 1 = n /\ n <= N
    BY <1>0
  <2>2. plans[n + 1] = IssuedRow(known, rows, plans[n], file[n + 1], FALSE)
    BY <1>1, <2>1 DEF IssuedSteps, rows
  <2>3. plans[n] \in MigrationPlans /\ IssuedTold(before, known, rows, file, n, plans[n])
    BY <1>1, <1>3, <2>1
  <2>4. IssuedTold(before, known, rows, file, (n + 1) - 1, plans[n])
    BY <2>1, <2>3
  <2>5. IssuedTold(before, known, rows, file, n + 1,
                   IssuedRow(known, rows, plans[n], file[n + 1], FALSE))
    BY <1>0, <2>1, <2>3, <2>4, IssuedToldKept
  <2> QED BY <2>2, <2>5
<1>4. N \in Good
  <2> HIDE DEF Good
  <2> QED BY <1>0, <1>2, <1>3, Climb
<1>5. IssuedPlan(before, known, file, FALSE) = plans[N] /\ N \in 0 .. N
  BY <1>0, <1>1, SMTT(30) DEF IssuedSteps
<1> QED BY <1>0, <1>1, <1>4, <1>5

\* A second run leaves the table and counts nothing that is new.
NothingNew(table, plan) ==
  plan.table = table /\ plan.created = 0 /\ plan.changed = 0

\* Writing a row as it is changes nothing.
LEMMA WrittenAgain ==
  ASSUME NEW table \in Seq(KeyRow), NEW id \in DOMAIN table, NEW row \in IssuableRow,
         table[id] = IssuedKey(row)
  PROVE  Written(table, id, row.hex, row.to) = table
<1>0. table[id] \in KeyRow /\ table[id].hex = row.hex /\ table[id].home = row.to
  BY TableRows DEF IssuedKey
<1>1. [table[id] EXCEPT !.hex = row.hex, !.home = row.to] = table[id]
  BY <1>0 DEF KeyRow
<1>2. table = [table EXCEPT ![id] = table[id]]
  BY TableRows, LenProperties
<1> QED BY <1>1, <1>2 DEF Written

\* Read again, a row that is settled changes nothing.
LEMMA IssuedRowAgain ==
  ASSUME NEW known, NEW rows, IssuedRowsOnly(rows), NEW row \in FileRow,
         NEW plan \in MigrationPlans, NEW table, NothingNew(table, plan), Fits(table),
         Candidate(known, rows, row) => Held(table, row) \/ ~Agrees(table, row)
  PROVE  NothingNew(table, IssuedRow(known, rows, plan, row, FALSE))
<1> DEFINE next == IssuedRow(known, rows, plan, row, FALSE)
<1>0. table \in Seq(KeyRow) /\ plan.table = table
  BY MigrationFields DEF NothingNew
<1>1. IssuedStep(known, rows, plan, row, FALSE, next)
  BY IssuedStepTaken
<1> HIDE DEF next
<1>2. CASE Skipped(plan, next)
  BY <1>2 DEF Skipped, NothingNew, next
<1>3. CASE /\ Candidate(known, rows, row) /\ Agrees(plan.table, row) /\ row \in IssuableRow
           /\ \/ LinkCreates(plan, row, next)
              \/ \E id \in DOMAIN plan.table : LinkFinds(plan, row, FALSE, next, id)
  <2>1. PICK i \in DOMAIN table : table[i] = IssuedKey(row)
    BY <1>0, <1>3 DEF Held
  <2>2. i \in HexAt(table, row.hex) /\ table[i].home = row.to
    BY <2>1 DEF IssuedKey, HexAt
  <2>3. FoundKeys(table, row) # {}
    BY <2>2 DEF FoundKeys
  <2>4. PICK id \in DOMAIN table : LinkFinds(plan, row, FALSE, next, id)
    BY <1>0, <1>3, <2>3 DEF LinkCreates
  <2>5. id \in FoundKeys(table, row)
    BY <1>0, <2>4 DEF LinkFinds
  <2>6. id = i
    BY <1>0, <1>3, <2>2, <2>5, FoundAgrees
  <2>7. next.table = Written(table, id, row.hex, row.to)
        /\ next.created = plan.created /\ next.changed = plan.changed
    BY <1>0, <2>2, <2>4, <2>6 DEF LinkFinds
  <2>8. next.table = table
    BY <1>0, <1>3, <2>1, <2>6, <2>7, WrittenAgain
  <2> QED BY <2>7, <2>8 DEF NothingNew, next
<1> QED BY <1>1, <1>2, <1>3 DEF IssuedStep

\* Applied to what it has left, an issued file changes nothing.
LEMMA IssuedAgain ==
  ASSUME NEW before \in Seq(KeyRow), Fits(before), NEW known, NEW file \in Seq(FileRow),
         NEW table, table = IssuedPlan(before, known, file, FALSE).table
  PROVE  /\ table \in Seq(KeyRow) /\ Fits(table)
         /\ NothingNew(table, IssuedPlan(table, known, file, FALSE))
<1> DEFINE N == Len(file)
           rows == IssuedRows(file)
           first == IssuedPlan(before, known, file, FALSE)
<1>0. first \in MigrationPlans /\ IssuedTold(before, known, rows, file, N, first)
  BY IssuedPlanTold
<1>1. table \in Seq(KeyRow) /\ Fits(table)
  BY <1>0, MigrationFields DEF IssuedTold, TableKept
<1>2. N \in Nat /\ IssuedRowsOnly(rows) /\ Begun(table, IssuedStart(table, file))
  BY <1>1, LenProperties, IssuedBegins
<1>3. ASSUME NEW n \in 1 .. N, Candidate(known, rows, file[n])
      PROVE  Held(table, file[n]) \/ ~Agrees(table, file[n])
  <2>1. file[n] \in first.seen
    BY <1>0, <1>3 DEF IssuedTold, Candidate
  <2> QED BY <1>0, <1>3, <2>1 DEF IssuedTold, Settled
<1>4. PICK plans \in [0 .. N -> MigrationPlans] :
        IssuedSteps(table, known, file, FALSE, plans)
  BY <1>1, IssuedPlans
<1> HIDE DEF first
<1> DEFINE Good == {n \in Nat : n <= N => NothingNew(table, plans[n])}
<1>5. 0 \in Good
  <2>1. plans[0] = IssuedStart(table, file)
    BY <1>4 DEF IssuedSteps
  <2> QED BY <1>2, <2>1 DEF Begun, NothingNew
<1>6. ASSUME NEW n \in Nat, n \in Good PROVE n + 1 \in Good
  <2> SUFFICES ASSUME n + 1 <= N PROVE NothingNew(table, plans[n + 1])
    OBVIOUS
  <2> HIDE DEF rows
  <2>1. n + 1 \in 1 .. N /\ n \in 0 .. N /\ (n + 1) - 1 = n /\ n <= N
    BY <1>2
  <2>2. plans[n + 1] = IssuedRow(known, rows, plans[n], file[n + 1], FALSE)
    BY <1>4, <2>1 DEF IssuedSteps, rows
  <2>3. plans[n] \in MigrationPlans /\ NothingNew(table, plans[n])
    BY <1>4, <1>6, <2>1
  <2>4. file[n + 1] \in FileRow
    BY <2>1, RowsOfFile
  <2>5. Candidate(known, rows, file[n + 1])
          => Held(table, file[n + 1]) \/ ~Agrees(table, file[n + 1])
    BY <1>3, <2>1
  <2> QED BY <1>1, <1>2, <2>2, <2>3, <2>4, <2>5, IssuedRowAgain
<1>7. N \in Good
  <2> HIDE DEF Good
  <2> QED BY <1>2, <1>5, <1>6, Climb
<1>8. IssuedPlan(table, known, file, FALSE) = plans[N]
  BY <1>4 DEF IssuedSteps
<1>9. NothingNew(table, plans[N])
  <2>1. N \in Nat /\ N <= N
    BY <1>2
  <2> HIDE DEF N
  <2> QED BY <1>7, <2>1
<1> QED BY <1>1, <1>8, <1>9

\* Each row of a free file that was met is in conflict, of an unknown type, or
\* about a key there is.
AllFound(known, rows, seen, table) ==
  \A r \in seen : \/ r \notin rows \/ Conflicts(rows, r) \/ Named[r.name] \notin known
                  \/ FoundKeys(table, r) # {}

\* What has become of the first n rows of a free file.
FreeTold(before, known, rows, file, n, plan) ==
  /\ TableKept(before, plan)
  /\ plan.changed = 0
  /\ AllFound(known, rows, plan.seen, plan.table)
  /\ \A j \in 1 .. n : file[j] \in rows => file[j] \in plan.seen

\* A key that is found is found still when one more is added.
LEMMA FoundKept ==
  ASSUME NEW table \in Seq(KeyRow), NEW new \in KeyRow, NEW r,
         FoundKeys(table, r) # {}
  PROVE  FoundKeys(Append(table, new), r) # {}
<1>1. \A i \in DOMAIN table : /\ i \in DOMAIN Append(table, new)
                              /\ Append(table, new)[i] = table[i]
  BY RowAdded
<1>2. PICK i \in DOMAIN table : \/ table[i].hex = r.hex
                                \/ table[i].type = Named[r.name] /\ table[i].number = r.number
  BY DEF FoundKeys, HexAt, NumberAt
<1>3. \/ i \in HexAt(Append(table, new), r.hex)
      \/ i \in NumberAt(Append(table, new), Named[r.name], r.number)
  BY <1>1, <1>2 DEF HexAt, NumberAt
<1> QED BY <1>3 DEF FoundKeys

\* A row keeps true what the plan of free keys tells of the rows before it.
LEMMA FreeToldKept ==
  ASSUME NEW before, NEW known, NEW rows, rows \subseteq FileRow,
         \A r \in rows : r.hex # BadHex, NEW file \in Seq(FileRow),
         NEW n \in 1 .. Len(file), NEW plan \in MigrationPlans,
         FreeTold(before, known, rows, file, n - 1, plan)
  PROVE  FreeTold(before, known, rows, file, n, FreeRow(known, rows, plan, file[n]))
<1> DEFINE row == file[n]
           next == FreeRow(known, rows, plan, row)
<1>0. row \in FileRow /\ plan.table \in Seq(KeyRow) /\ Len(file) \in Nat
  BY RowsOfFile, MigrationFields, LenProperties
<1>1. FreeStep(known, rows, plan, row, next)
  BY <1>0, FreeRowOutcome
<1> HIDE DEF next
<1>2. TableKept(before, next)
  BY <1>0, <1>1, TableKeptFree DEF FreeTold
<1>3. next.changed = 0
  BY <1>1 DEF FreeStep, Skipped, FreeTold
<1>4. \A j \in 1 .. n : file[j] \in rows => file[j] \in next.seen
  <2> SUFFICES ASSUME NEW j \in 1 .. n, file[j] \in rows PROVE file[j] \in next.seen
    OBVIOUS
  <2>1. j = n \/ j \in 1 .. n - 1
    BY <1>0
  <2>2. plan.seen \subseteq next.seen /\ (row \in rows => row \in next.seen)
    BY <1>1 DEF FreeStep
  <2> QED BY <2>1, <2>2 DEF FreeTold
<1>5. AllFound(known, rows, next.seen, next.table)
  <2>0. AllFound(known, rows, plan.seen, plan.table)
    BY DEF FreeTold
  <2>1. CASE Skipped(plan, next) /\ next.seen = plan.seen
    BY <2>0, <2>1 DEF AllFound, Skipped
  <2>2. CASE /\ Skipped(plan, next) /\ next.seen = plan.seen \cup {row}
             /\ \/ Conflicts(rows, row) \/ Named[row.name] \notin known
                \/ FoundKeys(plan.table, row) # {}
    <3>1. next.table = plan.table
      BY <2>2 DEF Skipped
    <3> QED BY <2>0, <2>2, <3>1 DEF AllFound
  <2>3. CASE /\ next.seen = plan.seen \cup {row} /\ row.hex \in Hexes
             /\ next.table = Append(plan.table,
                                    NewRow(Named[row.name], row.number, row.hex))
    <3> DEFINE new == NewRow(Named[row.name], row.number, row.hex)
    <3>1. new \in KeyRow /\ new.hex = row.hex
      <4>1. Named[row.name] \in KeyTypes /\ row.number \in Numbers
        BY <1>0, NamedAssumption DEF FileRow
      <4>2. new \in KeyRow
        BY <2>3, <4>1, NewRowTyped
      <4> QED BY <4>2 DEF NewRow
    <3> HIDE DEF new
    <3>2. next.table = Append(plan.table, new)
      BY <2>3 DEF new
    <3>3. FoundKeys(next.table, row) # {}
      <4>1. /\ Len(plan.table) + 1 \in DOMAIN next.table
            /\ next.table[Len(plan.table) + 1] = new
        BY <1>0, <3>1, <3>2, RowAdded, TableRows
      <4>2. HexAt(next.table, row.hex) # {}
        BY <3>1, <4>1 DEF HexAt
      <4> QED BY <4>2 DEF FoundKeys
    <3>4. \A r : FoundKeys(plan.table, r) # {} => FoundKeys(next.table, r) # {}
      BY <1>0, <3>1, <3>2, FoundKept
    <3> QED BY <2>0, <2>3, <3>3, <3>4 DEF AllFound
  <2> QED BY <1>1, <2>1, <2>2, <2>3 DEF FreeStep
<1> QED BY <1>2, <1>3, <1>4, <1>5 DEF FreeTold, next

\* What a free file comes to.
LEMMA FreePlanTold ==
  ASSUME NEW before \in Seq(KeyRow), Fits(before), NEW known, NEW file \in Seq(FileRow)
  PROVE  LET plan == FreePlan(before, known, file)
         IN /\ plan \in MigrationPlans
            /\ FreeTold(before, known, FreeRows(file), file, Len(file), plan)
<1> DEFINE N == Len(file)
           rows == FreeRows(file)
<1>0. /\ N \in Nat /\ rows \subseteq FileRow /\ \A r \in rows : r.hex # BadHex
      /\ Begun(before, FreeStart(before, file))
  BY LenProperties, FreeBegins
<1>1. PICK plans \in [0 .. N -> MigrationPlans] : FreeSteps(before, known, file, plans)
  BY FreePlans
<1> DEFINE Good == {n \in Nat : n <= N => FreeTold(before, known, rows, file, n, plans[n])}
<1>2. 0 \in Good
  <2>1. plans[0] = FreeStart(before, file)
    BY <1>1 DEF FreeSteps
  <2>2. TableKept(before, plans[0])
    BY <1>0, <2>1, TableKeptBegun
  <2>3. plans[0].seen = {} /\ plans[0].changed = 0
    BY <1>0, <2>1 DEF Begun
  <2>4. AllFound(known, rows, plans[0].seen, plans[0].table)
    BY <2>3 DEF AllFound
  <2>5. FreeTold(before, known, rows, file, 0, plans[0])
    BY <2>2, <2>3, <2>4 DEF FreeTold
  <2> QED BY <2>5
<1>3. ASSUME NEW n \in Nat, n \in Good PROVE n + 1 \in Good
  <2> SUFFICES ASSUME n + 1 <= N
               PROVE  FreeTold(before, known, rows, file, n + 1, plans[n + 1])
    OBVIOUS
  <2> HIDE DEF rows
  <2>1. n + 1 \in 1 .. N /\ n \in 0 .. N /\ (n + 1) - 1 = n /\ n <= N
    BY <1>0
  <2>2. plans[n + 1] = FreeRow(known, rows, plans[n], file[n + 1])
    BY <1>1, <2>1 DEF FreeSteps, rows
  <2>3. plans[n] \in MigrationPlans /\ FreeTold(before, known, rows, file, n, plans[n])
    BY <1>1, <1>3, <2>1
  <2>4. FreeTold(before, known, rows, file, (n + 1) - 1, plans[n])
    BY <2>1, <2>3
  <2>5. FreeTold(before, known, rows, file, n + 1,
                 FreeRow(known, rows, plans[n], file[n + 1]))
    BY <1>0, <2>1, <2>3, <2>4, FreeToldKept
  <2> QED BY <2>2, <2>5
<1>4. N \in Good
  <2> HIDE DEF Good
  <2> QED BY <1>0, <1>2, <1>3, Climb
<1>5. FreePlan(before, known, file) = plans[N] /\ N \in 0 .. N
  BY <1>0, <1>1 DEF FreeSteps
<1> QED BY <1>0, <1>1, <1>4, <1>5

\* Read again, a free row whose key is found creates nothing.
LEMMA FreeRowAgain ==
  ASSUME NEW known, NEW rows, rows \subseteq FileRow, \A r \in rows : r.hex # BadHex,
         NEW row \in FileRow, NEW plan \in MigrationPlans, NEW table,
         NothingNew(table, plan),
         \/ row \notin rows \/ Conflicts(rows, row) \/ Named[row.name] \notin known
         \/ FoundKeys(table, row) # {}
  PROVE  NothingNew(table, FreeRow(known, rows, plan, row))
<1> DEFINE next == FreeRow(known, rows, plan, row)
<1>1. FreeStep(known, rows, plan, row, next)
  BY FreeRowOutcome
<1> HIDE DEF next
<1>2. Skipped(plan, next)
  BY <1>1 DEF FreeStep, NothingNew
<1> QED BY <1>2 DEF Skipped, NothingNew, next

\* Applied to what it has left, a free file changes nothing.
LEMMA FreeAgain ==
  ASSUME NEW before \in Seq(KeyRow), Fits(before), NEW known, NEW file \in Seq(FileRow),
         NEW table, table = FreePlan(before, known, file).table
  PROVE  /\ table \in Seq(KeyRow) /\ Fits(table)
         /\ NothingNew(table, FreePlan(table, known, file))
<1> DEFINE N == Len(file)
           rows == FreeRows(file)
           first == FreePlan(before, known, file)
<1>0. first \in MigrationPlans /\ FreeTold(before, known, rows, file, N, first)
  BY FreePlanTold
<1>1. table \in Seq(KeyRow) /\ Fits(table)
  BY <1>0, MigrationFields DEF FreeTold, TableKept
<1>2. /\ N \in Nat /\ rows \subseteq FileRow /\ \A r \in rows : r.hex # BadHex
      /\ Begun(table, FreeStart(table, file))
  BY <1>1, LenProperties, FreeBegins
<1>3. ASSUME NEW n \in 1 .. N
      PROVE  \/ file[n] \notin rows \/ Conflicts(rows, file[n])
             \/ Named[file[n].name] \notin known \/ FoundKeys(table, file[n]) # {}
  <2>1. file[n] \in rows => file[n] \in first.seen
    BY <1>0, <1>3 DEF FreeTold
  <2> QED BY <1>0, <2>1 DEF FreeTold, AllFound
<1>4. PICK plans \in [0 .. N -> MigrationPlans] : FreeSteps(table, known, file, plans)
  BY <1>1, FreePlans
<1> HIDE DEF first
<1> DEFINE Good == {n \in Nat : n <= N => NothingNew(table, plans[n])}
<1>5. 0 \in Good
  <2>1. plans[0] = FreeStart(table, file)
    BY <1>4 DEF FreeSteps
  <2> QED BY <1>2, <2>1 DEF Begun, NothingNew
<1>6. ASSUME NEW n \in Nat, n \in Good PROVE n + 1 \in Good
  <2> SUFFICES ASSUME n + 1 <= N PROVE NothingNew(table, plans[n + 1])
    OBVIOUS
  <2> HIDE DEF rows
  <2>1. n + 1 \in 1 .. N /\ n \in 0 .. N /\ (n + 1) - 1 = n /\ n <= N
    BY <1>2
  <2>2. plans[n + 1] = FreeRow(known, rows, plans[n], file[n + 1])
    BY <1>4, <2>1 DEF FreeSteps, rows
  <2>3. plans[n] \in MigrationPlans /\ NothingNew(table, plans[n])
    BY <1>4, <1>6, <2>1
  <2>4. file[n + 1] \in FileRow
    BY <2>1, RowsOfFile
  <2>5. \/ file[n + 1] \notin rows \/ Conflicts(rows, file[n + 1])
        \/ Named[file[n + 1].name] \notin known \/ FoundKeys(table, file[n + 1]) # {}
    BY <1>3, <2>1
  <2> QED BY <1>2, <2>2, <2>3, <2>4, <2>5, FreeRowAgain
<1>7. N \in Good
  <2> HIDE DEF Good
  <2> QED BY <1>2, <1>5, <1>6, Climb
<1>8. FreePlan(table, known, file) = plans[N]
  BY <1>4 DEF FreeSteps
<1>9. NothingNew(table, plans[N])
  <2>1. N \in Nat /\ N <= N
    BY <1>2
  <2> HIDE DEF N
  <2> QED BY <1>7, <2>1
<1> QED BY <1>1, <1>8, <1>9

-----------------------------------------------------------------------------
(* What the commit of a migration writes.                                  *)

\* A key that had a HEX when the register was read keeps the one it has.
LEMMA MigratedRows ==
  ASSUME NEW now \in Seq(KeyRow), NEW before \in Seq(KeyRow), NEW plan \in MigrationPlans,
         Len(before) <= Len(now), TableKept(before, plan)
  PROVE  /\ Migrated(now, before, plan) \in Seq(KeyRow)
         /\ DOMAIN now \subseteq DOMAIN Migrated(now, before, plan)
         /\ Len(now) <= Len(Migrated(now, before, plan))
         /\ \A i \in DOMAIN now :
              /\ i \notin DOMAIN before => Migrated(now, before, plan)[i] = now[i]
              /\ (i \in DOMAIN before /\ before[i].hex # Blank)
                   => Migrated(now, before, plan)[i].hex = now[i].hex
<1> DEFINE row(i) == IF i > Len(before) THEN now[i]
                     ELSE [now[i] EXCEPT
                             !.hex = Overwritten(@, before[i].hex, plan.table[i].hex),
                             !.home = IF i \in plan.touched THEN plan.table[i].home ELSE @]
           kept == [i \in DOMAIN now |-> row(i)]
<1>0. /\ Len(now) \in Nat /\ Len(before) \in Nat /\ Len(plan.table) \in Nat
      /\ DOMAIN now = 1 .. Len(now) /\ DOMAIN before = 1 .. Len(before)
      /\ DOMAIN plan.table = 1 .. Len(plan.table) /\ plan.table \in Seq(KeyRow)
  BY MigrationFields, TableRows
<1>10. Len(before) <= Len(plan.table)
  BY <1>0, SMTT(30) DEF TableKept
<1>1. ASSUME NEW i \in DOMAIN now
      PROVE  /\ row(i) \in KeyRow
             /\ i \notin DOMAIN before => row(i) = now[i]
             /\ (i \in DOMAIN before /\ before[i].hex # Blank) => row(i).hex = now[i].hex
  <2>1. now[i] \in KeyRow
    BY TableRows
  <2>2. CASE i > Len(before)
    <3>1. i \notin DOMAIN before /\ row(i) = now[i]
      BY <1>0, <2>2
    <3> QED BY <2>1, <3>1
  <2>3. CASE ~ (i > Len(before))
    <3>1. i \in DOMAIN before /\ i \in DOMAIN plan.table
      BY <1>0, <1>10, <2>3
    <3>2. plan.table[i] \in KeyRow
      BY <1>0, <3>1, TableRows
    <3> DEFINE hex == Overwritten(now[i].hex, before[i].hex, plan.table[i].hex)
               home == IF i \in plan.touched THEN plan.table[i].home ELSE now[i].home
    <3>3. row(i) = [now[i] EXCEPT !.hex = hex, !.home = home]
      BY <2>3
    <3>4. hex \in Hexes \cup {Blank} /\ home \in Homes \cup {Unassigned}
      BY <2>1, <3>2 DEF Overwritten, KeyRow
    <3>5. before[i].hex # Blank => hex = now[i].hex
      BY <3>1 DEF TableKept, Overwritten
    <3> HIDE DEF row, hex, home
    <3> QED BY <2>1, <3>1, <3>3, <3>4, <3>5 DEF KeyRow
  <2> QED BY <2>2, <2>3
<1>2. kept \in [1 .. Len(now) -> KeyRow] /\ DOMAIN kept = DOMAIN now
  BY <1>0, <1>1
<1>3. Migrated(now, before, plan) = WithTail(kept, plan.table, Len(before))
  BY DEF Migrated, WithTail
<1>5. \A i \in DOMAIN now :
        /\ i \notin DOMAIN before => kept[i] = now[i]
        /\ (i \in DOMAIN before /\ before[i].hex # Blank) => kept[i].hex = now[i].hex
  BY <1>1
<1> HIDE DEF kept
<1>4. kept \in Seq(KeyRow) /\ Len(kept) = Len(now)
  BY <1>0, <1>2, RowsAreTable
<1> DEFINE all == WithTail(kept, plan.table, Len(before))
<1>6. /\ all \in Seq(KeyRow) /\ DOMAIN kept \subseteq DOMAIN all
      /\ Len(all) = Len(kept) + (Len(plan.table) - Len(before))
      /\ \A i \in DOMAIN kept : all[i] = kept[i]
  BY <1>0, <1>4, <1>10, TailAdded
<1> HIDE DEF all
<1>7. Len(now) <= Len(all)
  BY <1>0, <1>4, <1>6, <1>10
<1>8. all = Migrated(now, before, plan)
  BY <1>3 DEF all
<1> QED BY <1>2, <1>5, <1>6, <1>7, <1>8

\* Made on the table it was made from, a plan is what comes out.
LEMMA MigratedIsPlan ==
  ASSUME NEW before \in Seq(KeyRow), NEW plan \in MigrationPlans, TableKept(before, plan)
  PROVE  Migrated(before, before, plan) = plan.table
<1> DEFINE row(i) == IF i > Len(before) THEN before[i]
                     ELSE [before[i] EXCEPT
                             !.hex = Overwritten(@, before[i].hex, plan.table[i].hex),
                             !.home = IF i \in plan.touched THEN plan.table[i].home ELSE @]
           kept == [i \in DOMAIN before |-> row(i)]
<1>0. /\ Len(before) \in Nat /\ Len(plan.table) \in Nat
      /\ DOMAIN before = 1 .. Len(before)
      /\ DOMAIN plan.table = 1 .. Len(plan.table) /\ plan.table \in Seq(KeyRow)
  BY MigrationFields, TableRows
<1>10. Len(before) <= Len(plan.table)
  BY <1>0 DEF TableKept
<1>1. ASSUME NEW i \in DOMAIN before
      PROVE  row(i) = plan.table[i] /\ plan.table[i] \in KeyRow
  <2>1. before[i] \in KeyRow /\ plan.table[i] \in KeyRow /\ ~ (i > Len(before))
    <3>1. i \in DOMAIN plan.table
      BY DEF TableKept
    <3> QED BY <1>0, <3>1, TableRows
  <2> DEFINE hex == Overwritten(before[i].hex, before[i].hex, plan.table[i].hex)
             home == IF i \in plan.touched THEN plan.table[i].home ELSE before[i].home
  <2>2. row(i) = [before[i] EXCEPT !.hex = hex, !.home = home]
    BY <2>1
  <2>3. hex = plan.table[i].hex
    BY DEF Overwritten
  <2>4. home = plan.table[i].home
    BY DEF TableKept
  <2>5. plan.table[i].type = before[i].type /\ plan.table[i].number = before[i].number
    BY DEF TableKept
  <2> HIDE DEF row, hex, home
  <2>6. row(i) = plan.table[i]
    BY ZenonT(60), <2>1, <2>2, <2>3, <2>4, <2>5 DEF KeyRow
  <2> QED BY <2>1, <2>6
<1>2. kept \in [1 .. Len(before) -> KeyRow]
  BY <1>0, <1>1
<1>3. Migrated(before, before, plan) = WithTail(kept, plan.table, Len(before))
  BY DEF Migrated, WithTail
<1>5. \A i \in DOMAIN before : kept[i] = plan.table[i]
  BY <1>1
<1> HIDE DEF kept
<1>4. kept \in Seq(KeyRow) /\ Len(kept) = Len(before) /\ DOMAIN kept = DOMAIN before
  BY <1>0, <1>2, RowsAreTable
<1> DEFINE all == WithTail(kept, plan.table, Len(before))
<1>6. /\ all \in Seq(KeyRow) /\ Len(all) = Len(kept) + (Len(plan.table) - Len(before))
      /\ \A i \in DOMAIN kept : all[i] = kept[i]
      /\ \A i \in Len(before) + 1 .. Len(plan.table) : all[i] = plan.table[i]
  <2>1. /\ all \in Seq(KeyRow) /\ Len(all) = Len(kept) + (Len(plan.table) - Len(before))
        /\ \A i \in DOMAIN kept : all[i] = kept[i]
    BY <1>0, <1>4, <1>10, TailAdded
  <2>2. \A i \in Len(before) + 1 .. Len(plan.table) : all[i] = plan.table[i]
    BY <1>0, <1>4, <1>10, TailAdded
  <2> QED BY <2>1, <2>2
<1> HIDE DEF all
<1>7. Len(all) = Len(plan.table) /\ \A i \in 1 .. Len(all) : all[i] = plan.table[i]
  <2>1. Len(all) = Len(plan.table)
    BY <1>0, <1>4, <1>6
  <2>2. \A i \in 1 .. Len(all) :
          i \in DOMAIN before \/ i \in Len(before) + 1 .. Len(plan.table)
    BY <1>0, <2>1
  <2> QED BY <1>4, <1>5, <1>6, <2>1, <2>2
<1>8. all = plan.table
  BY <1>0, <1>6, <1>7, SeqEqual
<1> QED BY <1>3, <1>8 DEF all

-----------------------------------------------------------------------------
(* The plan of an import.                                                  *)

\* The plan of an import tells of all rows of its file.
LEMMA ImportPlanTold ==
  ASSUME NEW before \in Seq(KeyRow), Fits(before), NEW known, NEW file \in Seq(RegisterRow)
  PROVE  LET plan == ImportPlan(before, known, file)
         IN plan \in ImportPlans /\ ImportTold(before, known, file, Len(file), plan)
<1> DEFINE N == Len(file)
<1>0. N \in Nat /\ NothingRead(before) \in ImportPlans
  BY LenProperties, NothingReadTyped
<1>1. PICK plans \in [0 .. N -> ImportPlans] : ImportSteps(before, known, file, plans)
  <2>1. \A plan \in ImportPlans, row \in RegisterRow :
          ImportRow(known, plan, row) \in ImportPlans
    BY ImportRowTyped
  <2> QED BY <1>0, <2>1, ImportFold
<1> DEFINE Good == {n \in Nat : n <= N => ImportTold(before, known, file, n, plans[n])}
<1>2. 0 \in Good
  <2>1. plans[0] = NothingRead(before)
    BY <1>1 DEF ImportSteps
  <2>2. {i \in DOMAIN before : before[i] # before[i]} = {}
    OBVIOUS
  <2>3. Cardinality({i \in DOMAIN before : before[i] # before[i]}) = 0
    BY <2>2, FS_EmptySet
  <2>4. Len(before) \in Nat
    BY TableRows
  <2>5. ImportTold(before, known, file, 0, plans[0])
    BY <2>1, <2>3, <2>4 DEF ImportTold, NothingRead, OnlyFilled
  <2> QED BY <2>5
<1>3. ASSUME NEW n \in Nat, n \in Good PROVE n + 1 \in Good
  <2> SUFFICES ASSUME n + 1 <= N
               PROVE  ImportTold(before, known, file, n + 1, plans[n + 1])
    OBVIOUS
  <2>1. n + 1 \in 1 .. N /\ n \in 0 .. N /\ (n + 1) - 1 = n /\ n <= N
    BY <1>0
  <2>2. plans[n + 1] = ImportRow(known, plans[n], file[n + 1])
    BY <1>1, <2>1 DEF ImportSteps
  <2>3. plans[n] \in ImportPlans /\ ImportTold(before, known, file, n, plans[n])
    BY <1>1, <1>3, <2>1
  <2>4. ImportTold(before, known, file, (n + 1) - 1, plans[n])
    BY <2>1, <2>3
  <2>5. ImportTold(before, known, file, n + 1, ImportRow(known, plans[n], file[n + 1]))
    BY <2>1, <2>3, <2>4, ImportToldKept
  <2> QED BY <2>2, <2>5
<1>4. N \in Good
  <2> HIDE DEF Good
  <2> QED BY <1>0, <1>2, <1>3, Climb
<1>5. ImportPlan(before, known, file) = plans[N] /\ N \in 0 .. N
  BY <1>0, <1>1 DEF ImportSteps
<1>6. plans[N] \in ImportPlans /\ ImportTold(before, known, file, N, plans[N])
  <2>1. N \in Nat /\ N <= N
    BY <1>0
  <2>2. plans[N] \in ImportPlans
    BY <1>1, <1>5
  <2> HIDE DEF N
  <2> QED BY <1>4, <2>1, <2>2
<1> QED BY <1>5, <1>6

-----------------------------------------------------------------------------
(* The register and the requests at work on it.                            *)

\* A request has read a table that fitted and that may have grown since ...
Reading(k) ==
  /\ snap[k] \in Seq(KeyRow) /\ Fits(snap[k]) /\ Len(snap[k]) <= Len(keys)

\* ... to scan a key it may give the HEX to, going by what it has read,
Scanning(k) ==
  /\ task[k] \in Scans
  /\ \A i \in NumberAt(snap[k], task[k].type, task[k].number) :
       snap[k][i].hex \in {Blank, task[k].hex} \/ task[k].replace

\* or to read a file into it.
Importing(k) ==
  task[k] \in [kind : {"import"}, file : RegisterFiles, known : SUBSET KeyTypes]
Migrating(k) ==
  \/ task[k] \in [kind : {"issued"}, file : IssuedFiles, known : SUBSET KeyTypes]
  \/ task[k] \in [kind : {"free"}, file : FreeFiles, known : SUBSET KeyTypes]

AtWork(k) == Reading(k) /\ (Scanning(k) \/ Importing(k) \/ Migrating(k))

RegistryTypes ==
  /\ types \in [KeyTypes -> {"absent", "enabled", "archived"}]
  /\ DOMAIN task = Clerks /\ DOMAIN snap = Clerks
  /\ kpc \in [Clerks -> {"idle", "write"}]

\* The register keeps to its indexes, whatever the requests do.
RegistryInv ==
  /\ RegistryTypes
  /\ keys \in Seq(KeyRow) /\ Fits(keys)
  /\ \A k \in Clerks : kpc[k] = "write" => AtWork(k)

\* The register a behaviour begins with keeps to its indexes.
LEMMA RegistryInvHolds == RegistryInit => RegistryInv
<1> SUFFICES ASSUME RegistryInit PROVE RegistryInv
  OBVIOUS
<1>1. keys \in Seq(KeyRow) /\ Fits(keys)
  BY FirstKeysAssumption DEF RegistryInit
<1>2. RegistryTypes /\ \A k \in Clerks : kpc[k] # "write"
  <2>1. types \in [KeyTypes -> {"absent", "enabled", "archived"}]
    BY DEF RegistryInit
  <2>2. DOMAIN task = Clerks /\ DOMAIN snap = Clerks /\ kpc = [k \in Clerks |-> "idle"]
    BY DEF RegistryInit
  <2> QED BY <2>1, <2>2 DEF RegistryTypes
<1> QED BY <1>1, <1>2 DEF RegistryInv

\* The table has grown at most, and a request that is at work still is.
Grown == /\ keys' \in Seq(KeyRow) /\ Fits(keys') /\ Len(keys) <= Len(keys')

\* A step that leaves a request alone leaves it at work.
LEMMA OthersGoOn ==
  ASSUME RegistryInv, Grown, NEW k \in Clerks, kpc[k] = "write",
         task'[k] = task[k], snap'[k] = snap[k]
  PROVE  AtWork(k)'
<1>1. AtWork(k)
  BY DEF RegistryInv
<1>2. Reading(k)'
  <2>1. Len(keys) \in Nat /\ Len(keys') \in Nat /\ Len(snap[k]) \in Nat
    BY <1>1, LenProperties DEF Grown, RegistryInv, AtWork, Reading
  <2>2. snap[k] \in Seq(KeyRow) /\ Fits(snap[k]) /\ Len(snap[k]) <= Len(keys)
    BY <1>1 DEF AtWork, Reading
  <2>3. Len(snap'[k]) <= Len(keys')
    BY <2>1, <2>2 DEF Grown
  <2> QED BY <2>2, <2>3 DEF Reading, Fits
<1>3. Scanning(k) => Scanning(k)'
  BY DEF Scanning, NumberAt
<1>4. (Importing(k) => Importing(k)') /\ (Migrating(k) => Migrating(k)')
  BY DEF Importing, Migrating
<1> QED BY <1>1, <1>2, <1>3, <1>4 DEF AtWork

\* A request that ends leaves the others as they are.
LEMMA Finished ==
  ASSUME RegistryInv, Grown, NEW k \in Clerks, Finish(k),
         types' \in [KeyTypes -> {"absent", "enabled", "archived"}]
  PROVE  RegistryInv'
<1>1. /\ DOMAIN task' = Clerks /\ DOMAIN snap' = Clerks
      /\ kpc' \in [Clerks -> {"idle", "write"}] /\ kpc'[k] = "idle"
      /\ \A c \in Clerks : c # k => /\ task'[c] = task[c] /\ snap'[c] = snap[c]
                                    /\ kpc'[c] = kpc[c]
  BY DEF Finish, RegistryInv, RegistryTypes
<1>2. ASSUME NEW c \in Clerks, kpc'[c] = "write" PROVE AtWork(c)'
  <2>1. c # k /\ kpc[c] = "write" /\ task'[c] = task[c] /\ snap'[c] = snap[c]
    BY <1>1, <1>2
  <2> QED BY <2>1, OthersGoOn
<1>3. RegistryTypes'
  BY <1>1 DEF RegistryTypes
<1> QED BY <1>2, <1>3 DEF RegistryInv, Grown

\* A change of the table at once, or of the types, leaves the requests at work.
LEMMA ChangedAtOnce ==
  ASSUME RegistryInv, Grown, UNCHANGED <<task, snap, kpc>>,
         types' \in [KeyTypes -> {"absent", "enabled", "archived"}]
  PROVE  RegistryInv'
<1>1. ASSUME NEW c \in Clerks, kpc'[c] = "write" PROVE AtWork(c)'
  BY <1>1, OthersGoOn
<1>2. RegistryTypes'
  BY DEF RegistryInv, RegistryTypes
<1> QED BY <1>1, <1>2 DEF RegistryInv, Grown

\* A step that leaves the table has grown it by nothing.
LEMMA SameTable ==
  ASSUME RegistryInv, keys' = keys PROVE Grown
<1>1. Len(keys) \in Nat
  BY LenProperties DEF RegistryInv
<1> QED BY <1>1 DEF Grown, RegistryInv, Fits

\* A request that begins has read the table as it is.
LEMMA Begins ==
  ASSUME RegistryInv, NEW k \in Clerks, NEW t, Begin(k, t),
         \/ /\ t \in Scans
            /\ \A i \in NumberAt(keys, t.type, t.number) :
                 keys[i].hex \in {Blank, t.hex} \/ t.replace
         \/ t \in [kind : {"import"}, file : RegisterFiles, known : SUBSET KeyTypes]
         \/ t \in [kind : {"issued"}, file : IssuedFiles, known : SUBSET KeyTypes]
         \/ t \in [kind : {"free"}, file : FreeFiles, known : SUBSET KeyTypes]
  PROVE  RegistryInv'
<1>1. /\ DOMAIN task' = Clerks /\ DOMAIN snap' = Clerks
      /\ kpc' \in [Clerks -> {"idle", "write"}]
      /\ task'[k] = t /\ snap'[k] = keys /\ keys' = keys /\ types' = types
      /\ \A c \in Clerks : c # k => /\ task'[c] = task[c] /\ snap'[c] = snap[c]
                                    /\ kpc'[c] = kpc[c]
  BY DEF Begin, RegistryInv, RegistryTypes
<1>2. Grown
  BY <1>1, SameTable
<1>3. AtWork(k)'
  <2>1. Reading(k)'
    <3>1. Len(keys) \in Nat
      BY LenProperties DEF RegistryInv
    <3> QED BY <1>1, <3>1 DEF Reading, RegistryInv, Fits
  <2>2. (Scanning(k) \/ Importing(k) \/ Migrating(k))'
    BY <1>1 DEF Scanning, Importing, Migrating, NumberAt
  <2> QED BY <2>1, <2>2 DEF AtWork
<1>4. ASSUME NEW c \in Clerks, kpc'[c] = "write" PROVE AtWork(c)'
  <2>1. CASE c = k
    BY <1>3, <2>1
  <2>2. CASE c # k
    <3>1. kpc[c] = "write" /\ task'[c] = task[c] /\ snap'[c] = snap[c]
      BY <1>1, <1>4, <2>2
    <3> QED BY <1>2, <3>1, OthersGoOn
  <2> QED BY <2>1, <2>2
<1>5. RegistryTypes'
  BY <1>1 DEF RegistryTypes, RegistryInv
<1> QED BY <1>2, <1>4, <1>5 DEF RegistryInv, Grown

\* What a commit puts into the table is there when it fits, else what was.
LEMMA StoredGrown ==
  ASSUME RegistryInv, NEW t \in Seq(KeyRow), Len(keys) <= Len(t), keys' = Stored(t)
  PROVE  Grown
<1>1. Len(keys) \in Nat
  BY LenProperties DEF RegistryInv
<1> QED BY <1>1 DEF Stored, Grown, RegistryInv

\* What a scan is about.
LEMMA ScanTyped ==
  ASSUME NEW t \in Scans
  PROVE  t.type \in KeyTypes /\ t.number \in Numbers /\ t.hex \in Hexes
         /\ t.replace \in BOOLEAN /\ t.kind = "scan"
BY DEF Scans

\* A scan writes the row it has read, or adds one.
LEMMA ScannedRows ==
  ASSUME NEW table \in Seq(KeyRow), NEW old \in Seq(KeyRow), Len(old) <= Len(table),
         Fits(old), NEW t \in Scans
  PROVE  /\ Scanned(table, old, t) \in Seq(KeyRow)
         /\ Len(table) <= Len(Scanned(table, old, t))
         /\ \A i \in DOMAIN table :
              Scanned(table, old, t)[i].hex # table[i].hex
                => /\ i \in NumberAt(old, t.type, t.number)
                   /\ Scanned(table, old, t)[i].hex = t.hex
<1> DEFINE at == NumberAt(old, t.type, t.number)
           new == NewRow(t.type, t.number, t.hex)
<1>0. /\ Len(table) \in Nat /\ DOMAIN table = 1 .. Len(table)
      /\ Len(old) \in Nat /\ DOMAIN old = 1 .. Len(old)
  BY TableRows
<1>1. new \in KeyRow
  BY ScanTyped, NewRowTyped
<1> HIDE DEF new
<1>2. CASE at = {}
  <2>1. Scanned(table, old, t) = Append(table, new)
    BY <1>2 DEF Scanned, new
  <2>2. /\ Append(table, new) \in Seq(KeyRow) /\ Len(Append(table, new)) = Len(table) + 1
        /\ \A i \in DOMAIN table : Append(table, new)[i] = table[i]
    BY <1>1, RowAdded
  <2> QED BY <1>0, <2>1, <2>2
<1>3. CASE at # {}
  <2>1. PICK id \in at : TRUE
    BY <1>3
  <2>2. (CHOOSE i \in at : TRUE) = id
    BY <2>1, OneRowOfANumber
  <2>3. id \in DOMAIN table
    BY <1>0, <2>1 DEF NumberAt
  <2>4. Scanned(table, old, t) = SetHex(table, id, t.hex)
    BY <1>3, <2>2 DEF Scanned
  <2>5. /\ SetHex(table, id, t.hex) \in Seq(KeyRow)
        /\ Len(SetHex(table, id, t.hex)) = Len(table)
        /\ \A i \in DOMAIN table : i # id => SetHex(table, id, t.hex)[i] = table[i]
    <3> DEFINE hex == t.hex
    <3>1. hex \in Hexes \cup {Blank}
      BY ScanTyped
    <3> HIDE DEF hex, at
    <3>2. SetHex(table, id, hex) \in Seq(KeyRow)
      BY <2>3, <3>1, HexSet
    <3>3. Len(SetHex(table, id, hex)) = Len(table)
      BY <2>3, <3>1, HexSet
    <3>4. ASSUME NEW i \in DOMAIN table, i # id
          PROVE  SetHex(table, id, hex)[i] = table[i]
      BY <3>4 DEF SetHex
    <3> QED BY <3>2, <3>3, <3>4 DEF hex
  <2>6. SetHex(table, id, t.hex)[id].hex = t.hex
    <3>1. table[id] \in KeyRow
      BY <2>3, TableRows
    <3>2. SetHex(table, id, t.hex)[id] = [table[id] EXCEPT !.hex = t.hex]
      BY <2>3 DEF SetHex
    <3> QED BY <3>1, <3>2 DEF KeyRow
  <2> QED BY <1>0, <2>1, <2>4, <2>5, <2>6
<1> QED BY <1>2, <1>3

\* Scanning keeps the invariant ...
LEMMA ScanKept ==
  ASSUME RegistryInv, NEW k \in Clerks
  PROVE  /\ \A t \in Scans : ScanRead(k, t) => RegistryInv'
         /\ ScanWrite(k) => RegistryInv'
         /\ LoseTask(k) => RegistryInv'
<1>1. ASSUME NEW t \in Scans, ScanRead(k, t) PROVE RegistryInv'
  <2>1. \A i \in NumberAt(keys, t.type, t.number) :
          keys[i].hex \in {Blank, t.hex} \/ t.replace
    BY <1>1 DEF ScanRead, ScanAdmits
  <2> QED BY <1>1, <2>1, Begins DEF ScanRead
<1>2. ASSUME ScanWrite(k) PROVE RegistryInv'
  <2>1. AtWork(k)
    BY <1>2 DEF ScanWrite, RegistryInv
  <2>2. task[k] \in Scans /\ Reading(k)
    <3>1. ~Importing(k) /\ ~Migrating(k)
      BY <1>2 DEF ScanWrite, Importing, Migrating
    <3> QED BY <2>1, <3>1 DEF AtWork, Scanning
  <2>3. /\ Scanned(keys, snap[k], task[k]) \in Seq(KeyRow)
        /\ Len(keys) <= Len(Scanned(keys, snap[k], task[k]))
    BY <2>2, ScannedRows DEF Reading, RegistryInv
  <2>4. Grown
    BY <1>2, <2>3, StoredGrown DEF ScanWrite
  <2> QED BY <1>2, <2>4, Finished DEF ScanWrite, RegistryInv, RegistryTypes
<1>3. ASSUME LoseTask(k) PROVE RegistryInv'
  <2>1. Grown
    BY <1>3, SameTable DEF LoseTask
  <2> QED BY <1>3, <2>1, Finished DEF LoseTask, RegistryInv, RegistryTypes
<1> QED BY <1>1, <1>2, <1>3

\* ... and so does a change of the types ...
LEMMA TypesKept ==
  ASSUME RegistryInv, NEW t \in KeyTypes, CreateType(t) \/ SwitchType(t)
  PROVE  RegistryInv'
<1>1. types' \in [KeyTypes -> {"absent", "enabled", "archived"}]
  BY DEF RegistryInv, RegistryTypes, CreateType, SwitchType
<1>2. keys' = keys /\ UNCHANGED <<task, snap, kpc>>
  BY DEF CreateType, SwitchType
<1> QED BY <1>1, <1>2, SameTable, ChangedAtOnce

\* A row gets a type, a number and a HEX.
Edited(table, id, type, number, hex) ==
  [table EXCEPT ![id].type = type, ![id].number = number, ![id].hex = hex]

\* An edited row is a row, and the table is as long as it was.
LEMMA RowEdited ==
  ASSUME NEW table \in Seq(KeyRow), NEW id \in DOMAIN table, NEW type \in KeyTypes,
         NEW number \in Numbers, NEW hex \in Hexes
  PROVE  /\ Edited(table, id, type, number, hex) \in Seq(KeyRow)
         /\ Len(Edited(table, id, type, number, hex)) = Len(table)
<1> DEFINE row == [table[id] EXCEPT !.type = type, !.number = number, !.hex = hex]
           edited == Edited(table, id, type, number, hex)
<1>1. row \in KeyRow
  <2>1. table[id] \in KeyRow
    BY TableRows
  <2> QED BY <2>1 DEF KeyRow
<1>2. edited = [table EXCEPT ![id] = row]
  BY DEF Edited
<1> HIDE DEF row
<1>3. /\ [table EXCEPT ![id] = row] \in Seq(KeyRow)
      /\ Len([table EXCEPT ![id] = row]) = Len(table)
  BY <1>1, TableRows, ExceptSeq
<1> QED BY <1>2, <1>3

\* ... a change of one key ...
LEMMA RowsKept ==
  ASSUME RegistryInv, NEW id \in DOMAIN keys, NEW hex \in Hexes
  PROVE  /\ \A replace \in BOOLEAN : SaveHex(id, hex, replace) => RegistryInv'
         /\ \A t \in KeyTypes, n \in Numbers : EditKey(id, t, n, hex) => RegistryInv'
<1>0. /\ keys \in Seq(KeyRow) /\ Fits(keys) /\ Len(keys) \in Nat
      /\ types \in [KeyTypes -> {"absent", "enabled", "archived"}]
  BY LenProperties DEF RegistryInv, RegistryTypes
<1>1. ASSUME NEW replace \in BOOLEAN, SaveHex(id, hex, replace) PROVE RegistryInv'
  <2>1. keys' = SetHex(keys, id, hex) /\ HexAt(keys, hex) \subseteq {id}
        /\ types' = types /\ UNCHANGED <<task, snap, kpc>>
    BY <1>1 DEF SaveHex
  <2>2. SetHex(keys, id, hex) \in Seq(KeyRow) /\ Len(SetHex(keys, id, hex)) = Len(keys)
    BY <1>0, HexSet
  <2>3. Fits(SetHex(keys, id, hex))
    BY <1>0, <2>1, HexSetFits
  <2>4. Grown
    BY <1>0, <2>1, <2>2, <2>3 DEF Grown, Fits
  <2> QED BY <1>0, <2>1, <2>4, ChangedAtOnce
<1>2. ASSUME NEW t \in KeyTypes, NEW n \in Numbers, EditKey(id, t, n, hex)
      PROVE  RegistryInv'
  <2> DEFINE edited == Edited(keys, id, t, n, hex)
  <2>1. keys' = edited /\ Fits(edited) /\ types' = types /\ UNCHANGED <<task, snap, kpc>>
    BY <1>2 DEF EditKey, Edited
  <2>2. edited \in Seq(KeyRow) /\ Len(edited) = Len(keys)
    BY <1>0, RowEdited
  <2> HIDE DEF edited
  <2>3. Grown
    BY <1>0, <2>1, <2>2 DEF Grown, Fits
  <2> QED BY <1>0, <2>1, <2>3, ChangedAtOnce
<1> QED BY <1>1, <1>2

\* ... the reading of a file ...
LEMMA FilesOpened ==
  ASSUME RegistryInv, NEW k \in Clerks
  PROVE  /\ \A file \in RegisterFiles : StartImport(k, file) => RegistryInv'
         /\ \A file \in IssuedFiles : StartMigration(k, "issued", file) => RegistryInv'
         /\ \A file \in FreeFiles : StartMigration(k, "free", file) => RegistryInv'
<1>0. ExistingTypes \in SUBSET KeyTypes
  BY DEF ExistingTypes
<1>1. ASSUME NEW file \in RegisterFiles, StartImport(k, file) PROVE RegistryInv'
  <2>1. [kind |-> "import", file |-> file, known |-> ExistingTypes]
          \in [kind : {"import"}, file : RegisterFiles, known : SUBSET KeyTypes]
    BY <1>0
  <2> QED BY <1>1, <2>1, Begins DEF StartImport
<1>2. ASSUME NEW file \in IssuedFiles, StartMigration(k, "issued", file)
      PROVE  RegistryInv'
  <2>1. [kind |-> "issued", file |-> file, known |-> ExistingTypes]
          \in [kind : {"issued"}, file : IssuedFiles, known : SUBSET KeyTypes]
    BY <1>0
  <2> QED BY <1>2, <2>1, Begins DEF StartMigration
<1>3. ASSUME NEW file \in FreeFiles, StartMigration(k, "free", file) PROVE RegistryInv'
  <2>1. [kind |-> "free", file |-> file, known |-> ExistingTypes]
          \in [kind : {"free"}, file : FreeFiles, known : SUBSET KeyTypes]
    BY <1>0
  <2> QED BY <1>3, <2>1, Begins DEF StartMigration
<1> QED BY <1>1, <1>2, <1>3

\* What a request that reads a file goes by when it commits.
LEMMA ImportAtWork ==
  ASSUME RegistryInv, NEW k \in Clerks, ImportCommit(k)
  PROVE  /\ snap[k] \in Seq(KeyRow) /\ Fits(snap[k]) /\ Len(snap[k]) <= Len(keys)
         /\ task[k].file \in Seq(RegisterRow)
         /\ PlanOf(k) \in ImportPlans
         /\ ImportTold(snap[k], task[k].known, task[k].file, Len(task[k].file), PlanOf(k))
         /\ Len(snap[k]) <= Len(PlanOf(k).table)
<1>1. AtWork(k) /\ task[k].kind = "import"
  BY DEF ImportCommit, RegistryInv
<1>2. ~Scanning(k) /\ ~Migrating(k)
  BY <1>1 DEF Scanning, Scans, Migrating
<1>3. Importing(k) /\ Reading(k)
  BY <1>1, <1>2 DEF AtWork
<1>4. task[k].file \in Seq(RegisterRow)
  BY <1>3, FilesAssumption DEF Importing
<1>5. snap[k] \in Seq(KeyRow) /\ Fits(snap[k]) /\ Len(snap[k]) <= Len(keys)
  BY <1>3 DEF Reading
<1>6. /\ PlanOf(k) \in ImportPlans
      /\ ImportTold(snap[k], task[k].known, task[k].file, Len(task[k].file), PlanOf(k))
  BY <1>4, <1>5, ImportPlanTold DEF PlanOf
<1>7. Len(snap[k]) <= Len(PlanOf(k).table)
  <2>1. Len(snap[k]) \in Nat /\ PlanOf(k).added \in Nat
    BY <1>5, <1>6, LenProperties DEF ImportPlans
  <2> QED BY <1>6, <2>1 DEF ImportTold
<1> QED BY <1>4, <1>5, <1>6, <1>7

\* An import writes its whole plan or nothing, and over no HEX.
LEMMA ImportCommitRows ==
  ASSUME RegistryInv, NEW k \in Clerks, ImportCommit(k)
  PROVE  LET all == Merged(keys, snap[k], PlanOf(k).table)
         IN /\ all \in Seq(KeyRow) /\ Len(keys) <= Len(all)
            /\ \A i \in DOMAIN keys : keys[i].hex # Blank => all[i] = keys[i]
            /\ keys' \in {keys, all} /\ Grown
<1> DEFINE plan == PlanOf(k).table
           all == Merged(keys, snap[k], plan)
<1>1. /\ plan \in Seq(KeyRow) /\ snap[k] \in Seq(KeyRow) /\ keys \in Seq(KeyRow)
      /\ Len(snap[k]) <= Len(keys) /\ Len(snap[k]) <= Len(plan)
  BY ImportAtWork DEF ImportPlans, RegistryInv
<1> HIDE DEF plan
<1>2. /\ all \in Seq(KeyRow) /\ Len(all) = Len(keys) + (Len(plan) - Len(snap[k]))
      /\ \A i \in DOMAIN keys : keys[i].hex # Blank => all[i] = keys[i]
  BY <1>1, MergedRows
<1>3. Len(keys) \in Nat /\ Len(plan) \in Nat /\ Len(snap[k]) \in Nat
  BY <1>1, LenProperties
<1>4. Len(keys) <= Len(all)
  BY <1>1, <1>2, <1>3
<1>5. keys' = keys \/ keys' = Stored(all)
  BY DEF ImportCommit, plan
<1> HIDE DEF all
<1>6. Grown
  BY <1>2, <1>4, <1>5, SameTable, StoredGrown
<1>7. keys' \in {keys, all}
  BY <1>5 DEF Stored
<1> QED BY <1>2, <1>4, <1>6, <1>7 DEF all, plan

\* The plan a migration writes is one of the table it has read.
LEMMA MigrationAtWork ==
  ASSUME RegistryInv, NEW k \in Clerks, MigrationCommit(k)
  PROVE  /\ snap[k] \in Seq(KeyRow) /\ Fits(snap[k]) /\ Len(snap[k]) <= Len(keys)
         /\ task[k].file \in Seq(FileRow)
         /\ MigrationPlan(k) \in MigrationPlans
         /\ TableKept(snap[k], MigrationPlan(k))
         /\ task[k].kind \in {"issued", "free"}
<1>1. AtWork(k) /\ task[k].kind \in {"issued", "free"}
  BY DEF MigrationCommit, RegistryInv
<1>2. ~Scanning(k) /\ ~Importing(k)
  BY <1>1 DEF Scanning, Scans, Importing
<1>3. Migrating(k) /\ Reading(k)
  BY <1>1, <1>2 DEF AtWork
<1>4. task[k].file \in Seq(FileRow)
  BY <1>3, FilesAssumption DEF Migrating
<1>5. snap[k] \in Seq(KeyRow) /\ Fits(snap[k]) /\ Len(snap[k]) <= Len(keys)
  BY <1>3 DEF Reading
<1>6. CASE task[k].kind = "issued"
  <2>1. MigrationPlan(k) = IssuedPlan(snap[k], task[k].known, task[k].file, FALSE)
    BY <1>6 DEF MigrationPlan
  <2>2. /\ MigrationPlan(k) \in MigrationPlans
        /\ IssuedTold(snap[k], task[k].known, IssuedRows(task[k].file), task[k].file,
                      Len(task[k].file), MigrationPlan(k))
    BY <1>4, <1>5, <2>1, IssuedPlanTold
  <2> QED BY <1>1, <1>4, <1>5, <2>2 DEF IssuedTold
<1>7. CASE task[k].kind = "free"
  <2>1. MigrationPlan(k) = FreePlan(snap[k], task[k].known, task[k].file)
    BY <1>7 DEF MigrationPlan
  <2>2. /\ MigrationPlan(k) \in MigrationPlans
        /\ FreeTold(snap[k], task[k].known, FreeRows(task[k].file), task[k].file,
                    Len(task[k].file), MigrationPlan(k))
    BY <1>4, <1>5, <2>1, FreePlanTold
  <2> QED BY <1>1, <1>4, <1>5, <2>2 DEF FreeTold
<1> QED BY <1>1, <1>6, <1>7

\* A migration leaves the rows it has not read, and every HEX it has read.
LEMMA MigrationCommitRows ==
  ASSUME RegistryInv, NEW k \in Clerks, MigrationCommit(k)
  PROVE  /\ \A i \in DOMAIN keys :
              /\ i \notin DOMAIN snap[k] => keys'[i] = keys[i]
              /\ (i \in DOMAIN snap[k] /\ snap[k][i].hex # Blank)
                   => keys'[i].hex = keys[i].hex
         /\ Grown
<1> DEFINE plan == MigrationPlan(k)
           all == Migrated(keys, snap[k], plan)
<1>1. /\ plan \in MigrationPlans /\ snap[k] \in Seq(KeyRow) /\ keys \in Seq(KeyRow)
      /\ Len(snap[k]) <= Len(keys) /\ TableKept(snap[k], plan)
  BY MigrationAtWork DEF RegistryInv
<1>5. keys' = Stored(all)
  BY DEF MigrationCommit
<1> HIDE DEF plan
<1>2. /\ all \in Seq(KeyRow) /\ Len(keys) <= Len(all)
      /\ \A i \in DOMAIN keys :
           /\ i \notin DOMAIN snap[k] => all[i] = keys[i]
           /\ (i \in DOMAIN snap[k] /\ snap[k][i].hex # Blank) => all[i].hex = keys[i].hex
  BY <1>1, MigratedRows
<1> HIDE DEF all
<1>6. Grown
  BY <1>2, <1>5, StoredGrown
<1>7. keys' = keys \/ keys' = all
  BY <1>5 DEF Stored
<1> QED BY <1>2, <1>6, <1>7

\* ... and the commit of an import or a migration.
LEMMA CommitsKept ==
  ASSUME RegistryInv, NEW k \in Clerks
  PROVE  (ImportCommit(k) => RegistryInv') /\ (MigrationCommit(k) => RegistryInv')
<1>1. ASSUME ImportCommit(k) PROVE RegistryInv'
  <2>1. Grown
    BY <1>1, ImportCommitRows
  <2>2. types' \in [KeyTypes -> {"absent", "enabled", "archived"}]
    BY <1>1 DEF ImportCommit, RegistryInv, RegistryTypes
  <2> QED BY <1>1, <2>1, <2>2, Finished DEF ImportCommit
<1>2. ASSUME MigrationCommit(k) PROVE RegistryInv'
  <2>1. Grown
    BY <1>2, MigrationCommitRows
  <2> QED BY <1>2, <2>1, Finished DEF MigrationCommit, RegistryInv, RegistryTypes
<1> QED BY <1>1, <1>2

\* Every step of the register keeps the invariant.
LEMMA RegistryStep ==
  ASSUME RegistryInv, [ImportNext]_registryVars
  PROVE  RegistryInv'
<1>1. CASE UNCHANGED registryVars
  BY <1>1, SameTable, ChangedAtOnce DEF registryVars, RegistryInv, RegistryTypes
<1>2. CASE RegistryNext
  BY <1>2, ScanKept, TypesKept, RowsKept DEF RegistryNext
<1>3. CASE \E k \in Clerks :
             \/ \E file \in RegisterFiles : StartImport(k, file)
             \/ \E file \in IssuedFiles : StartMigration(k, "issued", file)
             \/ \E file \in FreeFiles : StartMigration(k, "free", file)
             \/ ImportCommit(k) \/ MigrationCommit(k)
  BY <1>3, FilesOpened, CommitsKept
<1> QED BY <1>1, <1>2, <1>3 DEF ImportNext

\* The register keeps to its indexes, and every request goes on from a table
\* that did: the rows are typed, and no number of a type and no HEX is in it
\* twice, whatever clerks, imports and migrations write (key_repository.py,
\* importer.py, legacy_issued_keys.py).
THEOREM RegistrySafe == ImportSpec => []RegistryInv
<1>1. RegistryInv /\ [ImportNext]_registryVars => RegistryInv'
  BY RegistryStep
<1> QED BY <1>1, RegistryInvHolds, PTL DEF ImportSpec

\* The commit of an import leaves a key that has its HEX as it is.
LEMMA ImportReplacesNone ==
  ASSUME RegistryInv, NEW k \in Clerks, ImportCommit(k), NEW i \in DOMAIN keys,
         keys[i].hex # Blank
  PROVE  keys'[i] = keys[i]
BY ImportCommitRows

\* An import leaves a key that has its HEX by now as it is, whatever was
\* written since it has read the register: the UPDATE of importer.py:259 asks
\* for an empty hex_value.
THEOREM ImportLeavesKeys == ImportSpec => ImportNeverReplaces
<1> DEFINE Step == \A k \in Clerks, i \in DOMAIN keys :
                     ImportCommit(k) /\ keys[i].hex # Blank => keys'[i] = keys[i]
<1>1. RegistryInv => Step
  BY ImportReplacesNone
<1> QED BY <1>1, RegistrySafe, PTL DEF ImportNeverReplaces

\* Nothing was written since the request has read the register: what comes out
\* is the plan.
LEMMA FreshImport ==
  ASSUME RegistryInv, NEW k \in Clerks, ImportCommit(k), Fresh(k)
  PROVE  /\ keys' = PlanOf(k).table
         /\ ImportTold(keys, task[k].known, task[k].file, Len(task[k].file), PlanOf(k))
<1>1. /\ PlanOf(k) \in ImportPlans /\ snap[k] = keys /\ task[k].known = ExistingTypes
      /\ keys \in Seq(KeyRow) /\ Len(keys) <= Len(PlanOf(k).table)
      /\ ImportTold(keys, task[k].known, task[k].file, Len(task[k].file), PlanOf(k))
  BY ImportAtWork DEF Fresh
<1> DEFINE plan == PlanOf(k)
<1>2. OnlyFilled(keys, plan.table) /\ Fits(plan.table) /\ plan.made \cap ExistingTypes = {}
  BY <1>1 DEF ImportTold
<1>3. plan.table \in Seq(KeyRow)
  BY <1>1 DEF ImportPlans
<1>4. keys' = (IF plan.made \cap ExistingTypes = {}
                 THEN Stored(Merged(keys, snap[k], plan.table)) ELSE keys)
  BY DEF ImportCommit
<1> HIDE DEF plan
<1>5. Merged(keys, keys, plan.table) = plan.table
  BY <1>1, <1>2, <1>3, MergedIsPlan DEF plan
<1>6. keys' = plan.table
  BY <1>1, <1>2, <1>4, <1>5 DEF Stored
<1> QED BY <1>1, <1>6 DEF plan

\* The counters of a plan whose rows are all told are what they say.
LEMMA ImportCounts ==
  ASSUME NEW before \in Seq(KeyRow), NEW known, NEW file \in Seq(RegisterRow),
         NEW plan \in ImportPlans, ImportTold(before, known, file, Len(file), plan)
  PROVE  /\ plan.added = Len(plan.table) - Len(before)
         /\ plan.updated = Cardinality({i \in DOMAIN before : plan.table[i] # before[i]})
         /\ plan.added + plan.updated + plan.duplicates + plan.errors = Len(file)
         /\ plan.errors = 0 => \A r \in ToSet(file) : HexAt(plan.table, r.hex) # {}
<1>1. Len(before) \in Nat /\ plan.added \in Nat /\ Len(file) \in Nat
      /\ DOMAIN file = 1 .. Len(file)
  BY LenProperties DEF ImportPlans
<1>2. plan.added = Len(plan.table) - Len(before)
  BY <1>1 DEF ImportTold
<1>3. plan.errors = 0 => \A r \in ToSet(file) : HexAt(plan.table, r.hex) # {}
  BY <1>1 DEF ImportTold, ToSet
<1> QED BY <1>2, <1>3 DEF ImportTold

\* So is the report of an import that nobody disturbed.
LEMMA ReportedStep ==
  ASSUME RegistryInv, NEW k \in Clerks, ImportCommit(k) /\ Fresh(k)
  PROVE  LET plan == PlanOf(k)
             file == task[k].file
         IN /\ plan.added = Len(keys') - Len(keys)
            /\ plan.updated = Cardinality({i \in DOMAIN keys : keys'[i] # keys[i]})
            /\ plan.added + plan.updated + plan.duplicates + plan.errors = Len(file)
            /\ plan.errors = 0 => \A r \in ToSet(file) : HexAt(keys', r.hex) # {}
<1> DEFINE plan == PlanOf(k)
           file == task[k].file
<1>1. /\ keys' = plan.table /\ plan \in ImportPlans /\ file \in Seq(RegisterRow)
      /\ ImportTold(keys, task[k].known, file, Len(file), plan) /\ keys \in Seq(KeyRow)
  BY FreshImport, ImportAtWork DEF RegistryInv
<1> HIDE DEF plan, file
<1>2. /\ plan.added = Len(plan.table) - Len(keys)
      /\ plan.updated = Cardinality({i \in DOMAIN keys : plan.table[i] # keys[i]})
      /\ plan.added + plan.updated + plan.duplicates + plan.errors = Len(file)
      /\ plan.errors = 0 => \A r \in ToSet(file) : HexAt(plan.table, r.hex) # {}
  BY ZenonT(30), <1>1, ImportCounts
<1>3. /\ plan.added = Len(keys') - Len(keys)
      /\ plan.updated = Cardinality({i \in DOMAIN keys : keys'[i] # keys[i]})
      /\ plan.added + plan.updated + plan.duplicates + plan.errors = Len(file)
      /\ plan.errors = 0 => \A r \in ToSet(file) : HexAt(keys', r.hex) # {}
  BY <1>1, <1>2
<1> QED BY <1>3 DEF plan, file

\* For a file of any length, the report of an import nobody disturbs adds up
\* and is true of the register, and no index refuses it (importer.py).
THEOREM ImportReportIsTrue == ImportSpec => ImportReported
<1> DEFINE Step == \A k \in Clerks : ImportCommit(k) /\ Fresh(k) =>
                     LET plan == PlanOf(k)
                         file == task[k].file
                     IN /\ plan.added = Len(keys') - Len(keys)
                        /\ plan.updated
                             = Cardinality({i \in DOMAIN keys : keys'[i] # keys[i]})
                        /\ plan.added + plan.updated + plan.duplicates + plan.errors
                             = Len(file)
                        /\ plan.errors = 0 => \A r \in ToSet(file) : HexAt(keys', r.hex) # {}
<1>1. RegistryInv => Step
  BY ReportedStep
<1> QED BY <1>1, RegistrySafe, PTL DEF ImportReported

\* A migration applied to what it has just written writes nothing new.
LEMMA RepeatedStep ==
  ASSUME RegistryInv, NEW k \in Clerks, MigrationCommit(k) /\ Fresh(k)
  PROVE  LET file  == task[k].file
             again == IF task[k].kind = "issued"
                        THEN IssuedPlan(keys', task[k].known, file, FALSE)
                        ELSE FreePlan(keys', task[k].known, file)
         IN again.table = keys' /\ again.created = 0 /\ again.changed = 0
<1> DEFINE file  == task[k].file
           known == task[k].known
           plan  == MigrationPlan(k)
           table == plan.table
<1>1. /\ snap[k] = keys /\ keys \in Seq(KeyRow) /\ Fits(keys) /\ file \in Seq(FileRow)
      /\ plan \in MigrationPlans /\ TableKept(keys, plan)
  BY MigrationAtWork DEF Fresh
<1>2. keys' = table
  <2>1. keys' = Stored(Migrated(keys, snap[k], plan))
    BY DEF MigrationCommit
  <2> HIDE DEF plan
  <2>2. Migrated(keys, keys, plan) = plan.table
    BY <1>1, MigratedIsPlan
  <2> QED BY <1>1, <2>1, <2>2 DEF Stored, TableKept
<1>3. CASE task[k].kind = "issued"
  <2>1. plan = IssuedPlan(keys, known, file, FALSE)
    BY <1>1, <1>3 DEF MigrationPlan
  <2> HIDE DEF plan, file, known
  <2>2. NothingNew(table, IssuedPlan(table, known, file, FALSE))
    BY <1>1, <2>1, IssuedAgain
  <2> QED BY <1>2, <1>3, <2>2 DEF NothingNew, file, known
<1>4. CASE task[k].kind # "issued"
  <2>1. plan = FreePlan(keys, known, file)
    BY <1>1, <1>4 DEF MigrationPlan
  <2> HIDE DEF plan, file, known
  <2>2. NothingNew(table, FreePlan(table, known, file))
    BY <1>1, <2>1, FreeAgain
  <2> QED BY <1>2, <1>4, <2>2 DEF NothingNew, file, known
<1> QED BY <1>3, <1>4

\* For a file of any length, a migration that is applied to what it has left
\* creates no key and changes no assignment: "Plan or apply an idempotent
\* migration" (legacy_issued_keys.py).
THEOREM MigrationIsIdempotent == ImportSpec => MigrationRepeatable
<1> DEFINE Step == \A k \in Clerks : MigrationCommit(k) /\ Fresh(k) =>
                     LET file  == task[k].file
                         again == IF task[k].kind = "issued"
                                    THEN IssuedPlan(keys', task[k].known, file, FALSE)
                                    ELSE FreePlan(keys', task[k].known, file)
                     IN again.table = keys' /\ again.created = 0 /\ again.changed = 0
<1>1. RegistryInv => Step
  BY RepeatedStep
<1> QED BY <1>1, RegistrySafe, PTL DEF MigrationRepeatable

-----------------------------------------------------------------------------
(* The dry run of a migration.                                             *)

\* How many rows were met again, are lost or are errors; nothing else counts.
Bumped(plan, next, duplicates, lost, errors) ==
  /\ next.table = plan.table
  /\ next.duplicates = plan.duplicates + duplicates
  /\ next.lost = plan.lost + lost /\ next.errors = plan.errors + errors
  /\ next.found = plan.found /\ next.created = plan.created
  /\ next.linked = plan.linked /\ next.changed = plan.changed
  /\ next.already = plan.already

IsLinked(plan, row, dry, next) ==
  /\ next.lost = plan.lost /\ next.duplicates = plan.duplicates
  /\ next.errors = plan.errors /\ next.linked = plan.linked + 1
  /\ \/ LinkCreates(plan, row, next)
     \/ \E id \in DOMAIN plan.table : LinkFinds(plan, row, dry, next, id)

IsNew(rows, plan, row) ==
  row \in rows /\ ~Conflicts(rows, row) /\ row \notin plan.seen

\* What a row is taken for, and what it is counted as.
Verdict(known, rows, plan, row, dry, next) ==
  /\ row \notin rows \/ Conflicts(rows, row) => next = plan
  /\ row \in rows /\ ~Conflicts(rows, row) /\ row \in plan.seen
       => next.seen = plan.seen /\ Bumped(plan, next, 1, 0, 0)
  /\ IsNew(rows, plan, row) =>
       /\ next.seen = plan.seen \cup {row}
       /\ Named[row.name] \notin known => Bumped(plan, next, 0, 0, 1)
       /\ Named[row.name] \in known /\ row.to = Nowhere => Bumped(plan, next, 0, 1, 0)
       /\ Named[row.name] \in known /\ row.to # Nowhere /\ ~Agrees(plan.table, row)
            => Bumped(plan, next, 0, 0, 1)
       /\ Named[row.name] \in known /\ row.to # Nowhere /\ Agrees(plan.table, row)
            => row \in IssuableRow /\ IsLinked(plan, row, dry, next)

\* To raise a counter raises no other.
LEMMA CounterBumped ==
  ASSUME NEW plan \in MigrationPlans
  PROVE  /\ Bumped(plan, [plan EXCEPT !.duplicates = @ + 1], 1, 0, 0)
         /\ Bumped(plan, [plan EXCEPT !.lost = @ + 1], 0, 1, 0)
         /\ Bumped(plan, [plan EXCEPT !.errors = @ + 1], 0, 0, 1)
<1>0. plan.duplicates \in Nat /\ plan.lost \in Nat /\ plan.errors \in Nat
  BY MigrationFields
<1>1. Bumped(plan, [plan EXCEPT !.duplicates = @ + 1], 1, 0, 0)
  BY <1>0, SMTT(30) DEF MigrationPlans, Bumped
<1>2. Bumped(plan, [plan EXCEPT !.lost = @ + 1], 0, 1, 0)
  BY <1>0, SMTT(30) DEF MigrationPlans, Bumped
<1>3. Bumped(plan, [plan EXCEPT !.errors = @ + 1], 0, 0, 1)
  BY <1>0, SMTT(30) DEF MigrationPlans, Bumped
<1> QED BY <1>1, <1>2, <1>3

\* A row of issued keys is passed by, refused by a counter, or assigned.
LEMMA VerdictTaken ==
  ASSUME NEW known, NEW rows, IssuedRowsOnly(rows), NEW plan \in MigrationPlans,
         NEW row \in FileRow, NEW dry \in BOOLEAN
  PROVE  Verdict(known, rows, plan, row, dry, IssuedRow(known, rows, plan, row, dry))
<1> DEFINE next == IssuedRow(known, rows, plan, row, dry)
           met == SeenPut(plan, row)
<1>1. CASE row \notin rows \/ Conflicts(rows, row)
  <2>1. next = plan
    BY <1>1 DEF IssuedRow
  <2> QED BY <1>1, <2>1 DEF Verdict, IsNew
<1>2. CASE row \in rows /\ ~Conflicts(rows, row) /\ row \in plan.seen
  <2>1. next = [plan EXCEPT !.duplicates = @ + 1]
    BY <1>2 DEF IssuedRow
  <2>2. next.seen = plan.seen /\ Bumped(plan, next, 1, 0, 0)
    BY <2>1, CounterBumped, CounterFields
  <2> QED BY <1>2, <2>2 DEF Verdict, IsNew
<1>3. CASE IsNew(rows, plan, row)
  <2>0. /\ met \in MigrationPlans /\ met.seen = plan.seen \cup {row}
        /\ met.table = plan.table /\ met.touched = plan.touched
        /\ met.found = plan.found /\ met.created = plan.created
        /\ met.linked = plan.linked /\ met.changed = plan.changed
        /\ met.already = plan.already /\ met.lost = plan.lost
        /\ met.duplicates = plan.duplicates /\ met.errors = plan.errors
    BY SeenPutFields
  <2>1. next = IF Named[row.name] \notin known THEN [met EXCEPT !.errors = @ + 1]
               ELSE IF row.to = Nowhere THEN [met EXCEPT !.lost = @ + 1]
               ELSE IF ~Agrees(plan.table, row) THEN [met EXCEPT !.errors = @ + 1]
               ELSE Linked(met, row, dry)
    BY <1>3 DEF IssuedRow, SeenPut, IsNew
  <2>2. row \in rows /\ ~Conflicts(rows, row) /\ row \notin plan.seen
    BY <1>3 DEF IsNew
  <2> HIDE DEF next, met
  <2>3. next = [met EXCEPT !.errors = @ + 1]
          => next.seen = plan.seen \cup {row} /\ Bumped(plan, next, 0, 0, 1)
    <3> SUFFICES ASSUME next = [met EXCEPT !.errors = @ + 1]
                 PROVE  next.seen = plan.seen \cup {row} /\ Bumped(plan, next, 0, 0, 1)
      OBVIOUS
    <3>1. next.seen = met.seen /\ Bumped(met, next, 0, 0, 1)
      BY <2>0, CounterBumped, CounterFields
    <3> QED BY <2>0, <3>1 DEF Bumped
  <2>4. next = [met EXCEPT !.lost = @ + 1]
          => next.seen = plan.seen \cup {row} /\ Bumped(plan, next, 0, 1, 0)
    <3> SUFFICES ASSUME next = [met EXCEPT !.lost = @ + 1]
                 PROVE  next.seen = plan.seen \cup {row} /\ Bumped(plan, next, 0, 1, 0)
      OBVIOUS
    <3>1. next.seen = met.seen /\ Bumped(met, next, 0, 1, 0)
      BY <2>0, CounterBumped, CounterFields
    <3> QED BY <2>0, <3>1 DEF Bumped
  <2>5. row.to # Nowhere => row \in IssuableRow
    BY <2>2 DEF IssuedRowsOnly, FileRow, IssuableRow
  <2>6. row \in IssuableRow /\ next = Linked(met, row, dry)
          => next.seen = plan.seen \cup {row} /\ IsLinked(plan, row, dry, next)
    <3> SUFFICES ASSUME row \in IssuableRow, next = Linked(met, row, dry)
                 PROVE  /\ next.seen = plan.seen \cup {row}
                        /\ IsLinked(plan, row, dry, next)
      OBVIOUS
    <3>1. LinkOutcome(met, row, dry, next)
      BY <2>0, LinkedOutcome
    <3>2. LinkCreates(met, row, next) => LinkCreates(plan, row, next)
      BY <2>0 DEF LinkCreates
    <3>3. \A id : LinkFinds(met, row, dry, next, id) => LinkFinds(plan, row, dry, next, id)
      BY <2>0 DEF LinkFinds
    <3> QED BY <2>0, <3>1, <3>2, <3>3 DEF LinkOutcome, IsLinked
  <2>7. Verdict(known, rows, plan, row, dry, next)
    BY <1>3, <2>1, <2>2, <2>3, <2>4, <2>5, <2>6 DEF Verdict
  <2> QED BY <2>7 DEF next
<1> QED BY <1>1, <1>2, <1>3 DEF IsNew

SameCounts(w, d) ==
  /\ w.found = d.found /\ w.created = d.created /\ w.linked = d.linked
  /\ w.changed = d.changed /\ w.already = d.already /\ w.lost = d.lost
  /\ w.duplicates = d.duplicates /\ w.errors = d.errors

\* A key has a HEX in the run that the dry run has left out: a row has given it.
GivenBy(rows, w, i) ==
  \E s \in w.seen : /\ s \in rows /\ ~Conflicts(rows, s)
                    /\ s.hex = w.table[i].hex /\ Named[s.name] = w.table[i].type
                    /\ s.number = w.table[i].number

\* The tables differ only where the run has given a HEX.
RowsAlike(rows, w, d) ==
  /\ Len(w.table) = Len(d.table)
  /\ \A i \in DOMAIN w.table :
       /\ w.table[i].type = d.table[i].type /\ w.table[i].number = d.table[i].number
       /\ w.table[i].home = d.table[i].home
       /\ \/ w.table[i].hex = d.table[i].hex
          \/ d.table[i].hex = Blank /\ GivenBy(rows, w, i)

\* The plan of the run and that of the dry run after the same rows.
Foretold(rows, w, d) ==
  /\ Fits(w.table) /\ w.seen = d.seen /\ SameCounts(w, d)
  /\ RowsAlike(rows, w, d)

\* A row that is in no conflict looks the same to both.
LEMMA LooksTheSame ==
  ASSUME NEW rows, IssuedRowsOnly(rows),
         \A r, s \in rows : Named[r.name] = Named[s.name] => r.name = s.name,
         NEW w \in MigrationPlans, NEW d \in MigrationPlans, Foretold(rows, w, d),
         NEW row \in IssuableRow, IsNew(rows, w, row)
  PROVE  /\ FoundKeys(w.table, row) = FoundKeys(d.table, row)
         /\ Agrees(w.table, row) <=> Agrees(d.table, row)
         /\ \A i \in NumberAt(w.table, Named[row.name], row.number) :
              w.table[i].hex = d.table[i].hex
<1> DEFINE byNumber(t) == NumberAt(t, Named[row.name], row.number)
           byHex(t) == HexAt(t, row.hex)
<1>0. /\ DOMAIN w.table = DOMAIN d.table /\ rows \subseteq FileRow
      /\ row \in rows /\ ~Conflicts(rows, row) /\ row \notin w.seen /\ row.hex # Blank
  <2>1. DOMAIN w.table = 1 .. Len(w.table) /\ DOMAIN d.table = 1 .. Len(d.table)
    BY MigrationFields, TableRows
  <2>2. row.hex # Blank /\ rows \subseteq FileRow
    BY BlankAssumption DEF IssuableRow, IssuedRowsOnly
  <2> QED BY <2>1, <2>2 DEF Foretold, RowsAlike, IsNew
<1>1. byNumber(w.table) = byNumber(d.table)
  BY <1>0 DEF NumberAt, Foretold, RowsAlike
<1>2. ASSUME NEW i \in DOMAIN w.table, w.table[i].hex # d.table[i].hex
      PROVE  /\ i \notin byHex(w.table) /\ i \notin byHex(d.table)
             /\ i \notin byNumber(w.table)
  <2>1. PICK s \in w.seen : /\ s \in rows /\ ~Conflicts(rows, s)
                            /\ s.hex = w.table[i].hex /\ Named[s.name] = w.table[i].type
                            /\ s.number = w.table[i].number
    BY <1>2 DEF Foretold, RowsAlike, GivenBy
  <2>2. s # row /\ d.table[i].hex = Blank
    BY <1>0, <1>2, <2>1 DEF Foretold, RowsAlike
  <2>3. s.hex # row.hex
    BY <1>0, <2>1, <2>2, ApartByHex
  <2>4. i \notin byNumber(w.table)
    <3> SUFFICES ASSUME i \in byNumber(w.table) PROVE FALSE
      OBVIOUS
    <3>1. Named[s.name] = Named[row.name] /\ s.number = row.number
      BY <2>1 DEF NumberAt
    <3>2. s.name = row.name
      BY <1>0, <2>1, <3>1
    <3>3. Identity(s) = Identity(row)
      BY <3>1, <3>2 DEF Identity
    <3>4. NumberConflict(rows, row)
      BY <2>1, <2>3, <3>3 DEF NumberConflict
    <3> QED BY <1>0, <3>4 DEF Conflicts
  <2> QED BY <1>0, <2>1, <2>2, <2>3, <2>4 DEF HexAt
<1>3. byHex(w.table) = byHex(d.table)
  BY <1>0, <1>2 DEF HexAt
<1>4. \A i \in byNumber(w.table) : w.table[i].hex = d.table[i].hex
  BY <1>2 DEF NumberAt
<1>5. FoundKeys(w.table, row) = FoundKeys(d.table, row)
  BY <1>1, <1>3 DEF FoundKeys
<1>6. Agrees(w.table, row) <=> Agrees(d.table, row)
  BY <1>1, <1>3, <1>4 DEF Agrees
<1> QED BY <1>4, <1>5, <1>6

\* A key that was given its HEX keeps the row that has given it.
LEMMA GivenKept ==
  ASSUME NEW rows, NEW w, NEW next, NEW i, GivenBy(rows, w, i), w.seen \subseteq next.seen,
         next.table[i] = w.table[i]
  PROVE  GivenBy(rows, next, i)
BY DEF GivenBy

\* Both count a row alike when they leave the table to itself.
LEMMA ForetoldBumped ==
  ASSUME NEW rows, NEW w, NEW d, Foretold(rows, w, d), NEW nextW, NEW nextD,
         NEW duplicates, NEW lost, NEW errors,
         Bumped(w, nextW, duplicates, lost, errors),
         Bumped(d, nextD, duplicates, lost, errors),
         nextW.seen = nextD.seen, w.seen \subseteq nextW.seen
  PROVE  Foretold(rows, nextW, nextD)
<1>1. nextW.table = w.table /\ nextD.table = d.table /\ SameCounts(nextW, nextD)
  BY DEF Bumped, Foretold, SameCounts
<1>2. \A i \in DOMAIN w.table : GivenBy(rows, w, i) => GivenBy(rows, nextW, i)
  BY <1>1, GivenKept
<1>3. RowsAlike(rows, nextW, nextD)
  BY <1>1, <1>2 DEF Foretold, RowsAlike
<1> QED BY <1>1, <1>3 DEF Foretold

\* Both create the key of a row ...
LEMMA ForetoldCreated ==
  ASSUME NEW rows, IssuedRowsOnly(rows), NEW w \in MigrationPlans, NEW d \in MigrationPlans,
         Foretold(rows, w, d), NEW row \in IssuableRow, NEW nextW, NEW nextD,
         LinkCreates(w, row, nextW), LinkCreates(d, row, nextD),
         Fits(nextW.table), nextW.seen = nextD.seen, w.seen \subseteq nextW.seen
  PROVE  /\ nextW.found = nextD.found /\ nextW.created = nextD.created
         /\ nextW.already = nextD.already /\ nextW.changed = nextD.changed
         /\ RowsAlike(rows, nextW, nextD)
<1> DEFINE new == IssuedKey(row)
<1>0. new \in KeyRow /\ w.table \in Seq(KeyRow) /\ d.table \in Seq(KeyRow)
  BY IssuedKeyTyped, MigrationFields
<1>1. nextW.table = Append(w.table, new) /\ nextD.table = Append(d.table, new)
  BY DEF LinkCreates
<1>2. Len(w.table) = Len(d.table) /\ DOMAIN w.table = DOMAIN d.table
  <2>1. Len(w.table) = Len(d.table)
    BY DEF Foretold, RowsAlike
  <2> QED BY <1>0, <2>1, TableRows
<1> HIDE DEF new
<1>3. /\ Len(nextW.table) = Len(w.table) + 1 /\ DOMAIN nextW.table = 1 .. Len(w.table) + 1
      /\ nextW.table[Len(w.table) + 1] = new
      /\ \A i \in DOMAIN w.table : nextW.table[i] = w.table[i]
  BY <1>0, <1>1, RowAdded
<1>4. /\ Len(nextD.table) = Len(d.table) + 1
      /\ nextD.table[Len(d.table) + 1] = new
      /\ \A i \in DOMAIN d.table : nextD.table[i] = d.table[i]
  BY <1>0, <1>1, RowAdded
<1>5. ASSUME NEW i \in DOMAIN nextW.table
      PROVE  /\ nextW.table[i].type = nextD.table[i].type
             /\ nextW.table[i].number = nextD.table[i].number
             /\ nextW.table[i].home = nextD.table[i].home
             /\ \/ nextW.table[i].hex = nextD.table[i].hex
                \/ nextD.table[i].hex = Blank /\ GivenBy(rows, nextW, i)
  <2>1. i = Len(w.table) + 1 \/ i \in DOMAIN w.table
    BY <1>0, <1>3, TableRows
  <2>2. CASE i = Len(w.table) + 1
    BY <1>2, <1>3, <1>4, <2>2
  <2>3. CASE i \in DOMAIN w.table
    <3>1. nextW.table[i] = w.table[i] /\ nextD.table[i] = d.table[i]
      BY <1>2, <1>3, <1>4, <2>3
    <3>2. GivenBy(rows, w, i) => GivenBy(rows, nextW, i)
      BY <3>1, GivenKept
    <3> QED BY <2>3, <3>1, <3>2 DEF Foretold, RowsAlike
  <2> QED BY <2>1, <2>2, <2>3
<1>6. /\ nextW.found = nextD.found /\ nextW.created = nextD.created
      /\ nextW.already = nextD.already /\ nextW.changed = nextD.changed
  BY DEF LinkCreates, Foretold, SameCounts
<1>7. RowsAlike(rows, nextW, nextD)
  BY <1>2, <1>3, <1>4, <1>5 DEF RowsAlike
<1> QED BY <1>6, <1>7

\* ... or find it, and the run may give it the HEX of the row.
LEMMA ForetoldFound ==
  ASSUME NEW rows, IssuedRowsOnly(rows), NEW w \in MigrationPlans, NEW d \in MigrationPlans,
         Foretold(rows, w, d), NEW row \in IssuableRow, NEW nextW, NEW nextD,
         NEW id \in DOMAIN w.table, LinkFinds(w, row, FALSE, nextW, id),
         LinkFinds(d, row, TRUE, nextD, id), Agrees(w.table, row),
         w.table[id].hex = d.table[id].hex, row \in rows, ~Conflicts(rows, row),
         nextW.seen = nextD.seen, nextW.seen = w.seen \cup {row}
  PROVE  /\ nextW.found = nextD.found /\ nextW.created = nextD.created
         /\ nextW.already = nextD.already /\ nextW.changed = nextD.changed
         /\ RowsAlike(rows, nextW, nextD)
<1>0. /\ w.table \in Seq(KeyRow) /\ d.table \in Seq(KeyRow) /\ Fits(w.table)
      /\ row.hex \in Hexes /\ row.to \in Homes
  BY MigrationFields DEF Foretold, IssuableRow
<1>1. Len(w.table) = Len(d.table) /\ DOMAIN w.table = DOMAIN d.table
  <2>1. Len(w.table) = Len(d.table)
    BY DEF Foretold, RowsAlike
  <2> QED BY <1>0, <2>1, TableRows
<1>2. /\ nextW.table = Written(w.table, id, row.hex, row.to)
      /\ nextD.table = Written(d.table, id, d.table[id].hex, row.to)
  BY DEF LinkFinds
<1>3. /\ w.table[id].hex \in {Blank, row.hex} /\ w.table[id].type = Named[row.name]
      /\ w.table[id].number = row.number
  <2>1. id \in FoundKeys(w.table, row)
    BY DEF LinkFinds
  <2> QED BY <1>0, <2>1, FoundAgrees
<1>4. /\ Len(nextW.table) = Len(w.table) /\ DOMAIN nextW.table = DOMAIN w.table
      /\ nextW.table[id].type = w.table[id].type
      /\ nextW.table[id].number = w.table[id].number
      /\ nextW.table[id].hex = row.hex /\ nextW.table[id].home = row.to
      /\ \A i \in DOMAIN w.table : i # id => nextW.table[i] = w.table[i]
  BY <1>0, <1>2, RowWritten
<1>5. /\ Len(nextD.table) = Len(d.table)
      /\ nextD.table[id].type = d.table[id].type
      /\ nextD.table[id].number = d.table[id].number
      /\ nextD.table[id].hex = d.table[id].hex /\ nextD.table[id].home = row.to
      /\ \A i \in DOMAIN d.table : i # id => nextD.table[i] = d.table[i]
  <2>1. id \in DOMAIN d.table
    BY <1>1
  <2>2. d.table[id] \in KeyRow
    BY <1>0, <2>1, TableRows
  <2>3. d.table[id].hex \in Hexes \cup {Blank}
    BY <2>2 DEF KeyRow
  <2> DEFINE hex == d.table[id].hex
  <2>4. hex \in Hexes \cup {Blank} /\ row.to \in Homes \cup {Unassigned}
    BY <1>0, <2>3
  <2> HIDE DEF hex
  <2>5. /\ Len(Written(d.table, id, hex, row.to)) = Len(d.table)
        /\ Written(d.table, id, hex, row.to)[id].type = d.table[id].type
        /\ Written(d.table, id, hex, row.to)[id].number = d.table[id].number
        /\ Written(d.table, id, hex, row.to)[id].hex = hex
        /\ Written(d.table, id, hex, row.to)[id].home = row.to
        /\ \A i \in DOMAIN d.table : i # id =>
             Written(d.table, id, hex, row.to)[i] = d.table[i]
    BY <1>0, <2>1, <2>4, RowWritten
  <2> QED BY <1>2, <2>5 DEF hex
<1>6. ASSUME NEW i \in DOMAIN nextW.table
      PROVE  /\ nextW.table[i].type = nextD.table[i].type
             /\ nextW.table[i].number = nextD.table[i].number
             /\ nextW.table[i].home = nextD.table[i].home
             /\ \/ nextW.table[i].hex = nextD.table[i].hex
                \/ nextD.table[i].hex = Blank /\ GivenBy(rows, nextW, i)
  <2>1. CASE i = id
    <3>1. nextW.table[i].type = nextD.table[i].type
          /\ nextW.table[i].number = nextD.table[i].number
          /\ nextW.table[i].home = nextD.table[i].home
      BY <1>4, <1>5, <2>1 DEF Foretold, RowsAlike
    <3>2. GivenBy(rows, nextW, i)
      BY <1>3, <1>4, <2>1 DEF GivenBy
    <3>3. nextD.table[i].hex \in {Blank, row.hex} /\ nextW.table[i].hex = row.hex
      BY <1>3, <1>4, <1>5, <2>1
    <3> QED BY <3>1, <3>2, <3>3
  <2>2. CASE i # id
    <3>1. nextW.table[i] = w.table[i] /\ nextD.table[i] = d.table[i] /\ i \in DOMAIN w.table
      BY <1>1, <1>4, <1>5, <1>6, <2>2
    <3>2. GivenBy(rows, w, i) => GivenBy(rows, nextW, i)
      BY <3>1, GivenKept
    <3> QED BY <3>1, <3>2 DEF Foretold, RowsAlike
  <2> QED BY <2>1, <2>2
<1>7. w.table[id].home = d.table[id].home
  BY DEF Foretold, RowsAlike
<1>8. /\ nextW.found = nextD.found /\ nextW.created = nextD.created
      /\ nextW.already = nextD.already /\ nextW.changed = nextD.changed
  BY <1>7 DEF LinkFinds, Foretold, SameCounts
<1>9. RowsAlike(rows, nextW, nextD)
  BY <1>1, <1>4, <1>5, <1>6 DEF RowsAlike
<1> QED BY <1>8, <1>9

\* Row by row, what the dry run tells stays true.
LEMMA ForetoldKept ==
  ASSUME NEW known, NEW rows, IssuedRowsOnly(rows),
         \A r, s \in rows : Named[r.name] = Named[s.name] => r.name = s.name,
         NEW w \in MigrationPlans, NEW d \in MigrationPlans, Foretold(rows, w, d),
         NEW row \in FileRow
  PROVE  Foretold(rows, IssuedRow(known, rows, w, row, FALSE),
                        IssuedRow(known, rows, d, row, TRUE))
<1> DEFINE nextW == IssuedRow(known, rows, w, row, FALSE)
           nextD == IssuedRow(known, rows, d, row, TRUE)
<1>0. /\ Verdict(known, rows, w, row, FALSE, nextW)
      /\ Verdict(known, rows, d, row, TRUE, nextD)
  BY VerdictTaken
<1> HIDE DEF nextW, nextD
<1>1. w.seen = d.seen /\ (IsNew(rows, w, row) <=> IsNew(rows, d, row))
  BY DEF Foretold, IsNew
<1>2. CASE row \notin rows \/ Conflicts(rows, row)
  BY <1>0, <1>2 DEF Verdict, nextW, nextD
<1>3. CASE row \in rows /\ ~Conflicts(rows, row) /\ row \in w.seen
  <2>1. /\ nextW.seen = w.seen /\ Bumped(w, nextW, 1, 0, 0)
        /\ nextD.seen = d.seen /\ Bumped(d, nextD, 1, 0, 0)
    BY <1>0, <1>1, <1>3 DEF Verdict
  <2>2. Foretold(rows, nextW, nextD)
    BY <1>1, <2>1, ForetoldBumped
  <2> QED BY <2>2 DEF nextW, nextD
<1>4. CASE IsNew(rows, w, row)
  <2>0. nextW.seen = w.seen \cup {row} /\ nextD.seen = d.seen \cup {row}
    BY <1>0, <1>1, <1>4 DEF Verdict
  <2>1. CASE Named[row.name] \notin known
    <3>1. Bumped(w, nextW, 0, 0, 1) /\ Bumped(d, nextD, 0, 0, 1)
      BY <1>0, <1>1, <1>4, <2>1 DEF Verdict
    <3>2. Foretold(rows, nextW, nextD)
      BY <1>1, <2>0, <3>1, ForetoldBumped
    <3> QED BY <3>2 DEF nextW, nextD
  <2>2. CASE Named[row.name] \in known /\ row.to = Nowhere
    <3>1. Bumped(w, nextW, 0, 1, 0) /\ Bumped(d, nextD, 0, 1, 0)
      BY <1>0, <1>1, <1>4, <2>2 DEF Verdict
    <3>2. Foretold(rows, nextW, nextD)
      BY <1>1, <2>0, <3>1, ForetoldBumped
    <3> QED BY <3>2 DEF nextW, nextD
  <2>3. CASE Named[row.name] \in known /\ row.to # Nowhere
    <3>0. row \in IssuableRow /\ row \in rows /\ ~Conflicts(rows, row)
      BY <1>4, <2>3 DEF IsNew, IssuedRowsOnly, FileRow, IssuableRow
    <3>1. /\ FoundKeys(w.table, row) = FoundKeys(d.table, row)
          /\ Agrees(w.table, row) <=> Agrees(d.table, row)
          /\ \A i \in NumberAt(w.table, Named[row.name], row.number) :
               w.table[i].hex = d.table[i].hex
      BY <1>4, <3>0, LooksTheSame
    <3>2. CASE ~Agrees(w.table, row)
      <4>1. Bumped(w, nextW, 0, 0, 1) /\ Bumped(d, nextD, 0, 0, 1)
        BY <1>0, <1>1, <1>4, <2>3, <3>1, <3>2 DEF Verdict
      <4>2. Foretold(rows, nextW, nextD)
        BY <1>1, <2>0, <4>1, ForetoldBumped
      <4> QED BY <4>2 DEF nextW, nextD
    <3>3. CASE Agrees(w.table, row)
      <4>1. IsLinked(w, row, FALSE, nextW) /\ IsLinked(d, row, TRUE, nextD)
        BY <1>0, <1>1, <1>4, <2>3, <3>1, <3>3 DEF Verdict
      <4>2. /\ nextW.lost = nextD.lost /\ nextW.duplicates = nextD.duplicates
            /\ nextW.errors = nextD.errors /\ nextW.linked = nextD.linked
        BY <4>1 DEF IsLinked, Foretold, SameCounts
      <4>3. Fits(nextW.table)
        <5>1. \/ LinkCreates(w, row, nextW)
              \/ \E id \in DOMAIN w.table : LinkFinds(w, row, FALSE, nextW, id)
          BY <4>1 DEF IsLinked
        <5>2. w.table \in Seq(KeyRow) /\ Fits(w.table)
          BY MigrationFields DEF Foretold
        <5>3. PICK id : Placed(w, row, nextW, id)
          BY <3>0, <3>3, <5>1, <5>2, LinkPlaces
        <5> QED BY <5>3 DEF Placed
      <4>4. nextW.seen = nextD.seen /\ w.seen \subseteq nextW.seen
        BY <1>1, <2>0
      <4>5. CASE FoundKeys(w.table, row) = {}
        <5>1. LinkCreates(w, row, nextW) /\ LinkCreates(d, row, nextD)
          BY <3>1, <4>1, <4>5 DEF IsLinked, LinkFinds
        <5>2. Foretold(rows, nextW, nextD)
          BY <3>0, <4>2, <4>3, <4>4, <5>1, ForetoldCreated DEF Foretold, SameCounts
        <5> QED BY <5>2 DEF nextW, nextD
      <4>6. CASE FoundKeys(w.table, row) # {}
        <5>1. PICK id \in DOMAIN w.table : LinkFinds(w, row, FALSE, nextW, id)
          BY <4>1, <4>6 DEF IsLinked, LinkCreates
        <5>2. PICK x \in DOMAIN d.table : LinkFinds(d, row, TRUE, nextD, x)
          BY <3>1, <4>1, <4>6 DEF IsLinked, LinkCreates
        <5>3. x = id /\ id \in FoundKeys(w.table, row)
          BY <3>1, <5>1, <5>2 DEF LinkFinds
        <5>4. id \in NumberAt(w.table, Named[row.name], row.number)
          <6>1. w.table \in Seq(KeyRow) /\ Fits(w.table)
            BY MigrationFields DEF Foretold
          <6> QED BY <3>0, <3>3, <5>3, <6>1, FoundAgrees
        <5>5. w.table[id].hex = d.table[id].hex
          BY <3>1, <5>4
        <5>6. LinkFinds(d, row, TRUE, nextD, id)
          BY <5>2, <5>3
        <5>7. /\ nextW.found = nextD.found /\ nextW.created = nextD.created
              /\ nextW.already = nextD.already /\ nextW.changed = nextD.changed
              /\ RowsAlike(rows, nextW, nextD)
          BY <2>0, <3>0, <3>3, <4>4, <5>1, <5>5, <5>6, ForetoldFound
        <5>8. Foretold(rows, nextW, nextD)
          BY <4>2, <4>3, <4>4, <5>7 DEF Foretold, SameCounts
        <5> QED BY <5>8 DEF nextW, nextD
      <4> QED BY <4>5, <4>6
    <3> QED BY <3>2, <3>3
  <2> QED BY <2>1, <2>2, <2>3
<1> QED BY <1>2, <1>3, <1>4 DEF IsNew

\* What a dry run tells of an issued file is what the run comes to.
LEMMA DryRunTells ==
  ASSUME NEW before \in Seq(KeyRow), Fits(before), NEW known, NEW file \in Seq(FileRow),
         OneNameEach(file)
  PROVE  Counts(IssuedPlan(before, known, file, TRUE))
           = Counts(IssuedPlan(before, known, file, FALSE))
<1> DEFINE N == Len(file)
           rows == IssuedRows(file)
<1>0. N \in Nat /\ IssuedRowsOnly(rows) /\ Begun(before, IssuedStart(before, file))
  BY LenProperties, IssuedBegins
<1>1. \A r, s \in rows : Named[r.name] = Named[s.name] => r.name = s.name
  BY DEF OneNameEach, IssuedRows
<1>2. PICK wet \in [0 .. N -> MigrationPlans] : IssuedSteps(before, known, file, FALSE, wet)
  BY IssuedPlans
<1>3. PICK dry \in [0 .. N -> MigrationPlans] : IssuedSteps(before, known, file, TRUE, dry)
  BY IssuedPlans
<1> DEFINE Good == {n \in Nat : n <= N => Foretold(rows, wet[n], dry[n])}
<1>4. 0 \in Good
  <2>1. wet[0] = IssuedStart(before, file) /\ dry[0] = IssuedStart(before, file)
    BY <1>2, <1>3 DEF IssuedSteps
  <2>2. Foretold(rows, wet[0], dry[0])
    BY <1>0, <2>1 DEF Foretold, RowsAlike, SameCounts, Begun
  <2> QED BY <2>2
<1>5. ASSUME NEW n \in Nat, n \in Good PROVE n + 1 \in Good
  <2> SUFFICES ASSUME n + 1 <= N PROVE Foretold(rows, wet[n + 1], dry[n + 1])
    OBVIOUS
  <2> HIDE DEF rows
  <2>1. n + 1 \in 1 .. N /\ n \in 0 .. N /\ (n + 1) - 1 = n /\ n <= N
    BY <1>0
  <2>2. wet[n + 1] = IssuedRow(known, rows, wet[n], file[n + 1], FALSE)
    BY <1>2, <2>1 DEF IssuedSteps, rows
  <2>3. dry[n + 1] = IssuedRow(known, rows, dry[n], file[n + 1], TRUE)
    BY <1>3, <2>1 DEF IssuedSteps, rows
  <2>4. /\ wet[n] \in MigrationPlans /\ dry[n] \in MigrationPlans
        /\ Foretold(rows, wet[n], dry[n])
    BY <1>2, <1>3, <1>5, <2>1
  <2>5. file[n + 1] \in FileRow
    BY <2>1, RowsOfFile
  <2>6. Foretold(rows, IssuedRow(known, rows, wet[n], file[n + 1], FALSE),
                       IssuedRow(known, rows, dry[n], file[n + 1], TRUE))
    BY <1>0, <1>1, <2>4, <2>5, ForetoldKept
  <2> QED BY <2>2, <2>3, <2>6
<1>6. N \in Good
  <2> HIDE DEF Good
  <2> QED BY <1>0, <1>4, <1>5, Climb
<1>7. Foretold(rows, wet[N], dry[N])
  <2>1. N \in Nat /\ N <= N
    BY <1>0
  <2> HIDE DEF N, rows
  <2> QED BY <1>6, <2>1
<1>8. /\ IssuedPlan(before, known, file, FALSE) = wet[N]
      /\ IssuedPlan(before, known, file, TRUE) = dry[N]
  BY <1>2, <1>3 DEF IssuedSteps
<1> QED BY <1>7, <1>8 DEF Foretold, SameCounts, Counts

\* The dry run of a request that is at work foretells its report.
LEMMA ForetellsAtWork ==
  ASSUME RegistryInv PROVE DryRunForetells
<1> SUFFICES ASSUME NEW k \in Clerks, kpc[k] = "write", task[k].kind = "issued",
                    OneNameEach(task[k].file)
             PROVE  Counts(IssuedPlan(snap[k], task[k].known, task[k].file, TRUE))
                      = Counts(MigrationPlan(k))
  BY DEF DryRunForetells
<1>1. AtWork(k)
  BY DEF RegistryInv
<1>2. ~Scanning(k) /\ ~Importing(k)
  BY DEF Scanning, Scans, Importing
<1>3. Migrating(k) /\ Reading(k)
  BY <1>1, <1>2 DEF AtWork
<1>4. task[k].file \in Seq(FileRow)
  BY <1>3, FilesAssumption DEF Migrating
<1>5. MigrationPlan(k) = IssuedPlan(snap[k], task[k].known, task[k].file, FALSE)
  BY DEF MigrationPlan
<1> QED BY <1>3, <1>4, <1>5, DryRunTells DEF Reading

\* For a file of any length that calls no type by two names, the dry run of a
\* migration reports what the run will, count by count (legacy_issued_keys.py).
THEOREM DryRunIsTrue == ImportSpec => []DryRunForetells
<1>1. RegistryInv => DryRunForetells
  BY ForetellsAtWork
<1> QED BY <1>1, RegistrySafe, PTL
=============================================================================
