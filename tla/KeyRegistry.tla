---------------------------- MODULE KeyRegistry ----------------------------
(***************************************************************************)
(* The register of keys: types, numbers and HEX codes.  key_repository.py  *)
(* (types, missing numbers, preparing, scanning, editing) and              *)
(* key_numbers.py.                                                         *)
(*                                                                         *)
(* A clerk is a request that reads the register and writes it by later     *)
(* statements; what is decided under the lock of one row is one step.      *)
(* Rows are never deleted, so the table is a sequence and an id an index.  *)
(* A number is the pair of its value and its length in digits: <<7, 3>> is *)
(* the text 007.                                                           *)
(***************************************************************************)
EXTENDS Integers, FiniteSets, SequencesExt

CONSTANTS KeyTypes, Numbers, Hexes,
          Blank,      \* a row that has no HEX yet
          Homes,      \* addresses a key may be assigned to
          Unassigned,
          Clerks,
          FirstKeys,  \* the tables a behaviour may begin with
          MaxTasks    \* bound on changes and tasks

ASSUME NumbersAssumption == Numbers \subseteq Nat \X (Nat \ {0})
ASSUME BlankAssumption == Blank \notin Hexes /\ Unassigned \notin Homes

VARIABLES keys,     \* keys: type, number, hex; home of the active assignment
          types,    \* key_types: absent, enabled or archived
          task,     \* what a clerk's request is about
          snap,     \* the table as the request has read it
          kpc,      \* idle, or between reading and writing
          tasks

registryVars == <<keys, types, task, snap, kpc, tasks>>

KeyRow == [type : KeyTypes, number : Numbers, hex : Hexes \cup {Blank},
           home : Homes \cup {Unassigned}]

NoTask == [kind |-> "none"]

NewRow(type, number, hex) ==
  [type |-> type, number |-> number, hex |-> hex, home |-> Unassigned]

\* idx_keys_type_number and uq_keys_hex_nonempty_ci
Fits(table) ==
  \A i, j \in DOMAIN table : i # j =>
       /\ <<table[i].type, table[i].number>> # <<table[j].type, table[j].number>>
       /\ table[i].hex # Blank => table[i].hex # table[j].hex

\* The rows of a number of a type, and of a HEX: at most one each.
NumberAt(table, type, number) ==
  {i \in DOMAIN table : table[i].type = type /\ table[i].number = number}
HexAt(table, hex) == {i \in DOMAIN table : table[i].hex = hex}

ASSUME FirstKeysAssumption ==
  \A table \in FirstKeys : table \in Seq(KeyRow) /\ Fits(table)

SetHex(table, id, hex) == [table EXCEPT ![id].hex = hex]

\* A violated index rolls the transaction back.
Stored(table) == IF Fits(table) THEN table ELSE keys

RegistryInit ==
  /\ keys \in FirstKeys
  /\ types \in [KeyTypes -> {"absent", "enabled"}]
  /\ \A i \in DOMAIN keys : types[keys[i].type] = "enabled"
  /\ task = [k \in Clerks |-> NoTask]
  /\ snap = [k \in Clerks |-> <<>>]
  /\ kpc = [k \in Clerks |-> "idle"]
  /\ tasks = 0

CountTask == tasks < MaxTasks /\ tasks' = tasks + 1

\* A request has read the register and goes on to write it.
Begin(k, t) ==
  /\ kpc[k] = "idle" /\ CountTask
  /\ task' = [task EXCEPT ![k] = t]
  /\ snap' = [snap EXCEPT ![k] = keys]
  /\ kpc' = [kpc EXCEPT ![k] = "write"]
  /\ UNCHANGED <<keys, types>>

Finish(k) ==
  /\ task' = [task EXCEPT ![k] = NoTask]
  /\ snap' = [snap EXCEPT ![k] = <<>>]
  /\ kpc' = [kpc EXCEPT ![k] = "idle"]
  /\ UNCHANGED tasks

\* The worker is lost: nothing of the transaction stays.
LoseTask(k) ==
  /\ kpc[k] = "write"
  /\ Finish(k)
  /\ UNCHANGED <<keys, types>>

-----------------------------------------------------------------------------
(* Types of keys.                                                          *)

\* create_key_type
CreateType(t) ==
  /\ types[t] = "absent" /\ CountTask
  /\ types' = [types EXCEPT ![t] = "enabled"]
  /\ UNCHANGED <<keys, task, snap, kpc>>

\* update_key_type, as far as it archives a type or takes it back.
SwitchType(t) ==
  /\ types[t] # "absent" /\ CountTask
  /\ types' = [types EXCEPT ![t] = IF @ = "enabled" THEN "archived" ELSE "enabled"]
  /\ UNCHANGED <<keys, task, snap, kpc>>

-----------------------------------------------------------------------------
(* Scanning: save_prepared_key reads the row without a lock.               *)

Scans == [kind : {"scan"}, type : KeyTypes, number : Numbers, hex : Hexes,
          replace : BOOLEAN]

\* A HEX that is there is replaced only on demand; no other key has the new one.
ScanAdmits(t) ==
  LET at == NumberAt(keys, t.type, t.number)
  IN /\ types[t.type] = "enabled"
     /\ \A i \in at : keys[i].hex \in {Blank, t.hex} \/ t.replace
     /\ HexAt(keys, t.hex) \subseteq at

ScanRead(k, t) == ScanAdmits(t) /\ Begin(k, t)

\* UPDATE ... WHERE id, or INSERT, by what was read.
Scanned(table, seen, t) ==
  LET at == NumberAt(seen, t.type, t.number)
  IN IF at = {} THEN Append(table, NewRow(t.type, t.number, t.hex))
     ELSE SetHex(table, CHOOSE i \in at : TRUE, t.hex)

ScanWrite(k) ==
  /\ kpc[k] = "write" /\ task[k].kind = "scan"
  /\ keys' = Stored(Scanned(keys, snap[k], task[k]))
  /\ Finish(k)
  /\ UNCHANGED types

\* save_key_hex, with the row locked from its reading on.
SaveHex(id, hex, replace) ==
  /\ id \in DOMAIN keys /\ CountTask
  /\ keys[id].hex \in {Blank, hex} \/ replace
  /\ HexAt(keys, hex) \subseteq {id}
  /\ keys' = SetHex(keys, id, hex)
  /\ UNCHANGED <<types, task, snap, kpc>>

\* update_key: the card may change the type, the number and the HEX.
EditKey(id, type, number, hex) ==
  LET edited == [keys EXCEPT ![id].type = type, ![id].number = number,
                             ![id].hex = hex]
  IN /\ id \in DOMAIN keys /\ CountTask
     /\ types[type] # "absent"
     /\ HexAt(keys, hex) \subseteq {id} /\ Fits(edited)
     /\ keys' = edited
     /\ UNCHANGED <<types, task, snap, kpc>>

-----------------------------------------------------------------------------
(* Missing numbers and preparing a range.                                  *)

Digits(value) == IF value < 10 THEN 1 ELSE IF value < 100 THEN 2 ELSE 3

\* format_numeric_key_number; zfill never cuts a number.
Padded(value, width) ==
  <<value, IF width > Digits(value) THEN width ELSE Digits(value)>>

\* infer_numeric_key_number_width; 0 stands for None.
WidthOf(numbers) ==
  LET widths == {n[2] : n \in numbers}
  IN IF Cardinality(widths) = 1 /\ \E n \in numbers : n[2] > Digits(n[1])
       THEN CHOOSE w \in widths : TRUE
       ELSE 0

StoredNumbers(table, type) ==
  {table[i].number : i \in {j \in DOMAIN table :
                              table[j].type = type /\ table[j].hex # Blank}}

\* Mutant of AddGap: the limit is taken for each gap anew.
AddGapEach(found, first, last, width, limit) ==
  IF last < first THEN found
  ELSE LET end == IF last + 1 < first + limit THEN last ELSE first + limit - 1
       IN [ranges  |-> Append(found.ranges, <<first, last>>),
           numbers |-> found.numbers
                         \o [i \in 1 .. end - first + 1 |-> Padded(first + i - 1, width)],
           cursor  |-> found.cursor]

\* add_gap
AddGap(found, first, last, width, limit) ==
  IF last < first THEN found
  ELSE LET left == limit - Len(found.numbers)
           end  == IF last + 1 < first + left THEN last ELSE first + left - 1
       IN [ranges  |-> Append(found.ranges, <<first, last>>),
           numbers |-> found.numbers
                         \o [i \in 1 .. end - first + 1 |-> Padded(first + i - 1, width)],
           cursor  |-> found.cursor]

\* get_missing_key_numbers between two numbers, with its limit.
Missing(table, type, start, end, limit) ==
  LET stored  == StoredNumbers(table, type)
      width   == WidthOf(stored)
      present == SetToSortSeq({n[1] : n \in stored} \cap (start .. end), <)
      Next1(found, value) ==
        LET with == IF value > found.cursor
                      THEN AddGap(found, found.cursor, value - 1, width, limit)
                      ELSE found
        IN [with EXCEPT !.cursor = IF value + 1 > @ THEN value + 1 ELSE @]
      all == FoldLeft(Next1, [ranges |-> <<>>, numbers |-> <<>>, cursor |-> start],
                      present)
  IN AddGap(all, all.cursor, end, width, limit)

\* The numbers prepare_key_range makes of a start and a count.
RangeFrom(start, count) == [i \in 1 .. count |-> Padded(start[1] + i - 1, start[2])]

\* prepare_key_range: what is left to scan.  It creates nothing.
Prepared(table, type, start, count) ==
  SelectSeq(RangeFrom(start, count),
            LAMBDA n : \A i \in NumberAt(table, type, n) : table[i].hex = Blank)

-----------------------------------------------------------------------------
RegistryNext ==
  \/ \E k \in Clerks : \/ \E t \in Scans : ScanRead(k, t)
                       \/ ScanWrite(k)
                       \/ LoseTask(k)
  \/ \E t \in KeyTypes : CreateType(t) \/ SwitchType(t)
  \/ \E id \in DOMAIN keys, hex \in Hexes :
       \/ \E replace \in BOOLEAN : SaveHex(id, hex, replace)
       \/ \E t \in KeyTypes, n \in Numbers : EditKey(id, t, n, hex)

-----------------------------------------------------------------------------
(* Properties.                                                             *)

\* What the reports say depends on the table alone: it is enough to look at
\* them when no clerk is at work.
Quiet == \A k \in Clerks : kpc[k] = "idle"

\* Between two numbers the report names every number without a HEX and no
\* other, in order, and lists as many as its limit allows ...
MissingIsComplement(t, start, end, limit) ==
  LET found  == Missing(keys, t, start, end, limit)
      gaps   == (start .. end) \ {s[1] : s \in StoredNumbers(keys, t)}
      listed == [i \in DOMAIN found.numbers |-> found.numbers[i][1]]
  IN /\ UNION {r[1] .. r[2] : r \in ToSet(found.ranges)} = gaps
     /\ \A i \in 1 .. Len(found.ranges) - 1 :
          found.ranges[i][2] < found.ranges[i + 1][1]
     /\ ToSet(listed) \subseteq gaps
     /\ Len(listed) = IF limit < Cardinality(gaps) THEN limit
                                                   ELSE Cardinality(gaps)
     /\ \A i \in DOMAIN listed : \A g \in gaps :
          g < listed[i] => g \in {listed[j] : j \in 1 .. i - 1}

\* ... and a gap can be prepared as it is written there: the prepared numbers
\* are the listed ones.
MissingCanBePrepared(t, start, end) ==
  LET found == Missing(keys, t, start, end, 500)
  IN \A r \in ToSet(found.ranges) :
       LET first == Padded(r[1], WidthOf(StoredNumbers(keys, t)))
       IN Prepared(keys, t, first, r[2] - r[1] + 1)
            = SelectSeq(found.numbers, LAMBDA x : x[1] \in r[1] .. r[2])

\* get_missing_key_numbers reports what is missing, and what prepare_key_range
\* then offers to scan, whatever the widths, the gaps and the limit; other types
\* than those of the register show the report of an empty one.
MissingNumbers ==
  Quiet /\ keys # <<>> => \A t \in KeyTypes, n, m \in Numbers : n[1] <= m[1] =>
    /\ \A limit \in {1, 3} : MissingIsComplement(t, n[1], m[1], limit)
    /\ MissingCanBePrepared(t, n[1], m[1])
=============================================================================
