----------------------------- MODULE KeyImport -----------------------------
(***************************************************************************)
(* Files of keys: import_keys_file of importer.py and the two migrations   *)
(* of legacy_issued_keys.py, beside the clerks of KeyRegistry.             *)
(*                                                                         *)
(* Each reads the register into memory, decides every row against that     *)
(* picture, which it keeps current, and writes in one transaction.  Cells, *)
(* headers and the search for an address are left out: a row is what they  *)
(* have made of it.                                                        *)
(***************************************************************************)
EXTENDS KeyRegistry

CONSTANTS TypeNames,   \* what a file may call a type
          Named,       \* the type a name stands for; DEFAULT_TYPE_ALIASES
          BadHex,      \* a HEX no row may have
          Nowhere,     \* an assignment whose address is not found
          RegisterFiles, IssuedFiles, FreeFiles

ASSUME TypeNamesAssumption == KeyTypes \subseteq TypeNames
ASSUME NamedAssumption == /\ Named \in [TypeNames -> KeyTypes]
                          /\ \A t \in KeyTypes : Named[t] = t
ASSUME BadHexAssumption == BadHex \notin Hexes \cup {Blank}

\* A row of a file; "to" is its assignment, Unassigned when it is empty.
FileRow == [name : TypeNames, number : Numbers, hex : Hexes \cup {BadHex},
            to : Homes \cup {Nowhere, Unassigned}]
\* A name the register page has is a type's own: it makes the type if need be.
RegisterRow == {row \in FileRow : row.name \in KeyTypes}
ASSUME FilesAssumption == /\ RegisterFiles \subseteq Seq(RegisterRow)
                          /\ IssuedFiles \cup FreeFiles \subseteq Seq(FileRow)

-----------------------------------------------------------------------------
(* The import of the register page.                                        *)

NothingRead(table) == [table |-> table, made |-> {}, added |-> 0, updated |-> 0,
                       duplicates |-> 0, errors |-> 0]

\* Mutant of HexKnown: the HEX codes of other keys are not looked at.
HexUnchecked(table, hex, at) == FALSE

\* Another key has the HEX, in the register or in an earlier row of the file.
HexKnown(table, hex, at) == HexAt(table, hex) \ at # {}

\* What one row comes to, and the picture it leaves to the next.
ImportRow(known, plan, row) ==
  LET named == row.hex # BadHex
      made  == IF row.name \in known \/ ~named THEN {} ELSE {row.name}
      typed == [plan EXCEPT !.made = @ \cup made]
      at    == NumberAt(plan.table, row.name, row.number)
      same  == \E i \in at : plan.table[i].hex = row.hex
      blank == \E i \in at : plan.table[i].hex = Blank
  IN IF ~named THEN [plan EXCEPT !.errors = @ + 1]
     ELSE IF HexKnown(plan.table, row.hex, at) \/ same
       THEN [typed EXCEPT !.duplicates = @ + 1]
     ELSE IF at = {}
       THEN [typed EXCEPT !.added = @ + 1,
                          !.table = Append(@, NewRow(row.name, row.number, row.hex))]
     ELSE IF blank
       THEN [typed EXCEPT !.updated = @ + 1,
                          !.table = SetHex(@, CHOOSE i \in at : TRUE, row.hex)]
     ELSE [typed EXCEPT !.errors = @ + 1]

ImportPlan(before, known, file) ==
  FoldLeft(LAMBDA plan, row : ImportRow(known, plan, row),
           NothingRead(before), file)

ExistingTypes == {t \in KeyTypes : types[t] # "absent"}

StartImport(k, file) ==
  Begin(k, [kind |-> "import", file |-> file, known |-> ExistingTypes])

PlanOf(k) == ImportPlan(snap[k], task[k].known, task[k].file)

\* A HEX that differs from the picture is written whatever the row has by now.
Overwritten(now, old, new) == IF new # old THEN new ELSE now

\* CASE WHEN hex_value = '' THEN ? ELSE hex_value END
Filled(now, old, new) == IF new # old /\ now = Blank THEN new ELSE now

\* The UPDATEs and INSERTs of a plan, made on the table as it is now.
Merged(now, before, plan) ==
  [i \in DOMAIN now |->
     IF i > Len(before) THEN now[i]
     ELSE [now[i] EXCEPT !.hex = Filled(@, before[i].hex, plan[i].hex)]]
    \o SubSeq(plan, Len(before) + 1, Len(plan))

\* A type another transaction has created since, like a number or a HEX that
\* is taken by now, ends the import with all its rows.
ImportCommit(k) ==
  LET plan == PlanOf(k)
      ok   == plan.made \cap ExistingTypes = {}
      done == Stored(Merged(keys, snap[k], plan.table))
  IN /\ kpc[k] = "write" /\ task[k].kind = "import"
     /\ keys' = IF ok THEN done ELSE keys
     /\ types' = [t \in KeyTypes |->
                    IF t \in plan.made /\ ok /\ Fits(Merged(keys, snap[k], plan.table))
                      THEN "enabled" ELSE types[t]]
     /\ Finish(k)

-----------------------------------------------------------------------------
(* The migrations of the legacy register.                                  *)

Identity(row) == <<row.name, row.number>>

\* Mutant of HexConflict: two rows of one HEX are taken one after the other.
HexConflictIgnored(rows, row) == FALSE

\* conflicting_hex: the HEX is given to two keys, or to two addresses.
HexConflict(rows, row) ==
  \E other \in rows : other.hex = row.hex
                      /\ <<Identity(other), other.to>> # <<Identity(row), row.to>>

\* Mutant of NumberConflict: two rows of one number are taken in turn.
NumberConflictIgnored(rows, row) == FALSE

\* conflicting_numbers: the number is given to two HEX codes.
NumberConflict(rows, row) ==
  \E other \in rows : Identity(other) = Identity(row) /\ other.hex # row.hex

Conflicts(rows, row) == HexConflict(rows, row) \/ NumberConflict(rows, row)

\* The conflicts a file has; each is one error of the report.
ConflictCount(rows) ==
  Cardinality({r.hex : r \in {x \in rows : HexConflict(rows, x)}})
    + Cardinality({Identity(r) : r \in {x \in rows : NumberConflict(rows, x)}})

\* The key a row is about, or none: by HEX, then by number.
FoundKeys(table, row) ==
  IF HexAt(table, row.hex) # {} THEN HexAt(table, row.hex)
  ELSE NumberAt(table, Named[row.name], row.number)

\* The HEX, the number and the type of a row agree with the register.
Agrees(table, row) ==
  LET byNumber == NumberAt(table, Named[row.name], row.number)
      byHex    == HexAt(table, row.hex)
  IN /\ byHex # {} => byHex = byNumber
     /\ \A i \in byNumber : table[i].hex \in {Blank, row.hex}

NothingLinked(table) == [table |-> table, seen |-> {}, touched |-> {}, found |-> 0,
                         created |-> 0, linked |-> 0, changed |-> 0, already |-> 0,
                         lost |-> 0, duplicates |-> 0, errors |-> 0]

\* A key that is found is left as it is or gets its HEX, in a dry run neither;
\* a key that is not is created.  Either is assigned to the address.
Linked(plan, row, dry) ==
  LET ids   == FoundKeys(plan.table, row)
      id    == IF ids = {} THEN Len(plan.table) + 1 ELSE CHOOSE i \in ids : TRUE
      table == IF ids = {} THEN Append(plan.table, NewRow(Named[row.name], row.number,
                                                          row.hex))
               ELSE IF dry THEN plan.table
               ELSE SetHex(plan.table, id, row.hex)
      same  == table[id].home = row.to
  IN [plan EXCEPT !.table   = [table EXCEPT ![id].home = row.to],
                  !.touched = @ \cup {id},
                  !.found   = IF ids = {} THEN @ ELSE @ + 1,
                  !.created = IF ids = {} THEN @ + 1 ELSE @,
                  !.already = IF same THEN @ + 1 ELSE @,
                  !.changed = IF same THEN @ ELSE @ + 1,
                  !.linked  = @ + 1]

IssuedRow(known, rows, plan, row, dry) ==
  IF row \notin rows \/ Conflicts(rows, row) THEN plan
  ELSE IF row \in plan.seen THEN [plan EXCEPT !.duplicates = @ + 1]
  ELSE LET met == [plan EXCEPT !.seen = @ \cup {row}]
       IN IF Named[row.name] \notin known THEN [met EXCEPT !.errors = @ + 1]
          ELSE IF row.to = Nowhere THEN [met EXCEPT !.lost = @ + 1]
          ELSE IF ~Agrees(plan.table, row) THEN [met EXCEPT !.errors = @ + 1]
          ELSE Linked(met, row, dry)

\* import_legacy_issued_keys; rows without an assignment are not its business.
IssuedPlan(before, known, file, dry) ==
  LET bad  == {i \in DOMAIN file : file[i].to # Unassigned /\ file[i].hex = BadHex}
      rows == {r \in ToSet(file) : r.to # Unassigned /\ r.hex # BadHex}
  IN FoldLeft(LAMBDA plan, row : IssuedRow(known, rows, plan, row, dry),
              [NothingLinked(before) EXCEPT
                 !.errors = Cardinality(bad) + ConflictCount(rows)],
              file)

FreeRow(known, rows, plan, row) ==
  IF row \notin rows THEN plan
  ELSE IF row \in plan.seen THEN [plan EXCEPT !.duplicates = @ + 1]
  ELSE LET met == [plan EXCEPT !.seen = @ \cup {row}]
           at  == FoundKeys(plan.table, row)
       IN IF \/ Conflicts(rows, row) \/ Named[row.name] \notin known
             \/ ~Agrees(plan.table, row)
             \/ \E i \in at : plan.table[i].hex = Blank
            THEN [met EXCEPT !.errors = @ + 1]
          ELSE IF at # {} THEN [met EXCEPT !.found = @ + 1]
          ELSE [met EXCEPT !.created = @ + 1,
                           !.table = Append(@, NewRow(Named[row.name], row.number,
                                                      row.hex))]

\* import_legacy_free_keys: the rows without an assignment.
FreePlan(before, known, file) ==
  LET bad  == {i \in DOMAIN file : file[i].to = Unassigned /\ file[i].hex = BadHex}
      rows == {r \in ToSet(file) : r.to = Unassigned /\ r.hex # BadHex}
  IN FoldLeft(LAMBDA plan, row : FreeRow(known, rows, plan, row),
              [NothingLinked(before) EXCEPT !.errors = Cardinality(bad)], file)

StartMigration(k, kind, file) ==
  Begin(k, [kind |-> kind, file |-> file, known |-> ExistingTypes])

MigrationPlan(k) ==
  IF task[k].kind = "issued"
    THEN IssuedPlan(snap[k], task[k].known, task[k].file, FALSE)
    ELSE FreePlan(snap[k], task[k].known, task[k].file)

\* UPDATE keys SET hex_value asks for nothing but the id; the assignment of a
\* key is replaced whatever it is by now.
Migrated(now, before, plan) ==
  [i \in DOMAIN now |->
     IF i > Len(before) THEN now[i]
     ELSE [now[i] EXCEPT !.hex = Overwritten(@, before[i].hex, plan.table[i].hex),
                         !.home = IF i \in plan.touched THEN plan.table[i].home ELSE @]]
    \o SubSeq(plan.table, Len(before) + 1, Len(plan.table))

MigrationCommit(k) ==
  /\ kpc[k] = "write" /\ task[k].kind \in {"issued", "free"}
  /\ keys' = Stored(Migrated(keys, snap[k], MigrationPlan(k)))
  /\ Finish(k)
  /\ UNCHANGED types

-----------------------------------------------------------------------------
ImportNext ==
  \/ RegistryNext
  \/ \E k \in Clerks :
       \/ \E file \in RegisterFiles : StartImport(k, file)
       \/ \E file \in IssuedFiles : StartMigration(k, "issued", file)
       \/ \E file \in FreeFiles : StartMigration(k, "free", file)
       \/ ImportCommit(k) \/ MigrationCommit(k)

ImportSpec == RegistryInit /\ [][ImportNext]_registryVars

-----------------------------------------------------------------------------
(* Properties.                                                             *)

\* Nothing was written between the reading of k and its commit.
Fresh(k) == snap[k] = keys /\ task[k].known = ExistingTypes

\* An import that nobody disturbed is not refused by an index, and its report
\* counts each row once, as what has become of it.
ImportReported ==
  [][\A k \in Clerks : ImportCommit(k) /\ Fresh(k) =>
       LET plan == PlanOf(k)
           file == task[k].file
       IN /\ plan.added = Len(keys') - Len(keys)
          /\ plan.updated = Cardinality({i \in DOMAIN keys : keys'[i] # keys[i]})
          /\ plan.added + plan.updated + plan.duplicates + plan.errors = Len(file)
          /\ plan.errors = 0 => \A r \in ToSet(file) : HexAt(keys', r.hex) # {}
     ]_registryVars

\* However long an import works on its picture, it leaves a key that has its
\* HEX by now as it is: importer.py:259.
ImportNeverReplaces ==
  [][\A k \in Clerks, i \in DOMAIN keys :
       ImportCommit(k) /\ keys[i].hex # Blank => keys'[i] = keys[i]]_registryVars

\* "Plan or apply an idempotent migration": applied again to what it has left,
\* a migration creates nothing and changes nothing, its report says so.
MigrationRepeatable ==
  [][\A k \in Clerks : MigrationCommit(k) /\ Fresh(k) =>
       LET file  == task[k].file
           again == IF task[k].kind = "issued"
                      THEN IssuedPlan(keys', task[k].known, file, FALSE)
                      ELSE FreePlan(keys', task[k].known, file)
       IN again.table = keys' /\ again.created = 0 /\ again.changed = 0]_registryVars

\* No type is called by two names in the file.
OneNameEach(file) ==
  \A r, s \in ToSet(file) : Named[r.name] = Named[s.name] => r.name = s.name

Counts(plan) == <<plan.found, plan.created, plan.linked, plan.changed,
                  plan.already, plan.lost, plan.duplicates, plan.errors>>

\* The dry run of a migration foretells the report of the run that applies it,
\* unless the file calls a type by two names.
DryRunForetells ==
  \A k \in Clerks :
    (kpc[k] = "write" /\ task[k].kind = "issued" /\ OneNameEach(task[k].file))
    => LET told == IssuedPlan(snap[k], task[k].known, task[k].file, TRUE)
       IN Counts(told) = Counts(MigrationPlan(k))
=============================================================================
