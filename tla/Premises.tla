------------------------------ MODULE Premises ------------------------------
(***************************************************************************)
(* Panels and the companies they belong to: panel_repository.py and        *)
(* importer.py (the register of panels), the companies and the links of    *)
(* uk_repository.py, and their routes.                                     *)
(*                                                                         *)
(* A manager is a request.  What one statement decides is one step; add    *)
(* and detach, and the programming of a key, read first and write later    *)
(* without a lock.  Of the data of a panel its MAC and one more cell are   *)
(* kept, of a company its CRM login, of the keys of a link whether any is  *)
(* programmed (UkKeys has them all).                                       *)
(***************************************************************************)
EXTENDS Integers, FiniteSets, SequencesExt

CONSTANTS PanelIds,
          Macs, BadMac, NoMac,
          Cells, NoCell,   \* contents of a cell, and an empty one
          Firms, Managers,
          PanelFiles,
          FirstPanels,     \* the panels a behaviour may begin with
          FirstLinks,      \* and their links
          MaxErrands       \* bound on requests

ASSUME PanelIdsAssumption == PanelIds \subseteq Nat /\ IsFiniteSet(PanelIds)
ASSUME MacsAssumption == {BadMac, NoMac} \cap Macs = {} /\ NoCell \notin Cells
ASSUME PanelFilesAssumption ==
  PanelFiles \subseteq Seq([mac  : Macs \cup {BadMac, NoMac},
                            cell : Cells \cup {NoCell}])

PanelRows ==
  [state : {"unused", "there", "deleted"}, mac : Macs \cup {NoMac},
   cell : Cells \cup {NoCell}, enabled : BOOLEAN]
LinkRows ==
  [firm : Firms, panel : PanelIds, active : BOOLEAN, programmed : BOOLEAN]

\* panels.mac is unique; uq_uk_panel_links_panel_active; a key is programmed on
\* a link in use.
ASSUME FirstPanelsAssumption ==
  /\ FirstPanels \subseteq [PanelIds -> PanelRows]
  /\ \A table \in FirstPanels : \A p, q \in PanelIds :
       /\ table[p].state = "there" /\ table[q].state = "there"
            /\ table[p].mac = table[q].mac => p = q
       /\ table[p].state = "unused" => table[p].cell = NoCell
ASSUME FirstLinksAssumption ==
  /\ FirstLinks \subseteq Seq(LinkRows)
  /\ \A table \in FirstLinks : \A i, j \in DOMAIN table :
       /\ table[i].programmed => table[i].active
       /\ table[i].active /\ table[j].active /\ table[i].panel = table[j].panel
            => i = j

VARIABLES panels,     \* panels: state, mac, cell, enabled
          companies,  \* uk_groups: state, login (crm_login and crm_password)
          links,      \* uk_panel_links, and whether a programming is active
          errand,     \* what a request has read
          epc,        \* control point of a request
          apart,      \* requests come one after the other
          errands

premisesVars == <<panels, companies, links, errand, epc, apart, errands>>

NoErrand == [op |-> "none"]
\* An id is never given twice.
UnusedPanel ==
  [state |-> "unused", mac |-> NoMac, cell |-> NoCell, enabled |-> FALSE]
DeletedPanel == [UnusedPanel EXCEPT !.state = "deleted"]

IsThere(p) == panels[p].state = "there"

NewLink(g, p) == [firm |-> g, panel |-> p, active |-> TRUE, programmed |-> FALSE]

PremisesInit ==
  /\ panels \in FirstPanels
  /\ links \in FirstLinks
  /\ \A i \in DOMAIN links : IsThere(links[i].panel)
  /\ \E open \in SUBSET Firms :
       /\ \A i \in DOMAIN links : links[i].firm \in open
       /\ companies = [g \in Firms |->
                         IF g \in open THEN [state |-> "open", login |-> TRUE]
                         ELSE [state |-> "absent", login |-> FALSE]]
  /\ errand = [m \in Managers |-> NoErrand]
  /\ epc = [m \in Managers |-> "idle"]
  /\ apart \in BOOLEAN
  /\ errands = 0

\* A request arrives.
Arrive ==
  /\ errands < MaxErrands /\ errands' = errands + 1
  /\ apart => \A m \in Managers : epc[m] = "idle"

Go(m, label, record) ==
  /\ epc' = [epc EXCEPT ![m] = label]
  /\ errand' = [errand EXCEPT ![m] = record]

Leave(m) == Go(m, "idle", NoErrand) /\ UNCHANGED <<apart, errands>>

LoseErrand(m) ==
  /\ epc[m] # "idle"
  /\ Leave(m)
  /\ UNCHANGED <<panels, companies, links>>

-----------------------------------------------------------------------------
(* The register of panels.                                                 *)

\* The panel of a MAC: panels.mac is unique.
PanelOf(table, mac) == {p \in PanelIds : table[p].state = "there" /\ table[p].mac = mac}

FreeIds(table) == {p \in PanelIds : table[p].state = "unused"}

NewPanel(mac, cell) ==
  [state |-> "there", mac |-> mac, cell |-> cell, enabled |-> TRUE]

\* INSERT ... ON CONFLICT(mac) DO UPDATE of all rows in one transaction, of the
\* switch too if enable is set: the last row of a MAC stays, and new MACs get
\* their ids in the order of the rows.
Upserted(table, rows, enable) ==
  LET RowsOf(mac) == {i \in DOMAIN rows : rows[i].mac = mac}
      Cell(mac)   == rows[CHOOSE i \in RowsOf(mac) : \A j \in RowsOf(mac) : j <= i].cell
      fresh       == {i \in DOMAIN rows : /\ PanelOf(table, rows[i].mac) = {}
                                          /\ \A j \in RowsOf(rows[i].mac) : i <= j}
      NewOn(p)    == {rows[i].mac : i \in {j \in fresh :
                        Cardinality({k \in fresh : k < j})
                          = Cardinality({q \in FreeIds(table) : q < p})}}
  IN [p \in PanelIds |->
        IF table[p].state = "there" /\ RowsOf(table[p].mac) # {}
          THEN [table[p] EXCEPT !.cell = Cell(table[p].mac), !.enabled = @ \/ enable]
        ELSE IF table[p].state = "unused" /\ NewOn(p) # {}
          THEN LET mac == CHOOSE m \in NewOn(p) : TRUE IN NewPanel(mac, Cell(mac))
        ELSE table[p]]

RoomFor(table, macs) ==
  Cardinality({mac \in macs : PanelOf(table, mac) = {}})
    <= Cardinality(FreeIds(table))

\* create_or_update_panel
SavePanel(mac, cell) ==
  /\ Arrive /\ RoomFor(panels, {mac})
  /\ panels' = Upserted(panels, <<[mac |-> mac, cell |-> cell]>>, TRUE)
  /\ UNCHANGED <<companies, links, errand, epc, apart>>

\* update_panel; a MAC another panel has is refused by the index.
EditPanel(p, mac, cell) ==
  /\ Arrive
  /\ IsThere(p) /\ PanelOf(panels, mac) \subseteq {p}
  /\ panels' = [panels EXCEPT ![p].mac = mac, ![p].cell = cell]
  /\ UNCHANGED <<companies, links, errand, epc, apart>>

\* panel_toggle
TogglePanel(p) ==
  /\ Arrive
  /\ IsThere(p)
  /\ panels' = [panels EXCEPT ![p].enabled = ~@]
  /\ UNCHANGED <<companies, links, errand, epc, apart>>

\* delete_panel; the foreign key looks at the links again.
DeletePanel(p) ==
  /\ Arrive
  /\ IsThere(p) /\ \A i \in DOMAIN links : links[i].panel # p
  /\ panels' = [panels EXCEPT ![p] = DeletedPanel]
  /\ UNCHANGED <<companies, links, errand, epc, apart>>

-----------------------------------------------------------------------------
(* import_panels_excel.                                                    *)

\* existing_by_mac
CellsByMac(table) ==
  [mac \in {table[p].mac : p \in {q \in PanelIds : table[q].state = "there"}} |->
     table[CHOOSE p \in PanelOf(table, mac) : TRUE].cell]

\* Mutant of Remembered: a row does not see the earlier rows of the file.
Forgotten(known, mac, cell) == known

Remembered(known, mac, cell) ==
  [m \in DOMAIN known \cup {mac} |-> IF m = mac THEN cell ELSE known[m]]

\* An empty cell keeps what is stored.
CellFor(known, row) ==
  IF row.mac \in DOMAIN known /\ row.cell = NoCell THEN known[row.mac] ELSE row.cell

PlanPanel(plan, row) ==
  LET cell == CellFor(plan.known, row)
      met  == [plan EXCEPT !.known = Remembered(@, row.mac, cell),
                           !.upserts = Append(@, [mac |-> row.mac, cell |-> cell])]
  IN IF row.mac = NoMac THEN [plan EXCEPT !.skipped = @ + 1]
     ELSE IF row.mac = BadMac THEN [plan EXCEPT !.errors = @ + 1]
     ELSE IF row.mac \notin DOMAIN plan.known THEN [met EXCEPT !.added = @ + 1]
     ELSE IF cell # plan.known[row.mac] THEN [met EXCEPT !.updated = @ + 1]
     ELSE [met EXCEPT !.skipped = @ + 1]

PanelPlan(table, file) ==
  FoldLeft(PlanPanel,
           [known |-> CellsByMac(table), upserts |-> <<>>, added |-> 0,
            updated |-> 0, skipped |-> 0, errors |-> 0], file)

ReadPanelFile(m, file) ==
  /\ epc[m] = "idle" /\ Arrive
  /\ Go(m, "import", [op |-> "import", file |-> file, seen |-> panels])
  /\ UNCHANGED <<panels, companies, links, apart>>

PlanOfErrand(m) == PanelPlan(errand[m].seen, errand[m].file)

\* The upserts are made on the table as it is now; they do not enable a panel.
WritePanels(m) ==
  LET upserts == PlanOfErrand(m).upserts
  IN /\ epc[m] = "import"
     /\ RoomFor(panels, {u.mac : u \in ToSet(upserts)})
     /\ panels' = Upserted(panels, upserts, FALSE)
     /\ Leave(m)
     /\ UNCHANGED <<companies, links>>

-----------------------------------------------------------------------------
(* Companies.                                                              *)

\* save_group
SaveGroup(g, login) ==
  /\ Arrive
  /\ companies[g].state = "absent"
  /\ companies' = [companies EXCEPT ![g] = [state |-> "open", login |-> login]]
  /\ UNCHANGED <<panels, links, errand, epc, apart>>

\* Mutant of GroupIsOpen: archived_at is not asked for.
GroupIsThere(g) == companies[g].state # "absent"

GroupIsOpen(g) == companies[g].state = "open"

\* update_group by an administrator; an empty password keeps the old one.
UpdateGroup(g) ==
  /\ Arrive
  /\ GroupIsOpen(g)
  /\ companies' = [companies EXCEPT ![g].login = TRUE]
  /\ UNCHANGED <<panels, links, errand, epc, apart>>

\* archive_group takes the panels away, not the programmings of its keys.
ArchiveGroup(g) ==
  /\ Arrive
  /\ GroupIsOpen(g)
  /\ companies' = [companies EXCEPT ![g] = [state |-> "archived", login |-> FALSE]]
  /\ links' = [i \in DOMAIN links |->
                 IF links[i].firm = g THEN [links[i] EXCEPT !.active = FALSE]
                                      ELSE links[i]]
  /\ UNCHANGED <<panels, errand, epc, apart>>

-----------------------------------------------------------------------------
(* Links of panels to companies.                                           *)

\* The newest detached link of a company and a panel, or 0.
OldLink(g, p) ==
  LET old == {i \in DOMAIN links : /\ links[i].firm = g /\ links[i].panel = p
                                   /\ ~links[i].active}
  IN IF old = {} THEN 0 ELSE CHOOSE i \in old : \A j \in old : j <= i

\* add_panel, up to its SELECTs.
ReadForAdd(m, g, p) ==
  /\ epc[m] = "idle" /\ Arrive
  /\ GroupIsOpen(g) /\ IsThere(p) /\ panels[p].enabled
  /\ Go(m, "add", [op |-> "add", firm |-> g, panel |-> p, old |-> OldLink(g, p)])
  /\ UNCHANGED <<panels, companies, links, apart>>

\* uq_uk_panel_links_panel_active
Reserved(p, i) ==
  \E j \in DOMAIN links : j # i /\ links[j].panel = p /\ links[j].active

\* The old link is taken up again, or a new one made; a panel that has been
\* taken or deleted since is refused by the index or the foreign key.
WriteLink(m) ==
  LET e == errand[m]
  IN /\ epc[m] = "add"
     /\ links' = IF Reserved(e.panel, e.old) \/ ~IsThere(e.panel) THEN links
                 ELSE IF e.old = 0 THEN Append(links, NewLink(e.firm, e.panel))
                 ELSE [links EXCEPT ![e.old].active = TRUE]
     /\ Leave(m)
     /\ UNCHANGED <<panels, companies>>

MayDetach(i) == links[i].active /\ ~links[i].programmed

\* remove_panel
ReadForDetach(m, i) ==
  /\ epc[m] = "idle" /\ Arrive
  /\ MayDetach(i)
  /\ Go(m, "detach", [op |-> "detach", link |-> i])
  /\ UNCHANGED <<panels, companies, links, apart>>

WriteDetached(m) ==
  /\ epc[m] = "detach"
  /\ links' = [links EXCEPT ![errand[m].link].active = FALSE]
  /\ Leave(m)
  /\ UNCHANGED <<panels, companies>>

\* create_key_issue and create_programming: the link is read, then a
\* programming inserted; it is active from then on.
ReadForProgramming(m, i) ==
  /\ epc[m] = "idle" /\ Arrive
  /\ links[i].active /\ GroupIsOpen(links[i].firm)
  /\ Go(m, "program", [op |-> "program", link |-> i])
  /\ UNCHANGED <<panels, companies, links, apart>>

WriteProgramming(m) ==
  /\ epc[m] = "program"
  /\ links' = [links EXCEPT ![errand[m].link].programmed = TRUE]
  /\ Leave(m)
  /\ UNCHANGED <<panels, companies>>

\* The last active programming of a link is unlinked or removed.
EndProgramming(i) ==
  /\ Arrive
  /\ links[i].programmed
  /\ links' = [links EXCEPT ![i].programmed = FALSE]
  /\ UNCHANGED <<panels, companies, errand, epc, apart>>

-----------------------------------------------------------------------------
PremisesNext ==
  \/ \E mac \in Macs, cell \in Cells \cup {NoCell} :
       SavePanel(mac, cell) \/ \E p \in PanelIds : EditPanel(p, mac, cell)
  \/ \E p \in PanelIds : TogglePanel(p) \/ DeletePanel(p)
  \/ \E g \in Firms : \/ \E login \in BOOLEAN : SaveGroup(g, login)
                      \/ UpdateGroup(g) \/ ArchiveGroup(g)
  \/ \E i \in DOMAIN links : EndProgramming(i)
  \/ \E m \in Managers :
       \/ \E file \in PanelFiles : ReadPanelFile(m, file)
       \/ \E g \in Firms, p \in PanelIds : ReadForAdd(m, g, p)
       \/ \E i \in DOMAIN links : ReadForDetach(m, i) \/ ReadForProgramming(m, i)
       \/ WritePanels(m) \/ WriteLink(m) \/ WriteDetached(m)
       \/ WriteProgramming(m) \/ LoseErrand(m)

PremisesSpec == PremisesInit /\ [][PremisesNext]_premisesVars

-----------------------------------------------------------------------------
(* Properties.                                                             *)

\* A panel has one active link at most and is there as long as it has any; an
\* archived company has no login whoever saves it at the same time.  When the
\* requests follow each other, an archived company "must not reserve its panels
\* forever" (uk_repository.py:377), and no key is programmed on a detached
\* panel, unless its company was archived with it.
OwnersAreSound ==
  /\ \A i \in DOMAIN links :
       /\ IsThere(links[i].panel)
       /\ links[i].active => ~Reserved(links[i].panel, i)
  /\ \A g \in Firms : companies[g].state = "archived" => ~companies[g].login
  /\ apart => \A i \in DOMAIN links :
       /\ links[i].active => GroupIsOpen(links[i].firm)
       /\ links[i].programmed /\ ~links[i].active
            => companies[links[i].firm].state = "archived"

\* What the file says of a panel in the end: its last cell that is not empty.
Told(file, mac, stored) ==
  FoldLeft(LAMBDA cell, row :
             IF row.mac = mac /\ row.cell # NoCell THEN row.cell ELSE cell,
           stored, file)

\* The import of panels counts each row once and, when nobody disturbed it,
\* leaves each panel of the file as the file says, empty cells apart; it never
\* touches another panel, nor the switch of one (importer.py:494-515).
PanelImportReported ==
  [][\A m \in Managers : WritePanels(m) =>
       LET plan == PlanOfErrand(m)
           file == errand[m].file
           named == {r.mac : r \in ToSet(file)} \cap Macs
           there == {p \in PanelIds : IsThere(p)}
       IN /\ plan.added + plan.updated + plan.skipped + plan.errors = Len(file)
          /\ \A p \in there :
               /\ panels'[p].enabled = panels[p].enabled
               /\ panels[p].mac \notin named => panels'[p] = panels[p]
          /\ errand[m].seen = panels =>
               /\ plan.added = Cardinality({p \in PanelIds : IsThere(p)'})
                                 - Cardinality(there)
               /\ \A mac \in named : \A p \in PanelOf(panels', mac) :
                    panels'[p].cell = Told(file, mac, panels[p].cell)
     ]_premisesVars
=============================================================================
