------------------------------ MODULE UkProofs ------------------------------
(***************************************************************************)
(* The company pages and the key card, for any keys, panels, operators,    *)
(* requests and bounds.  The tables keep their shape under every schedule  *)
(* (Typed, TablesFit), and no issue has two primaries, however the         *)
(* transactions of the operators overlap (PrimariesFit).  That the books   *)
(* follow the CRM holds where the tasks follow each other and the key card *)
(* keeps its distance (Orderly and ~Overlap): CompanyInv and what follows  *)
(* from it.  README.md says what these conditions exclude.                 *)
(***************************************************************************)
EXTENDS UkLifecycle, KeyLifecycleProofs

\* A transaction that takes a panel off the books has begun, and is not
\* committed.
TxLabels == {"promote", "pick", "crown", "empty", "commit"}

\* What an operator has in hand at each control point.
OperatorOK(o) ==
  /\ upc[o] \in {"create", "more"} => ureq[o].kind \in {"issue", "panel"}
  /\ upc[o] = "create" => ureq[o].key \in Keys
  /\ upc[o] = "more" => ureq[o].issue \in DOMAIN issues
  /\ upc[o] \in {"record", "row", "deactivate"} \cup TxLabels =>
       ureq[o].current \in DOMAIN programmings

Typed ==
  /\ TypeInv /\ Uk!UkTypeOK
  /\ schedule \in Schedules
  /\ \A o \in Operators : OperatorOK(o)

-----------------------------------------------------------------------------
(* The shape of the tables, under every schedule.                          *)

OneOpenIssue == \A i, j \in DOMAIN issues :
  /\ issues[i].key = issues[j].key
  /\ issues[i].status \in Uk!OpenStatuses /\ issues[j].status \in Uk!OpenStatuses
  => i = j

OnePerPanel == \A g, h \in DOMAIN programmings :
  /\ programmings[g].active /\ programmings[h].active
  /\ programmings[g].issue = programmings[h].issue
  /\ programmings[g].panel = programmings[h].panel
  => g = h

TablesFit == OneOpenIssue /\ OnePerPanel

-----------------------------------------------------------------------------
(* Whose turn it is.                                                       *)

ReleaseLabels ==
  {"idle", "find", "persist", "mark", "begin", "delete", "recordRow",
   "recordStep", "finalize", "close", "reply"}

\* The key card releases keys, and does nothing else.
ReleasesOnly == \A r \in Requests :
  pc[r] \in ReleaseLabels /\ (pc[r] # "idle" => req[r].kind = "release")

Turns ==
  /\ Apart
  /\ schedule.releases = 0 => \A r \in Requests : pc[r] = "idle"
  /\ schedule.alone => \A o, q \in Operators :
       o = q \/ upc[o] = "idle" \/ upc[q] = "idle"

-----------------------------------------------------------------------------
(* The books, where nothing is unlinked and one task follows the other.    *)

ActiveStatuses == {"pending", "success", "error"}

\* What an operator has still to ask the CRM, or to store.
Waiting(o) == IF upc[o] = "row" THEN ureq[o].queue \ {ureq[o].current}
                                ELSE ureq[o].queue

\* Its programmings are on the books, and those to be added wait for it; a
\* transaction it is in removes one, and closes the issue only with the last.
WaitingFits(o) == upc[o] # "idle" =>
  /\ \A g \in Waiting(o) :
       /\ programmings[g].active
       /\ Uk!Adds(o) => programmings[g].status \in {"pending", "error"}
  /\ upc[o] \in {"record"} \cup TxLabels => ureq[o].current \in ureq[o].queue
  /\ upc[o] # "deactivate"
  /\ upc[o] \in TxLabels => ureq[o].kind = "remove" /\ ureq[o].answer
  /\ upc[o] = "commit" /\ ureq[o].emptied => Uk!Left(o) = {}

\* A programming is active until it is removed, and its issue is open as long.
ActiveFits == \A g \in DOMAIN programmings :
  /\ programmings[g].active <=> programmings[g].status \in ActiveStatuses
  /\ programmings[g].status # "unlinked"
  /\ programmings[g].active =>
       issues[programmings[g].issue].status \in Uk!OpenStatuses

IssuedFits == \A i \in DOMAIN issues : issues[i].status = "active" =>
  keyStatus[issues[i].key] = "issued" /\ place[issues[i].key] = Company

IssuesFit ==
  ActiveFits /\ IssuedFits /\ \A o \in Operators : WaitingFits(o)

\* Of the programming in hand, what the CRM has said is what the CRM has.
AnswerFits(o) == upc[o] \in {"record", "row"} \cup TxLabels =>
  LET k == Uk!KeyOf(ureq[o].current) p == programmings[ureq[o].current].panel
  IN /\ Uk!Adds(o) /\ ~ureq[o].answer => p \notin crm[k] \/ p \in unconfirmed[k]
     /\ ~Uk!Adds(o) /\ ureq[o].answer => p \notin crm[k]

\* An operator has the confirmation of a create and is going to store it.
Adding(labels, k, p) == \E o \in Operators :
  /\ upc[o] \in labels /\ Uk!Adds(o) /\ ureq[o].answer
  /\ Uk!KeyOf(ureq[o].current) = k /\ programmings[ureq[o].current].panel = p

\* What the CRM lets a key open is a successful programming of it.
OnProgrammings(k) == \A p \in crm[k] :
  p \in Uk!Accounted(k) \/ p \in unconfirmed[k] \/ Adding({"record"}, k, p)

\* What the CRM lets a key open is a row of it.
OnRows(k) == \A p \in crm[k] :
  p \in Live(k) \/ p \in unconfirmed[k] \/ Adding({"record", "row"}, k, p)

CrmFits ==
  /\ \A o \in Operators : AnswerFits(o)
  /\ \A k \in Keys : OnProgrammings(k)
  /\ schedule.losses = 0 =>
       /\ \A k \in Keys : OnRows(k)
       /\ Disjoint /\ \A r \in Requests : InHand(r)

BooksFit == schedule.alone => IssuesFit /\ CrmFits

CompanyInv == Typed /\ TablesFit /\ ReleasesOnly /\ Turns /\ BooksFit

-----------------------------------------------------------------------------
(* What the operators on the tables do.                                    *)

\* The two modules read one store.
LEMMA SameStore ==
  /\ Uk!StoreTypeOK <=> StoreTypeOK
  /\ Uk!KeyStatuses = KeyStatuses
  /\ \A k : Uk!Live(k) = Live(k)
BY DEF Uk!StoreTypeOK, StoreTypeOK, Uk!Live, Live, Uk!LiveStates, LiveStates,
       Uk!KeyStatuses, KeyStatuses, Uk!RowStates, RowStates, Uk!Operations,
       Operations, Uk!OpTypes, OpTypes, Uk!OpStatuses, OpStatuses,
       Uk!StepStates, StepStates

\* The rows of the company's tables are numbered from 1.
LEMMA Rows ==
  ASSUME Uk!UkTypeOK
  PROVE  /\ DOMAIN issues = 1 .. Len(issues) /\ Len(issues) \in Nat
         /\ DOMAIN programmings = 1 .. Len(programmings) /\ Len(programmings) \in Nat
         /\ \A i \in DOMAIN issues : issues[i] \in Uk!Issues
         /\ \A g \in DOMAIN programmings :
              /\ programmings[g] \in Uk!Programmings
              /\ programmings[g].issue \in DOMAIN issues
              /\ Uk!KeyOf(g) \in Keys
<1>1. issues \in Seq(Uk!Issues) /\ programmings \in Seq(Uk!Programmings)
  BY DEF Uk!UkTypeOK
<1>2. \A i \in DOMAIN issues : issues[i] \in Uk!Issues
  BY <1>1, ElementOfSeq, LenProperties
<1>3. \A g \in DOMAIN programmings : programmings[g] \in Uk!Programmings
  BY <1>1, ElementOfSeq, LenProperties
<1> QED BY <1>1, <1>2, <1>3, LenProperties DEF Uk!UkTypeOK, Uk!KeyOf, Uk!Issues

\* A new row leaves the others as they are.
LEMMA Appended ==
  ASSUME NEW S, NEW table \in Seq(S), NEW e \in S
  PROVE  /\ Append(table, e) \in Seq(S)
         /\ Len(table) \in Nat /\ Len(table) + 1 \notin DOMAIN table
         /\ DOMAIN Append(table, e) = DOMAIN table \cup {Len(table) + 1}
         /\ \A n \in DOMAIN table : Append(table, e)[n] = table[n]
         /\ Append(table, e)[Len(table) + 1] = e
<1>1. /\ Append(table, e) \in Seq(S) /\ Len(Append(table, e)) = Len(table) + 1
      /\ \A n \in 1 .. Len(table) : Append(table, e)[n] = table[n]
      /\ Append(table, e)[Len(table) + 1] = e
  BY AppendProperties
<1>2. /\ Len(table) \in Nat /\ DOMAIN table = 1 .. Len(table)
      /\ DOMAIN Append(table, e) = 1 .. Len(Append(table, e))
  BY <1>1, LenProperties
<1> QED BY <1>1, <1>2

\* A table rewritten row by row is a table of the same length.
LEMMA Rewritten ==
  ASSUME NEW S, NEW table \in Seq(S), NEW new,
         DOMAIN new = DOMAIN table, new = [n \in DOMAIN table |-> new[n]],
         \A n \in DOMAIN table : new[n] \in S
  PROVE  new \in Seq(S)
<1>1. DOMAIN table = 1 .. Len(table) /\ Len(table) \in Nat
  BY LenProperties
<1> QED BY <1>1

\* Of some programmings, one is the oldest.
LEMMA OldestExists ==
  ASSUME NEW T \in SUBSET Nat, T # {}
  PROVE  \E g \in T : \A h \in T : g <= h
<1>1. IsWellFoundedOn(OpToRel(<, Nat), Nat)
  BY NatLessThanWellFounded
<1>2. PICK g \in T : \A h \in T : ~ (<<h, g>> \in OpToRel(<, Nat))
  BY <1>1, WFMin
<1>3. ASSUME NEW h \in T PROVE g <= h
  <2>1. ~ (h < g)
    BY <1>2 DEF OpToRel
  <2> QED BY <2>1
<1> QED BY <1>3

\* The panel picked for a primary is the oldest of those that are left.
LEMMA OldestPicked ==
  ASSUME Uk!UkTypeOK, NEW o \in Operators, Uk!Left(o) # {},
         NEW g, g = CHOOSE x \in Uk!Left(o) : \A h \in Uk!Left(o) : x <= h
  PROVE  g \in Uk!Left(o) /\ \A h \in Uk!Left(o) : g <= h
<1>1. Uk!Left(o) \in SUBSET Nat
  BY Rows DEF Uk!Left, Uk!ActiveOf
<1>2. \E x \in Uk!Left(o) : \A h \in Uk!Left(o) : x <= h
  BY <1>1, OldestExists
<1> QED BY <1>2

\* record_crm_result stores the status of one programming.
LEMMA StatusSet ==
  ASSUME Uk!UkTypeOK, NEW g \in DOMAIN programmings,
         NEW status \in Uk!ProgrammingStatuses, Uk!SetStatus(g, status)
  PROVE  /\ programmings' \in Seq(Uk!Programmings)
         /\ DOMAIN programmings' = DOMAIN programmings
         /\ \A h \in DOMAIN programmings :
              /\ programmings'[h].issue = programmings[h].issue
              /\ programmings'[h].panel = programmings[h].panel
              /\ programmings'[h].primary = programmings[h].primary
              /\ programmings'[h].active = programmings[h].active
              /\ programmings'[h].status =
                   IF h = g THEN status ELSE programmings[h].status
<1>1. /\ programmings \in Seq(Uk!Programmings)
      /\ \A h \in DOMAIN programmings : programmings[h] \in Uk!Programmings
  BY Rows DEF Uk!UkTypeOK
<1>2. programmings' = [programmings EXCEPT ![g].status = status]
  BY DEF Uk!SetStatus
<1>3. /\ DOMAIN programmings' = DOMAIN programmings
      /\ \A h \in DOMAIN programmings \ {g} : programmings'[h] = programmings[h]
      /\ programmings'[g] = [programmings[g] EXCEPT !.status = status]
  BY <1>1, <1>2
<1>4. /\ programmings'[g] \in Uk!Programmings
      /\ programmings'[g].issue = programmings[g].issue
      /\ programmings'[g].panel = programmings[g].panel
      /\ programmings'[g].primary = programmings[g].primary
      /\ programmings'[g].active = programmings[g].active
      /\ programmings'[g].status = status
  BY <1>1, <1>3 DEF Uk!Programmings
<1>5. \A h \in DOMAIN programmings : programmings'[h] \in Uk!Programmings
  BY <1>1, <1>3, <1>4
<1>6. programmings' = [n \in DOMAIN programmings |-> programmings'[n]]
  BY <1>1, <1>2
<1>7. programmings' \in Seq(Uk!Programmings)
  BY <1>1, <1>3, <1>5, <1>6, Rewritten
<1> QED BY <1>3, <1>4, <1>7

\* The transaction that takes a panel off the books changes the row of the panel
\* and makes another one primary, if it has chosen any.
LEMMA Committed ==
  ASSUME Uk!UkTypeOK, NEW o \in Operators, Uk!Commit(o)
  PROVE  /\ programmings' \in Seq(Uk!Programmings)
         /\ DOMAIN programmings' = DOMAIN programmings
         /\ \A h \in DOMAIN programmings :
              /\ programmings'[h].issue = programmings[h].issue
              /\ programmings'[h].panel = programmings[h].panel
              /\ programmings'[h].active <=>
                   programmings[h].active /\ h # ureq[o].current
              /\ programmings'[h].primary <=>
                   programmings[h].primary \/ h = ureq[o].chosen
              /\ programmings'[h].status =
                   IF h # ureq[o].current THEN programmings[h].status
                   ELSE IF ureq[o].kind = "remove" THEN "removed" ELSE "unlinked"
<1>1. /\ programmings \in Seq(Uk!Programmings)
      /\ \A h \in DOMAIN programmings : programmings[h] \in Uk!Programmings
  BY SMTT(60), Rows DEF Uk!UkTypeOK
<1> DEFINE status(h) ==
             IF h # ureq[o].current THEN programmings[h].status
             ELSE IF ureq[o].kind = "remove" THEN "removed" ELSE "unlinked"
<1>2. programmings' = [h \in DOMAIN programmings |->
        [programmings[h] EXCEPT !.active  = @ /\ h # ureq[o].current,
                                !.primary = @ \/ h = ureq[o].chosen,
                                !.status  = status(h)]]
  BY DEF Uk!Commit
<1>3. \A h \in DOMAIN programmings : status(h) \in Uk!ProgrammingStatuses
  BY <1>1 DEF Uk!Programmings, Uk!ProgrammingStatuses
<1> HIDE DEF status
<1>4. ASSUME NEW h \in DOMAIN programmings
      PROVE  /\ programmings'[h] \in Uk!Programmings
             /\ programmings'[h].issue = programmings[h].issue
             /\ programmings'[h].panel = programmings[h].panel
             /\ programmings'[h].active <=>
                  programmings[h].active /\ h # ureq[o].current
             /\ programmings'[h].primary <=>
                  programmings[h].primary \/ h = ureq[o].chosen
             /\ programmings'[h].status = status(h)
  <2>1. PICK active, primary :
          /\ active = (programmings[h].active /\ h # ureq[o].current)
          /\ primary = (programmings[h].primary \/ h = ureq[o].chosen)
    OBVIOUS
  <2>2. active \in BOOLEAN /\ primary \in BOOLEAN
    BY <2>1
  <2>3. programmings'[h] = [programmings[h] EXCEPT !.active = active,
                              !.primary = primary, !.status = status(h)]
    BY <1>2, <2>1
  <2>4. programmings[h] \in Uk!Programmings /\ status(h) \in Uk!ProgrammingStatuses
    BY <1>1, <1>3
  <2>5. /\ programmings'[h] \in Uk!Programmings
        /\ programmings'[h].issue = programmings[h].issue
        /\ programmings'[h].panel = programmings[h].panel
        /\ programmings'[h].active = active /\ programmings'[h].primary = primary
        /\ programmings'[h].status = status(h)
    BY <2>2, <2>3, <2>4 DEF Uk!Programmings
  <2> QED BY <2>1, <2>5
<1>5. DOMAIN programmings' = DOMAIN programmings
      /\ programmings' = [h \in DOMAIN programmings |-> programmings'[h]]
  BY <1>2
<1>6. programmings' \in Seq(Uk!Programmings)
  BY <1>1, <1>4, <1>5, Rewritten
<1> QED BY <1>4, <1>5, <1>6 DEF status

-----------------------------------------------------------------------------
(* The tables keep their shape.                                            *)

TablesTyped ==
  /\ issues \in Seq(Uk!Issues) /\ programmings \in Seq(Uk!Programmings)
  /\ \A g \in DOMAIN programmings : programmings[g].issue \in DOMAIN issues

\* A step that keeps the tables well formed and forgets no row of them.
TablesStep ==
  /\ DOMAIN issues \subseteq DOMAIN issues'
  /\ DOMAIN programmings \subseteq DOMAIN programmings'
  /\ TablesTyped' /\ TablesFit'

\* A step on the same rows, which no programming comes back to life by, keeps
\* one active programming per panel of an issue.
LEMMA PanelsKept ==
  ASSUME OnePerPanel, DOMAIN programmings' = DOMAIN programmings,
         \A g \in DOMAIN programmings :
           /\ programmings'[g].issue = programmings[g].issue
           /\ programmings'[g].panel = programmings[g].panel
           /\ programmings'[g].active => programmings[g].active
  PROVE  OnePerPanel'
BY DEF OnePerPanel

\* The status of an issue changes, and stays or becomes closed, or nothing else
\* of its key is open.
LEMMA IssueSet ==
  ASSUME Uk!UkTypeOK, OneOpenIssue, NEW i \in DOMAIN issues,
         NEW status \in Uk!IssueStatuses,
         issues' = [issues EXCEPT ![i].status = status],
         status \in Uk!OpenStatuses => ~Uk!Conflict(i)
  PROVE  /\ issues' \in Seq(Uk!Issues) /\ DOMAIN issues' = DOMAIN issues
         /\ \A j \in DOMAIN issues :
              /\ issues'[j].key = issues[j].key
              /\ issues'[j].status = IF j = i THEN status ELSE issues[j].status
         /\ OneOpenIssue'
<1>1. issues \in Seq(Uk!Issues) /\ \A j \in DOMAIN issues : issues[j] \in Uk!Issues
  BY Rows DEF Uk!UkTypeOK
<1>2. /\ DOMAIN issues' = DOMAIN issues
      /\ \A j \in DOMAIN issues \ {i} : issues'[j] = issues[j]
      /\ issues'[i] = [issues[i] EXCEPT !.status = status]
  BY <1>1
<1>3. /\ issues'[i] \in Uk!Issues
      /\ issues'[i].key = issues[i].key /\ issues'[i].status = status
  BY <1>1, <1>2 DEF Uk!Issues
<1>4. \A j \in DOMAIN issues : issues'[j] \in Uk!Issues
  BY <1>1, <1>2, <1>3
<1>5. issues' = [j \in DOMAIN issues |-> issues'[j]]
  BY <1>1
<1>6. issues' \in Seq(Uk!Issues)
  BY <1>1, <1>2, <1>4, <1>5, Rewritten
<1>7. \A j \in DOMAIN issues :
        /\ issues'[j].key = issues[j].key
        /\ issues'[j].status = IF j = i THEN status ELSE issues[j].status
  BY <1>2, <1>3
<1>8. status \in Uk!OpenStatuses => \A j \in DOMAIN issues \ {i} :
        issues[j].key = issues[i].key => issues[j].status \notin Uk!OpenStatuses
  BY DEF Uk!Conflict, Uk!OpenIssues
<1>9. OneOpenIssue'
  <2> SUFFICES ASSUME NEW x \in DOMAIN issues, NEW y \in DOMAIN issues,
                      issues'[x].key = issues'[y].key,
                      issues'[x].status \in Uk!OpenStatuses,
                      issues'[y].status \in Uk!OpenStatuses
               PROVE  x = y
    BY <1>2 DEF OneOpenIssue
  <2>1. CASE x # i /\ y # i
    BY <1>7, <2>1 DEF OneOpenIssue
  <2>2. CASE x = i \/ y = i
    BY <1>7, <1>8, <2>2
  <2> QED BY <2>1, <2>2
<1> QED BY <1>2, <1>6, <1>7, <1>9

\* Where nothing of the tables changes, their shape does not.
LEMMA TablesKept ==
  ASSUME Uk!UkTypeOK, TablesFit, UNCHANGED <<issues, programmings>>
  PROVE  TablesStep
BY DEF Uk!UkTypeOK, TablesStep, TablesTyped, TablesFit, OneOpenIssue, OnePerPanel

\* The result of a call is stored.
LEMMA StatusTables ==
  ASSUME Uk!UkTypeOK, TablesFit, NEW g \in DOMAIN programmings,
         NEW status \in Uk!ProgrammingStatuses, Uk!SetStatus(g, status),
         \/ UNCHANGED issues
         \/ /\ ~Uk!Conflict(programmings[g].issue)
            /\ issues' = [issues EXCEPT ![programmings[g].issue].status = "active"]
  PROVE  TablesStep
<1>1. programmings[g].issue \in DOMAIN issues
  BY Rows
<1>2. /\ programmings' \in Seq(Uk!Programmings)
      /\ DOMAIN programmings' = DOMAIN programmings
      /\ \A h \in DOMAIN programmings :
           /\ programmings'[h].issue = programmings[h].issue
           /\ programmings'[h].panel = programmings[h].panel
           /\ programmings'[h].active = programmings[h].active
  BY StatusSet
<1>3. OnePerPanel'
  BY <1>2, PanelsKept DEF TablesFit
<1>4. issues' \in Seq(Uk!Issues) /\ DOMAIN issues' = DOMAIN issues /\ OneOpenIssue'
  <2>1. CASE UNCHANGED issues
    BY <2>1 DEF Uk!UkTypeOK, TablesFit, OneOpenIssue
  <2>2. CASE /\ ~Uk!Conflict(programmings[g].issue)
             /\ issues' = [issues EXCEPT ![programmings[g].issue].status = "active"]
    <3>1. "active" \in Uk!IssueStatuses
      BY DEF Uk!IssueStatuses
    <3> QED BY <1>1, <2>2, <3>1, IssueSet DEF TablesFit
  <2> QED BY <2>1, <2>2
<1>5. \A h \in DOMAIN programmings' : programmings'[h].issue \in DOMAIN issues'
  BY <1>2, <1>4, Rows
<1> QED BY <1>2, <1>3, <1>4, <1>5 DEF TablesStep, TablesTyped, TablesFit

\* A programming goes off the books, and its issue may be closed.
LEMMA CommitTables ==
  ASSUME Uk!UkTypeOK, TablesFit, NEW o \in Operators, Uk!Commit(o),
         ureq[o].current \in DOMAIN programmings
  PROVE  TablesStep
<1>1. PICK g \in DOMAIN programmings : g = ureq[o].current
  OBVIOUS
<1>2. programmings[g].issue \in DOMAIN issues
  BY Rows
<1>3. /\ programmings' \in Seq(Uk!Programmings)
      /\ DOMAIN programmings' = DOMAIN programmings
      /\ \A h \in DOMAIN programmings :
           /\ programmings'[h].issue = programmings[h].issue
           /\ programmings'[h].panel = programmings[h].panel
           /\ programmings'[h].active => programmings[h].active
  BY Committed
<1>4. OnePerPanel'
  BY SMTT(60), <1>3, PanelsKept DEF TablesFit
<1>5. issues' \in Seq(Uk!Issues) /\ DOMAIN issues' = DOMAIN issues /\ OneOpenIssue'
  <2>1. CASE UNCHANGED issues
    BY <2>1 DEF Uk!UkTypeOK, TablesFit, OneOpenIssue
  <2>2. CASE issues' = [issues EXCEPT ![programmings[g].issue].status = "released"]
    <3>1. "released" \in Uk!IssueStatuses /\ "released" \notin Uk!OpenStatuses
      BY DEF Uk!IssueStatuses, Uk!OpenStatuses
    <3> QED BY <1>2, <2>2, <3>1, IssueSet DEF TablesFit
  <2> QED BY <1>1, <2>1, <2>2 DEF Uk!Commit
<1>6. \A h \in DOMAIN programmings' : programmings'[h].issue \in DOMAIN issues'
  BY <1>3, <1>5, Rows
<1> QED BY <1>3, <1>4, <1>5, <1>6 DEF TablesStep, TablesTyped, TablesFit

\* create_programming: a pending programming of an issue that has none active
\* on the panel.
LEMMA ProgrammingTables ==
  ASSUME Uk!UkTypeOK, TablesFit, NEW i \in DOMAIN issues', NEW p \in Panels,
         NEW primary \in BOOLEAN,
         programmings' = Append(programmings, Uk!NewProgramming(i, p, primary)),
         DOMAIN issues \subseteq DOMAIN issues', issues' \in Seq(Uk!Issues),
         OneOpenIssue',
         \A g \in Uk!ActiveOf(programmings, i) : programmings[g].panel # p
  PROVE  TablesStep
<1> DEFINE new == Uk!NewProgramming(i, p, primary)
<1>1. i \in Nat
  BY LenProperties
<1>2. /\ new \in Uk!Programmings /\ new.issue = i /\ new.panel = p
      /\ new.primary = primary /\ new.active
  BY <1>1 DEF Uk!NewProgramming, Uk!Programmings, Uk!ProgrammingStatuses
<1> HIDE DEF new
<1>3. PICK n : n = Len(programmings) + 1
  OBVIOUS
<1>4. /\ programmings' \in Seq(Uk!Programmings)
      /\ n \notin DOMAIN programmings
      /\ DOMAIN programmings' = DOMAIN programmings \cup {n}
      /\ \A g \in DOMAIN programmings : programmings'[g] = programmings[g]
      /\ programmings'[n] = new
  BY <1>2, <1>3, Appended DEF new, Uk!UkTypeOK
<1>5. \A g \in DOMAIN programmings :
        programmings[g].active /\ programmings[g].issue = i =>
          programmings[g].panel # p
  BY DEF Uk!ActiveOf
<1>6. OnePerPanel'
  BY <1>2, <1>4, <1>5 DEF TablesFit, OnePerPanel
<1>7. \A g \in DOMAIN programmings' : programmings'[g].issue \in DOMAIN issues'
  BY <1>2, <1>4, Rows
<1> QED BY <1>4, <1>6, <1>7 DEF TablesStep, TablesTyped, TablesFit

\* create_key_issue: the key has no open issue before.
LEMMA IssueTables ==
  ASSUME Uk!UkTypeOK, TablesFit, NEW k \in Keys, NEW p \in Panels,
         Uk!CanIssue(k),
         issues' = Append(issues, [key |-> k, status |-> "pending"]),
         programmings' = Append(programmings,
                                Uk!NewProgramming(Len(issues) + 1, p, TRUE))
  PROVE  TablesStep
<1> DEFINE new == [key |-> k, status |-> "pending"]
<1>1. new \in Uk!Issues /\ new.key = k /\ new.status = "pending"
  BY DEF Uk!Issues, Uk!IssueStatuses
<1> HIDE DEF new
<1>2. PICK n : n = Len(issues) + 1
  OBVIOUS
<1>3. /\ issues' \in Seq(Uk!Issues) /\ n \notin DOMAIN issues
      /\ DOMAIN issues' = DOMAIN issues \cup {n}
      /\ \A i \in DOMAIN issues : issues'[i] = issues[i]
      /\ issues'[n] = new
  BY <1>1, <1>2, Appended DEF new, Uk!UkTypeOK
<1>4. \A i \in DOMAIN issues : issues[i].key = k => issues[i].status \notin Uk!OpenStatuses
  BY DEF Uk!CanIssue, Uk!OpenIssues
<1>5. OneOpenIssue'
  BY <1>1, <1>3, <1>4 DEF TablesFit, OneOpenIssue
<1>6. Uk!ActiveOf(programmings, n) = {}
  BY <1>3, Rows DEF Uk!ActiveOf
<1> QED BY <1>2, <1>3, <1>5, <1>6, ProgrammingTables

\* finalize_release closes the open issues of a key, with their programmings.
LEMMA IssuesClosed ==
  ASSUME Uk!UkTypeOK, NEW k \in Keys, Uk!CloseIssues(k)
  PROVE  /\ issues' \in Seq(Uk!Issues) /\ DOMAIN issues' = DOMAIN issues
         /\ \A i \in DOMAIN issues :
              /\ issues'[i].key = issues[i].key
              /\ issues'[i].status =
                   IF issues[i].key = k THEN "released" ELSE issues[i].status
         /\ programmings' \in Seq(Uk!Programmings)
         /\ DOMAIN programmings' = DOMAIN programmings
         /\ \A g \in DOMAIN programmings :
              /\ programmings'[g].issue = programmings[g].issue
              /\ programmings'[g].panel = programmings[g].panel
              /\ programmings'[g].primary = programmings[g].primary
              /\ programmings'[g].active <=> programmings[g].active /\ Uk!KeyOf(g) # k
              /\ programmings'[g].status =
                   IF programmings[g].active /\ Uk!KeyOf(g) = k THEN "removed"
                                                  ELSE programmings[g].status
<1>1. /\ issues \in Seq(Uk!Issues) /\ \A i \in DOMAIN issues : issues[i] \in Uk!Issues
      /\ programmings \in Seq(Uk!Programmings)
      /\ \A g \in DOMAIN programmings : programmings[g] \in Uk!Programmings
  BY Rows DEF Uk!UkTypeOK
<1>2. DOMAIN issues' = DOMAIN issues /\ DOMAIN programmings' = DOMAIN programmings
  BY DEF Uk!CloseIssues
<1>3. ASSUME NEW i \in DOMAIN issues
      PROVE  /\ issues'[i] \in Uk!Issues
             /\ issues'[i].key = issues[i].key
             /\ issues'[i].status =
                  IF issues[i].key = k THEN "released" ELSE issues[i].status
  <2>1. issues[i] \in Uk!Issues
    BY <1>1
  <2>2. CASE i \in Uk!OpenIssues(k)
    <3>1. issues'[i] = [issues[i] EXCEPT !.status = "released"] /\ issues[i].key = k
      BY <2>2 DEF Uk!CloseIssues, Uk!OpenIssues
    <3> QED BY <2>1, <3>1 DEF Uk!Issues, Uk!IssueStatuses
  <2>3. CASE i \notin Uk!OpenIssues(k)
    <3>1. issues'[i] = issues[i]
      BY <2>3 DEF Uk!CloseIssues
    <3>2. issues[i].key = k => issues[i].status = "released"
      BY <2>1, <2>3 DEF Uk!OpenIssues, Uk!Issues, Uk!IssueStatuses, Uk!OpenStatuses
    <3> QED BY <2>1, <3>1, <3>2
  <2> QED BY <2>2, <2>3
<1>4. ASSUME NEW g \in DOMAIN programmings
      PROVE  /\ programmings'[g] \in Uk!Programmings
             /\ programmings'[g].issue = programmings[g].issue
             /\ programmings'[g].panel = programmings[g].panel
             /\ programmings'[g].primary = programmings[g].primary
             /\ programmings'[g].active <=> programmings[g].active /\ Uk!KeyOf(g) # k
             /\ programmings'[g].status =
                  IF programmings[g].active /\ Uk!KeyOf(g) = k THEN "removed"
                                                 ELSE programmings[g].status
  <2>1. programmings[g] \in Uk!Programmings
    BY <1>1
  <2>2. CASE Uk!KeyOf(g) = k /\ programmings[g].active
    <3>1. programmings'[g] = [programmings[g] EXCEPT !.active = FALSE,
                                                     !.status = "removed"]
      BY <2>2 DEF Uk!CloseIssues
    <3>2. /\ programmings'[g] \in Uk!Programmings
          /\ programmings'[g].issue = programmings[g].issue
          /\ programmings'[g].panel = programmings[g].panel
          /\ programmings'[g].primary = programmings[g].primary
          /\ programmings'[g].active = FALSE
          /\ programmings'[g].status = "removed"
      BY <2>1, <3>1 DEF Uk!Programmings, Uk!ProgrammingStatuses
    <3> QED BY <2>2, <3>2
  <2>3. CASE ~(Uk!KeyOf(g) = k /\ programmings[g].active)
    <3>1. programmings'[g] = programmings[g]
      BY <2>3 DEF Uk!CloseIssues
    <3> QED BY <2>1, <2>3, <3>1
  <2> QED BY <2>2, <2>3
<1>5. issues' \in Seq(Uk!Issues)
  <2>1. issues' = [i \in DOMAIN issues |-> issues'[i]]
    BY DEF Uk!CloseIssues
  <2> QED BY <1>1, <1>2, <1>3, <2>1, Rewritten
<1>6. programmings' \in Seq(Uk!Programmings)
  <2>1. programmings' = [g \in DOMAIN programmings |-> programmings'[g]]
    BY DEF Uk!CloseIssues
  <2> QED BY <1>1, <1>2, <1>4, <2>1, Rewritten
<1> QED BY <1>2, <1>3, <1>4, <1>5, <1>6

\* So the tables keep their shape when the key card releases a key.
LEMMA ClosingTables ==
  ASSUME Uk!UkTypeOK, TablesFit, NEW k \in Keys, Uk!CloseIssues(k)
  PROVE  TablesStep
<1>1. /\ issues' \in Seq(Uk!Issues) /\ DOMAIN issues' = DOMAIN issues
      /\ \A i \in DOMAIN issues :
           /\ issues'[i].key = issues[i].key
           /\ issues'[i].status =
                IF issues[i].key = k THEN "released" ELSE issues[i].status
      /\ programmings' \in Seq(Uk!Programmings)
      /\ DOMAIN programmings' = DOMAIN programmings
      /\ \A g \in DOMAIN programmings :
           /\ programmings'[g].issue = programmings[g].issue
           /\ programmings'[g].panel = programmings[g].panel
           /\ programmings'[g].active => programmings[g].active
  BY IssuesClosed
<1>2. OneOpenIssue'
  BY <1>1 DEF TablesFit, OneOpenIssue, Uk!OpenStatuses
<1>3. OnePerPanel'
  BY <1>1, PanelsKept DEF TablesFit
<1>4. \A g \in DOMAIN programmings' : programmings'[g].issue \in DOMAIN issues'
  BY <1>1, Rows
<1> QED BY <1>1, <1>2, <1>3, <1>4 DEF TablesStep, TablesTyped, TablesFit

\* The statements of a transaction before its commit: the UPDATE of the row, and
\* the reads and the UPDATE that follow.
Transacts(o) ==
  \/ Uk!Deactivate(o) \/ Uk!SeekPrimary(o) \/ Uk!PickOldest(o)
  \/ Uk!PromotePrimary(o) \/ Uk!SeekActive(o)

\* Nobody sees what they do.
LEMMA TransactsOnly ==
  ASSUME NEW o \in Operators, Transacts(o)
  PROVE  UNCHANGED <<keyStatus, assignment, place, serial, row, ops, crm,
                     unconfirmed, Uk!company, tasks, losses>>
BY DEF Transacts, Uk!Deactivate, Uk!SeekPrimary, Uk!PickOldest, Uk!PromotePrimary,
       Uk!SeekActive, Uk!Go

\* Whatever an operator does, the tables keep their shape.
LEMMA OperateTables ==
  ASSUME Typed, TablesFit, NEW o \in Operators, Uk!Operate(o)
  PROVE  TablesStep
<1>0. /\ Uk!UkTypeOK /\ OperatorOK(o) /\ ureq[o] \in Uk!UkRequests
      /\ {"success", "error", "removed"} \subseteq Uk!ProgrammingStatuses
  BY DEF Typed, Uk!UkTypeOK, Uk!ProgrammingStatuses
<1>1. CASE \/ Uk!StartIssue(o) \/ Uk!StartPanel(o) \/ Uk!StartRetry(o)
           \/ Uk!StartRemove(o) \/ Uk!StartUnlink(o) \/ Uk!CreateRefused(o)
           \/ \E g \in DOMAIN programmings : Uk!Call(o, g)
           \/ Transacts(o) \/ Uk!RecordPanel(o) \/ Uk!Lose(o)
  <2>1. UNCHANGED <<issues, programmings>>
    <3>1. CASE \/ Uk!StartIssue(o) \/ Uk!StartPanel(o) \/ Uk!StartRetry(o)
               \/ Uk!StartRemove(o) \/ Uk!StartUnlink(o)
      BY <3>1 DEF Uk!StartIssue, Uk!StartPanel, Uk!StartRetry, Uk!StartRemove,
         Uk!StartUnlink, Uk!StartOn, Uk!StartTask, Uk!company
    <3>2. CASE \E g \in DOMAIN programmings : Uk!Call(o, g)
      BY <3>2 DEF Uk!Call, Uk!company
    <3>3. CASE Uk!CreateRefused(o) \/ Uk!RecordPanel(o) \/ Uk!Lose(o)
      BY <3>3 DEF Uk!CreateRefused, Uk!RecordPanel, Uk!Lose, Uk!company
    <3>4. CASE Transacts(o)
      BY <3>4, TransactsOnly DEF Uk!company
    <3> QED BY SMTT(60), <1>1, <3>1, <3>2, <3>3, <3>4
  <2> QED BY SMTT(60), <1>0, <2>1, TablesKept
<1>2. CASE \E p \in Panels : Uk!CreateIssue(o, p)
  <2>1. PICK p \in Panels : Uk!CreateIssue(o, p)
    BY <1>2
  <2>2. /\ ureq[o].key \in Keys /\ Uk!CanIssue(ureq[o].key)
        /\ issues' = Append(issues, [key |-> ureq[o].key, status |-> "pending"])
        /\ programmings' = Append(programmings,
                                  Uk!NewProgramming(Len(issues) + 1, p, TRUE))
    BY <1>0, <2>1 DEF Uk!CreateIssue, Uk!AddProgramming, OperatorOK
  <2> QED BY <1>0, <2>2, IssueTables
<1>3. CASE \E p \in Panels : Uk!CreateProgramming(o, p)
  <2>1. PICK p \in Panels : Uk!CreateProgramming(o, p)
    BY <1>3
  <2>2. PICK i : i = ureq[o].issue
    OBVIOUS
  <2>3. /\ i \in DOMAIN issues' /\ issues' = issues
        /\ programmings' = Append(programmings, Uk!NewProgramming(i, p, FALSE))
        /\ \A g \in Uk!ActiveOf(programmings, i) : programmings[g].panel # p
    BY <1>0, <2>1, <2>2 DEF Uk!CreateProgramming, Uk!AddProgramming, Uk!CanProgram,
                            OperatorOK
  <2>4. OneOpenIssue' /\ issues' \in Seq(Uk!Issues)
    BY SMTT(60), <1>0, <2>3 DEF Uk!UkTypeOK, TablesFit, OneOpenIssue
  <2> QED BY <1>0, <2>3, <2>4, ProgrammingTables
<1>4. CASE Uk!RecordAdded(o)
  <2>1. PICK g \in DOMAIN programmings : g = ureq[o].current
    BY <1>0, <1>4 DEF Uk!RecordAdded, OperatorOK
  <2> QED BY ZenonT(60), <1>0, <1>4, <2>1, StatusTables DEF Uk!RecordAdded
<1>5. CASE Uk!RecordConflict(o) \/ Uk!RecordFailed(o)
  <2>1. PICK g \in DOMAIN programmings : g = ureq[o].current
    BY <1>0, <1>5 DEF Uk!RecordConflict, Uk!RecordFailed, OperatorOK
  <2>2. UNCHANGED issues /\ (Uk!SetStatus(g, "error") \/ UNCHANGED programmings)
    BY <1>5, <2>1 DEF Uk!RecordConflict, Uk!RecordFailed
  <2> QED BY <1>0, <2>2, StatusTables, TablesKept
<1>6. CASE Uk!Commit(o)
  <2>1. ureq[o].current \in DOMAIN programmings
    BY <1>0, <1>6 DEF Uk!Commit, OperatorOK, TxLabels
  <2> QED BY <1>0, <1>6, <2>1, CommitTables
<1> QED BY <1>1, <1>2, <1>3, <1>4, <1>5, <1>6 DEF Uk!Operate, Transacts

-----------------------------------------------------------------------------
(* Types.                                                                  *)

\* A step of one operator leaves the others where they are.
OnlyOperator(o) == \A q \in Operators \ {o} : upc'[q] = upc[q] /\ ureq'[q] = ureq[q]

\* Where an operator goes on, and what it takes along.
ControlStep(o) ==
  /\ upc' \in [Operators -> Uk!UkLabels]
  /\ ureq' \in [Operators -> Uk!UkRequests']
  /\ OnlyOperator(o) /\ OperatorOK(o)'

\* An operator notes a request and goes on.
LEMMA NoteTyped ==
  ASSUME Typed, TablesStep, NEW o \in Operators, NEW label \in Uk!UkLabels,
         NEW request \in Uk!UkRequests', Uk!At(o, label), Uk!Note(o, request)
  PROVE  /\ upc' \in [Operators -> Uk!UkLabels]
         /\ ureq' \in [Operators -> Uk!UkRequests']
         /\ OnlyOperator(o) /\ upc'[o] = label /\ ureq'[o] = request
<1>1. /\ upc \in [Operators -> Uk!UkLabels]
      /\ ureq \in [Operators -> Uk!UkRequests]
  BY DEF Typed, Uk!UkTypeOK, Uk!UkLabels
<1>2. \A q \in Uk!UkRequests : q \in Uk!UkRequests'
  BY DEF TablesStep, Uk!UkRequests
<1>3. \A q \in Operators \ {o} : ureq[q] \in Uk!UkRequests'
  BY <1>1, <1>2
<1>4. upc' = [upc EXCEPT ![o] = label] /\ ureq' = [ureq EXCEPT ![o] = request]
  BY DEF Uk!At, Uk!Note
<1> HIDE DEF Uk!UkRequests
<1> QED BY <1>1, <1>3, <1>4 DEF OnlyOperator

\* A task that ends leaves nothing in hand.
LEMMA FinishTyped ==
  ASSUME Typed, TablesStep, NEW o \in Operators, Uk!Finish(o)
  PROVE  ControlStep(o) /\ upc'[o] = "idle"
<1>1. Uk!Idle \in Uk!UkRequests'
  BY DEF Uk!Idle, Uk!UkRequests
<1>2. "idle" \in Uk!UkLabels
  BY DEF Uk!UkLabels
<1> QED BY <1>1, <1>2, NoteTyped DEF Uk!Finish, ControlStep, OperatorOK, TxLabels

\* An operator goes on with the same request.
LEMMA AtTyped ==
  ASSUME Typed, TablesStep, NEW o \in Operators, NEW label \in Uk!UkLabels,
         Uk!At(o, label), UNCHANGED ureq
  PROVE  /\ upc' \in [Operators -> Uk!UkLabels]
         /\ ureq' \in [Operators -> Uk!UkRequests']
         /\ OnlyOperator(o) /\ upc'[o] = label
<1>1. /\ upc \in [Operators -> Uk!UkLabels]
      /\ ureq \in [Operators -> Uk!UkRequests]
  BY DEF Typed, Uk!UkTypeOK, Uk!UkLabels
<1>2. \A q \in Uk!UkRequests : q \in Uk!UkRequests'
  BY DEF TablesStep, Uk!UkRequests
<1>3. ureq' \in [Operators -> Uk!UkRequests']
  BY <1>1, <1>2
<1> QED BY <1>1, <1>3 DEF Uk!At, OnlyOperator

\* A task of a kind is noted with the request of the page.
LEMMA TaskTyped ==
  ASSUME NEW q \in Uk!UkRequests', NEW kind \in Uk!TaskKinds
  PROVE  LET request == [q EXCEPT !.kind = kind]
         IN /\ request \in Uk!UkRequests' /\ request.kind = kind
            /\ request.issue = q.issue /\ request.key = q.key
            /\ request.queue = q.queue /\ request.current = q.current
            /\ request.chosen = q.chosen
BY DEF Uk!UkRequests

\* A click starts a task with what the page has offered.
LEMMA StartedTyped ==
  ASSUME Typed, TablesStep, NEW o \in Operators,
         \/ Uk!StartIssue(o) \/ Uk!StartPanel(o) \/ Uk!StartRetry(o)
         \/ Uk!StartRemove(o) \/ Uk!StartUnlink(o)
  PROVE  ControlStep(o) /\ ureq'[o].chosen = 0 /\ upc'[o] # "pick"
<1>0. /\ DOMAIN issues \subseteq Nat /\ \A i \in DOMAIN issues : issues[i].key \in Keys
      /\ \A g \in DOMAIN programmings :
           programmings[g].issue \in DOMAIN issues /\ Uk!KeyOf(g) \in Keys
  BY Rows DEF Typed, Uk!Issues
<1>1. CASE Uk!StartIssue(o)
  <2>1. PICK k \in Keys, panels \in (SUBSET Panels) \ {{}} :
          Uk!StartTask(o, "issue", "create", [Uk!Idle EXCEPT !.key = k, !.more = panels])
    BY <1>1 DEF Uk!StartIssue
  <2> DEFINE asked == [Uk!Idle EXCEPT !.key = k, !.more = panels]
             request == [asked EXCEPT !.kind = "issue"]
  <2>2. asked \in Uk!UkRequests' /\ asked.key = k /\ asked.chosen = 0
    BY DEF Uk!Idle, Uk!UkRequests
  <2>3. Uk!At(o, "create") /\ Uk!Note(o, request)
    BY <2>1 DEF Uk!StartTask
  <2> HIDE DEF asked
  <2>4. request \in Uk!UkRequests' /\ request.kind = "issue" /\ request.key \in Keys
        /\ request.chosen = 0
    BY <2>2, TaskTyped DEF Uk!TaskKinds
  <2> HIDE DEF request
  <2>5. "create" \in Uk!UkLabels
    BY DEF Uk!UkLabels
  <2> QED BY <2>3, <2>4, <2>5, NoteTyped DEF ControlStep, OperatorOK, TxLabels
<1>2. CASE Uk!StartPanel(o)
  <2>1. PICK i \in DOMAIN issues, p \in Panels :
          Uk!StartTask(o, "panel", "more",
            [Uk!Idle EXCEPT !.issue = i, !.key = issues[i].key, !.more = {p}])
    BY <1>2 DEF Uk!StartPanel
  <2> DEFINE asked == [Uk!Idle EXCEPT !.issue = i, !.key = issues[i].key,
                                      !.more = {p}]
             request == [asked EXCEPT !.kind = "panel"]
  <2>2. asked \in Uk!UkRequests' /\ asked.issue = i /\ asked.chosen = 0
    BY <1>0 DEF Uk!Idle, Uk!UkRequests
  <2>3. Uk!At(o, "more") /\ Uk!Note(o, request)
    BY <2>1 DEF Uk!StartTask
  <2> HIDE DEF asked
  <2>4. request \in Uk!UkRequests' /\ request.kind = "panel"
        /\ request.issue \in DOMAIN issues' /\ request.chosen = 0
    BY <2>2, TaskTyped DEF TablesStep, Uk!TaskKinds
  <2> HIDE DEF request
  <2>5. "more" \in Uk!UkLabels
    BY DEF Uk!UkLabels
  <2> QED BY <2>3, <2>4, <2>5, NoteTyped DEF ControlStep, OperatorOK, TxLabels
<1>3. CASE Uk!StartRetry(o) \/ Uk!StartRemove(o) \/ Uk!StartUnlink(o)
  <2>1. PICK g \in DOMAIN programmings, kind \in {"retry", "remove", "unlink"},
             label \in {"call", "deactivate"} : Uk!StartOn(o, kind, label, g)
    BY <1>3 DEF Uk!StartRetry, Uk!StartRemove, Uk!StartUnlink
  <2> DEFINE asked == [Uk!Idle EXCEPT !.issue = programmings[g].issue,
                                      !.key = Uk!KeyOf(g), !.queue = {g},
                                      !.current = g]
             request == [asked EXCEPT !.kind = kind]
  <2>2. asked \in Uk!UkRequests' /\ asked.current = g /\ asked.chosen = 0
    BY <1>0 DEF Uk!Idle, Uk!UkRequests, TablesStep
  <2>3. Uk!At(o, label) /\ Uk!Note(o, request)
    BY <2>1 DEF Uk!StartOn, Uk!StartTask
  <2> HIDE DEF asked
  <2>4. request \in Uk!UkRequests' /\ request.current = g /\ request.chosen = 0
    <3>1. kind \in Uk!TaskKinds
      BY DEF Uk!TaskKinds
    <3> QED BY <2>2, <3>1, TaskTyped
  <2> HIDE DEF request
  <2>5. label \in Uk!UkLabels /\ g \in DOMAIN programmings'
    BY DEF Uk!UkLabels, TablesStep
  <2> QED BY <2>3, <2>4, <2>5, NoteTyped DEF ControlStep, OperatorOK, TxLabels
<1> QED BY <1>1, <1>2, <1>3

\* A programming is added, and the next panel or the calls follow.
LEMMA CreatedTyped ==
  ASSUME Typed, TablesStep, NEW o \in Operators, NEW i \in DOMAIN issues',
         NEW p \in Panels, NEW primary,
         ureq[o].kind \in {"issue", "panel"},
         DOMAIN programmings' = DOMAIN programmings \cup {Len(programmings) + 1},
         Uk!AddProgramming(o, i, p, primary)
  PROVE  ControlStep(o)
<1>1. ureq[o] \in Uk!UkRequests /\ i \in Nat
  BY LenProperties DEF Typed, Uk!UkTypeOK, TablesStep, TablesTyped
<1>2. PICK n : n = Len(programmings) + 1
  OBVIOUS
<1> DEFINE request == [ureq[o] EXCEPT !.issue = i, !.more = @ \ {p},
                                      !.queue = @ \cup {n}]
           label == IF ureq[o].more = {p} THEN "call" ELSE "more"
<1>3. Uk!Note(o, request) /\ Uk!At(o, label)
  BY <1>2 DEF Uk!AddProgramming
<1>4. /\ DOMAIN programmings \subseteq DOMAIN programmings'
      /\ n \in DOMAIN programmings'
  BY <1>2
<1>5. request \in Uk!UkRequests' /\ request.kind \in {"issue", "panel"}
      /\ request.issue = i
  BY <1>1, <1>4 DEF Uk!UkRequests
<1> HIDE DEF request
<1>6. label \in Uk!UkLabels /\ label \in {"call", "more"}
  BY DEF Uk!UkLabels
<1> HIDE DEF label
<1> QED BY <1>3, <1>5, <1>6, NoteTyped DEF ControlStep, OperatorOK, TxLabels

\* A call is made for one of the programmings that wait.
LEMMA CalledTyped ==
  ASSUME Typed, TablesStep, NEW o \in Operators, NEW g \in DOMAIN programmings,
         Uk!Call(o, g)
  PROVE  ControlStep(o)
<1>1. ureq[o] \in Uk!UkRequests
  BY DEF Typed, Uk!UkTypeOK
<1>2. PICK a \in Uk!UkAnswers :
        Uk!Note(o, [ureq[o] EXCEPT !.current = g, !.answer = a.confirmed])
  BY DEF Uk!Call
<1>3. a.confirmed \in BOOLEAN /\ Uk!At(o, "record")
  BY DEF Uk!Call, Uk!UkAnswers
<1> DEFINE request == [ureq[o] EXCEPT !.current = g, !.answer = a.confirmed]
<1>4. DOMAIN programmings \subseteq DOMAIN programmings'
  BY DEF TablesStep
<1>5. Uk!Note(o, request)
  BY <1>2
<1>6. request \in Uk!UkRequests' /\ request.current \in DOMAIN programmings'
  BY <1>1, <1>3, <1>4 DEF Uk!UkRequests
<1> HIDE DEF request
<1>7. "record" \in Uk!UkLabels
  BY DEF Uk!UkLabels
<1> QED BY <1>3, <1>5, <1>6, <1>7, NoteTyped DEF ControlStep, OperatorOK

\* The next programming is called for, or the task is over.
LEMMA NextCallTyped ==
  ASSUME Typed, TablesStep, NEW o \in Operators,
         NEW rest \in SUBSET ureq[o].queue,
         \/ Uk!Finish(o)
         \/ Uk!At(o, "call") /\ Uk!Note(o, [ureq[o] EXCEPT !.queue = rest])
  PROVE  ControlStep(o)
<1>1. CASE Uk!Finish(o)
  BY <1>1, FinishTyped
<1>2. CASE Uk!At(o, "call") /\ Uk!Note(o, [ureq[o] EXCEPT !.queue = rest])
  <2>1. ureq[o] \in Uk!UkRequests
    BY DEF Typed, Uk!UkTypeOK
  <2> DEFINE request == [ureq[o] EXCEPT !.queue = rest]
  <2>2. DOMAIN programmings \subseteq DOMAIN programmings'
    BY DEF TablesStep
  <2>3. Uk!Note(o, request)
    BY <1>2
  <2>4. request \in Uk!UkRequests'
    BY <2>1, <2>2 DEF Uk!UkRequests
  <2> HIDE DEF request
  <2>5. "call" \in Uk!UkLabels
    BY DEF Uk!UkLabels
  <2> QED BY <1>2, <2>3, <2>4, <2>5, NoteTyped DEF ControlStep, OperatorOK, TxLabels
<1> QED BY <1>1, <1>2

\* A transaction goes from statement to statement with its programming, and the
\* panel row follows a removal.
LEMMA TransactTyped ==
  ASSUME Typed, TablesStep, NEW o \in Operators, Transacts(o) \/ Uk!Commit(o)
  PROVE  ControlStep(o)
<1>0. /\ OperatorOK(o) /\ TxLabels \cup {"row"} \subseteq Uk!UkLabels
      /\ DOMAIN programmings \subseteq DOMAIN programmings'
      /\ ureq[o] \in Uk!UkRequests /\ Uk!UkTypeOK
  BY SMTT(60) DEF Typed, TablesStep, Uk!UkLabels, Uk!UkTypeOK, TxLabels
<1>1. ureq[o].current \in DOMAIN programmings
  BY <1>0 DEF OperatorOK, TxLabels, Transacts, Uk!Deactivate, Uk!SeekPrimary,
              Uk!PickOldest, Uk!PromotePrimary, Uk!SeekActive, Uk!Commit
<1>2. ASSUME NEW label \in TxLabels \cup {"row"}, Uk!At(o, label), UNCHANGED ureq
      PROVE  ControlStep(o)
  BY <1>0, <1>1, <1>2, AtTyped DEF ControlStep, OperatorOK, TxLabels
<1>3. ASSUME NEW label \in TxLabels \cup {"row"}, Uk!At(o, label),
             NEW q \in Uk!UkRequests', q.current = ureq[o].current, Uk!Note(o, q)
      PROVE  ControlStep(o)
  BY <1>0, <1>1, <1>3, NoteTyped DEF ControlStep, OperatorOK, TxLabels
<1>4. CASE Uk!Deactivate(o) \/ Uk!SeekPrimary(o) \/ Uk!PromotePrimary(o)
  <2>1. \E label \in TxLabels : Uk!At(o, label)
    BY <1>4 DEF Uk!Deactivate, Uk!SeekPrimary, Uk!PromotePrimary, Uk!Go,
                Uk!Promoted, TxLabels
  <2> QED BY <1>2, <1>4, <2>1 DEF Uk!Deactivate, Uk!SeekPrimary, Uk!PromotePrimary
<1>5. CASE Uk!PickOldest(o)
  <2>1. CASE Uk!Left(o) = {}
    BY <1>2, <1>5, <2>1 DEF Uk!PickOldest, Uk!Go, Uk!Promoted, TxLabels
  <2>2. CASE Uk!Left(o) # {}
    <3>1. PICK g : g = CHOOSE x \in Uk!Left(o) : \A h \in Uk!Left(o) : x <= h
      OBVIOUS
    <3>2. g \in DOMAIN programmings'
      BY <1>0, <2>2, <3>1, OldestPicked DEF Uk!Left, Uk!ActiveOf
    <3> DEFINE q == [ureq[o] EXCEPT !.chosen = g]
    <3>3. Uk!At(o, "crown") /\ Uk!Note(o, q)
      BY <1>5, <2>2, <3>1 DEF Uk!PickOldest, Uk!Go
    <3>4. q \in Uk!UkRequests' /\ q.current = ureq[o].current
      BY <1>0, <3>2 DEF Uk!UkRequests
    <3> HIDE DEF q
    <3> QED BY <1>3, <3>3, <3>4 DEF TxLabels
  <2> QED BY <2>1, <2>2
<1>6. CASE Uk!SeekActive(o)
  <2>1. PICK b \in BOOLEAN : b = Uk!IssueEmpty(o)
    BY DEF Uk!IssueEmpty
  <2> DEFINE q == [ureq[o] EXCEPT !.emptied = b]
  <2>2. Uk!At(o, "commit") /\ Uk!Note(o, q)
    BY <1>6, <2>1 DEF Uk!SeekActive, Uk!Go
  <2>3. q \in Uk!UkRequests' /\ q.current = ureq[o].current
    BY <1>0 DEF Uk!UkRequests
  <2> HIDE DEF q
  <2> QED BY <1>3, <2>2, <2>3 DEF TxLabels
<1>7. CASE Uk!Commit(o)
  <2>1. CASE Uk!Finish(o)
    BY <2>1, FinishTyped
  <2>2. CASE ~Uk!Finish(o)
    <3> DEFINE q == [ureq[o] EXCEPT !.chosen = 0, !.emptied = FALSE]
    <3>1. Uk!At(o, "row") /\ Uk!Note(o, q)
      BY <1>7, <2>2 DEF Uk!Commit
    <3>2. q \in Uk!UkRequests' /\ q.current = ureq[o].current
      BY <1>0 DEF Uk!UkRequests
    <3> HIDE DEF q
    <3> QED BY SMTT(60), <1>3, <3>1, <3>2
  <2> QED BY <2>1, <2>2
<1> QED BY <1>4, <1>5, <1>6, <1>7 DEF Transacts

\* Every step of an operator takes along what the next one needs.
LEMMA OperateControl ==
  ASSUME Typed, TablesStep, NEW o \in Operators, Uk!Operate(o)
  PROVE  ControlStep(o)
<1>0. /\ OperatorOK(o) /\ "row" \in Uk!UkLabels
      /\ DOMAIN programmings \subseteq DOMAIN programmings'
      /\ ureq[o] \in Uk!UkRequests
  BY DEF Typed, TablesStep, Uk!UkLabels, Uk!UkTypeOK
<1>1. CASE \/ Uk!StartIssue(o) \/ Uk!StartPanel(o) \/ Uk!StartRetry(o)
           \/ Uk!StartRemove(o) \/ Uk!StartUnlink(o)
  BY <1>1, StartedTyped
<1>2. CASE \E p \in Panels : Uk!CreateIssue(o, p) \/ Uk!CreateProgramming(o, p)
  <2>1. PICK p \in Panels : Uk!CreateIssue(o, p) \/ Uk!CreateProgramming(o, p)
    BY <1>2
  <2>2. PICK i, primary :
          /\ Uk!AddProgramming(o, i, p, primary)
          /\ programmings' = Append(programmings, Uk!NewProgramming(i, p, primary))
    <3>1. CASE Uk!CreateIssue(o, p)
      BY <3>1 DEF Uk!CreateIssue, Uk!AddProgramming
    <3>2. CASE Uk!CreateProgramming(o, p)
      BY <3>2 DEF Uk!CreateProgramming, Uk!AddProgramming
    <3> QED BY <2>1, <3>1, <3>2
  <2>3. programmings \in Seq(Uk!Programmings) /\ programmings' \in Seq(Uk!Programmings)
    BY DEF Typed, Uk!UkTypeOK, TablesStep, TablesTyped
  <2>4. /\ Len(programmings) + 1 \in DOMAIN programmings'
        /\ DOMAIN programmings' = DOMAIN programmings \cup {Len(programmings) + 1}
        /\ programmings'[Len(programmings) + 1] = Uk!NewProgramming(i, p, primary)
    BY <2>2, <2>3
  <2>5. i \in DOMAIN issues'
    BY <2>4 DEF TablesStep, TablesTyped, Uk!NewProgramming
  <2>6. ureq[o].kind \in {"issue", "panel"}
    BY <1>0, <2>1 DEF OperatorOK, Uk!CreateIssue, Uk!CreateProgramming
  <2> QED BY <2>2, <2>4, <2>5, <2>6, CreatedTyped
<1>3. CASE Uk!CreateRefused(o) \/ Uk!Lose(o)
  BY <1>3, FinishTyped DEF Uk!CreateRefused, Uk!Lose
<1>4. CASE \E g \in DOMAIN programmings : Uk!Call(o, g)
  BY <1>4, CalledTyped
<1>5. CASE Uk!RecordAdded(o) \/ Uk!RecordFailed(o)
  <2>1. /\ Uk!At(o, "row") /\ UNCHANGED ureq
        /\ ureq[o].current \in DOMAIN programmings
    BY <1>0, <1>5 DEF Uk!RecordAdded, Uk!RecordFailed, OperatorOK
  <2> QED BY <1>0, <2>1, AtTyped DEF ControlStep, OperatorOK, TxLabels
<1>6. CASE Uk!RecordConflict(o) \/ Uk!RecordPanel(o)
  <2>1. PICK rest : rest = ureq[o].queue \ {ureq[o].current}
    OBVIOUS
  <2>2. \/ Uk!Finish(o)
        \/ Uk!At(o, "call") /\ Uk!Note(o, [ureq[o] EXCEPT !.queue = rest])
    BY <1>6, <2>1 DEF Uk!RecordConflict, Uk!RecordPanel
  <2> QED BY <2>1, <2>2, NextCallTyped
<1>7. CASE Transacts(o) \/ Uk!Commit(o)
  BY <1>7, TransactTyped
<1> QED BY <1>1, <1>2, <1>3, <1>4, <1>5, <1>6, <1>7 DEF Uk!Operate, Transacts

\* The transactions of an operator keep the types of the store.
LEMMA OperateStore ==
  ASSUME Typed, NEW o \in Operators, Uk!Operate(o)
  PROVE  /\ StoreTypeOK' /\ UNCHANGED ops
         /\ crm' \in [Keys -> SUBSET Panels]
         /\ unconfirmed' \in [Keys -> SUBSET Panels]
         /\ tasks' \in Nat /\ losses' \in Nat
<1>0. /\ StoreTypeOK /\ tasks \in Nat /\ losses \in Nat
      /\ crm \in [Keys -> SUBSET Panels] /\ unconfirmed \in [Keys -> SUBSET Panels]
      /\ OperatorOK(o)
  BY SameStore DEF Typed, Uk!UkTypeOK
<1>00. \A g \in DOMAIN programmings :
         /\ Uk!KeyOf(g) \in Keys /\ programmings[g].panel \in Panels
         /\ programmings[g].issue \in DOMAIN issues
         /\ issues[programmings[g].issue].key = Uk!KeyOf(g)
  BY Rows DEF Typed, Uk!Programmings, Uk!KeyOf
<1>1. CASE \/ Uk!StartIssue(o) \/ Uk!StartPanel(o) \/ Uk!StartRetry(o)
           \/ Uk!StartRemove(o) \/ Uk!StartUnlink(o)
  <2>1. /\ UNCHANGED <<keyStatus, assignment, place, serial, row, ops, crm,
                       unconfirmed, losses>>
        /\ tasks' = tasks + 1
    BY <1>1 DEF Uk!StartIssue, Uk!StartPanel, Uk!StartRetry, Uk!StartRemove,
       Uk!StartUnlink, Uk!StartOn, Uk!StartTask, Uk!Click
  <2> QED BY SMTT(60), <1>0, <2>1 DEF StoreTypeOK
<1>2. CASE \/ \E p \in Panels : Uk!CreateIssue(o, p) \/ Uk!CreateProgramming(o, p)
           \/ Uk!CreateRefused(o) \/ Uk!RecordFailed(o) \/ Transacts(o)
  <2>1. UNCHANGED <<keyStatus, assignment, place, serial, row, ops, crm,
                    unconfirmed, tasks, losses>>
    BY <1>2, TransactsOnly
       DEF Uk!CreateIssue, Uk!CreateProgramming, Uk!AddProgramming,
           Uk!CreateRefused, Uk!RecordFailed
  <2> QED BY <1>0, <2>1 DEF StoreTypeOK
<1>3. CASE \E g \in DOMAIN programmings : Uk!Call(o, g)
  <2>1. PICK g \in DOMAIN programmings : Uk!Call(o, g)
    BY <1>3
  <2>2. PICK k \in Keys, p \in Panels : k = Uk!KeyOf(g) /\ p = programmings[g].panel
    BY <1>00
  <2>3. PICK a \in Uk!UkAnswers :
          /\ crm' = IF ~a.applied THEN crm
                    ELSE [crm EXCEPT ![k] = IF Uk!Adds(o) THEN @ \cup {p} ELSE @ \ {p}]
          /\ unconfirmed' =
               [unconfirmed EXCEPT ![k] =
                  IF a.confirmed \/ p \in crm[k] THEN @ \cap crm'[k]
                                                ELSE @ \cup ({p} \cap crm'[k])]
    BY <2>1, <2>2 DEF Uk!Call
  <2>4. UNCHANGED <<keyStatus, assignment, place, serial, row, ops, tasks, losses>>
    BY <2>1 DEF Uk!Call
  <2>5. crm' \in [Keys -> SUBSET Panels]
    BY <1>0, <2>3
  <2>6. unconfirmed' \in [Keys -> SUBSET Panels]
    BY <1>0, <2>3, <2>5
  <2> QED BY <1>0, <2>4, <2>5, <2>6 DEF StoreTypeOK
<1>4. CASE Uk!RecordAdded(o)
  <2>1. PICK g \in DOMAIN programmings : g = ureq[o].current
    BY SMTT(60), <1>0, <1>4 DEF Uk!RecordAdded, OperatorOK
  <2>2. PICK k \in Keys, p \in Panels : k = Uk!KeyOf(g) /\ p = programmings[g].panel
    BY <1>00
  <2>3. /\ Uk!SetKeyAssignment(k, Company)
        /\ unconfirmed' = [unconfirmed EXCEPT ![k] = @ \ {p}]
        /\ UNCHANGED <<row, ops, crm, tasks, losses>>
    BY <1>4, <1>00, <2>1, <2>2 DEF Uk!RecordAdded
  <2>4. /\ keyStatus' = [keyStatus EXCEPT ![k] = "issued"]
        /\ \/ UNCHANGED <<assignment, serial, place>>
           \/ /\ serial' = serial + 1
              /\ assignment' = [assignment EXCEPT ![k] = serial + 1]
              /\ place' = [place EXCEPT ![k] = Company]
    BY <2>3 DEF Uk!SetKeyAssignment, Uk!KeepAssignment, Uk!NewAssignment
  <2>5. keyStatus' \in [Keys -> KeyStatuses]
    BY <1>0, <2>4 DEF StoreTypeOK, KeyStatuses
  <2>6. assignment' \in [Keys -> Nat] /\ serial' \in Nat
    <3>1. assignment \in [Keys -> Nat] /\ serial \in Nat /\ serial + 1 \in Nat
      BY <1>0 DEF StoreTypeOK
    <3>2. \/ assignment' = assignment /\ serial' = serial
          \/ /\ serial' = serial + 1
             /\ assignment' = [assignment EXCEPT ![k] = serial + 1]
      BY <2>4
    <3> QED BY <3>1, <3>2
  <2>8. place' \in [Keys -> Places \cup {NoPlace}]
    <3>1. place \in [Keys -> Places \cup {NoPlace}] /\ Company \in Places \cup {NoPlace}
      BY <1>0, CompanyAssumption DEF StoreTypeOK
    <3>2. place' = place \/ place' = [place EXCEPT ![k] = Company]
      BY <2>4
    <3> QED BY <3>1, <3>2
  <2>7. unconfirmed' \in [Keys -> SUBSET Panels]
    BY <1>0, <2>3
  <2> QED BY SMTT(60), <1>0, <2>3, <2>5, <2>6, <2>7, <2>8 DEF StoreTypeOK
<1>5. CASE Uk!RecordConflict(o)
  <2>1. PICK g \in DOMAIN programmings : g = ureq[o].current
    BY <1>0, <1>5 DEF Uk!RecordConflict, OperatorOK
  <2>2. /\ UNCHANGED <<keyStatus, assignment, place, serial, row, ops, crm, tasks,
                       losses>>
        /\ unconfirmed' = [unconfirmed EXCEPT ![Uk!KeyOf(g)] =
                             @ \cup {programmings[g].panel}]
    BY <1>5, <2>1 DEF Uk!RecordConflict
  <2> QED BY <1>0, <1>00, <2>2 DEF StoreTypeOK
<1>6. CASE Uk!Commit(o)
  <2>1. PICK g \in DOMAIN programmings : g = ureq[o].current
    BY ZenonT(60), <1>0, <1>6 DEF Uk!Commit, OperatorOK, TxLabels
  <2>2. UNCHANGED <<serial, row, ops, crm, unconfirmed, tasks, losses>>
    BY <1>6 DEF Uk!Commit
  <2>3. PICK k \in Keys : k = Uk!KeyOf(g)
    BY SMTT(60), <1>00
  <2>4. \/ UNCHANGED <<keyStatus, assignment, place>>
        \/ /\ assignment' = [assignment EXCEPT ![k] = 0]
           /\ place' = [place EXCEPT ![k] = NoPlace]
           /\ keyStatus' = [keyStatus EXCEPT ![k] = "free"]
    BY <1>6, <1>00, <2>1, <2>3 DEF Uk!Commit, Uk!FinalizeRelease
  <2>5. keyStatus' \in [Keys -> KeyStatuses]
    BY <1>0, <2>4 DEF StoreTypeOK, KeyStatuses
  <2>6. assignment' \in [Keys -> Nat]
    BY <1>0, <2>4 DEF StoreTypeOK
  <2>7. place' \in [Keys -> Places \cup {NoPlace}]
    <3>1. place \in [Keys -> Places \cup {NoPlace}] /\ NoPlace \in Places \cup {NoPlace}
      BY <1>0 DEF StoreTypeOK
    <3>2. place' = place \/ place' = [place EXCEPT ![k] = NoPlace]
      BY <2>4
    <3> QED BY <3>1, <3>2
  <2> QED BY SMTT(60), <1>0, <2>2, <2>5, <2>6, <2>7 DEF StoreTypeOK
<1>7. CASE Uk!RecordPanel(o)
  <2>1. PICK g \in DOMAIN programmings : g = ureq[o].current
    BY <1>0, <1>7 DEF Uk!RecordPanel, OperatorOK
  <2>2. PICK k \in Keys, p \in Panels : k = Uk!KeyOf(g) /\ p = programmings[g].panel
    BY <1>00
  <2>3. /\ UNCHANGED <<keyStatus, assignment, place, serial, ops, crm, unconfirmed,
                       tasks, losses>>
        /\ \/ Uk!RecordPanelWrite(k, p, ureq[o].answer)
           \/ Uk!RecordPanelDelete(k, p, ureq[o].answer)
    BY <1>7, <2>1, <2>2 DEF Uk!RecordPanel
  <2>4. PICK state \in RowStates : row' = [row EXCEPT ![k][p] = state]
    BY <2>3 DEF Uk!RecordPanelWrite, Uk!RecordPanelDelete, RowStates
  <2>5. row' \in [Keys -> [Panels -> RowStates]]
    BY <1>0, <2>4 DEF StoreTypeOK
  <2> QED BY <1>0, <2>3, <2>5 DEF StoreTypeOK
<1>8. CASE Uk!Lose(o)
  <2>1. /\ UNCHANGED <<keyStatus, assignment, place, serial, row, ops, crm, tasks>>
        /\ losses' = losses + 1
        /\ \/ unconfirmed' = unconfirmed
           \/ /\ upc[o] = "record"
              /\ unconfirmed' = [unconfirmed EXCEPT ![Uk!KeyOf(ureq[o].current)] =
                                   @ \cup {programmings[ureq[o].current].panel}]
    BY <1>8 DEF Uk!Lose
  <2>2. unconfirmed' \in [Keys -> SUBSET Panels]
    BY <1>0, <1>00, <2>1 DEF OperatorOK
  <2> QED BY <1>0, <2>1, <2>2 DEF StoreTypeOK
<1> QED BY <1>1, <1>2, <1>3, <1>4, <1>5, <1>6, <1>7, <1>8 DEF Uk!Operate, Transacts

\* What both sides keep of the types, put together.
LEMMA TypedAgain ==
  ASSUME Typed, TablesStep, TypeInv',
         upc' \in [Operators -> Uk!UkLabels],
         ureq' \in [Operators -> Uk!UkRequests'],
         \A o \in Operators : OperatorOK(o)',
         tasks' \in Nat, losses' \in Nat, UNCHANGED schedule
  PROVE  Typed'
<1>1. /\ Uk!StoreTypeOK' /\ crm' \in [Keys -> SUBSET Panels]
      /\ unconfirmed' \in [Keys -> SUBSET Panels]
  BY DEF TypeInv, TypeOK, Uk!StoreTypeOK, StoreTypeOK, Uk!KeyStatuses, KeyStatuses,
         Uk!RowStates, RowStates, Uk!Operations, Operations, Uk!OpTypes, OpTypes,
         Uk!OpStatuses, OpStatuses, Uk!StepStates, StepStates
<1>2. TablesTyped'
  BY DEF TablesStep
<1>3. Uk!UkTypeOK'
  BY <1>1, <1>2 DEF Uk!UkTypeOK, TablesTyped, Uk!UkLabels
<1> QED BY <1>3 DEF Typed

\* An operator whose control point and request stay finds its rows again.
LEMMA OtherOperators ==
  ASSUME TablesStep, NEW q \in Operators, OperatorOK(q),
         upc'[q] = upc[q], ureq'[q] = ureq[q]
  PROVE  OperatorOK(q)'
BY DEF OperatorOK, TablesStep

\* The lifecycle is not touched by a step of the company's pages.
LEMMA LifecycleTyped ==
  ASSUME TypeInv, StoreTypeOK', crm' \in [Keys -> SUBSET Panels],
         unconfirmed' \in [Keys -> SUBSET Panels],
         UNCHANGED <<ops, lock, pc, req, bounds>>
  PROVE  TypeInv'
<1>1. TypeOK'
  BY DEF TypeInv, TypeOK, bounds
<1>2. ASSUME NEW r \in Requests PROVE RequestOK(r)'
  BY DEF TypeInv, RequestOK
<1>3. Served'
  BY DEF TypeInv, Served
<1> QED BY <1>1, <1>2, <1>3 DEF TypeInv

\* Every step of the company's pages keeps types and tables.
LEMMA CompanyTyped ==
  ASSUME Typed, TablesFit, CompanyStep PROVE Typed' /\ TablesStep
<1>1. UNCHANGED <<lock, pc, req, bounds, schedule>>
  BY DEF CompanyStep, Uk!UkNext
<1>2. PICK o \in Operators : Uk!Operate(o)
  BY DEF CompanyStep, Uk!UkNext
<1>3. TablesStep /\ ControlStep(o)
  BY <1>2, OperateTables, OperateControl
<1>4. /\ StoreTypeOK' /\ UNCHANGED ops /\ tasks' \in Nat /\ losses' \in Nat
      /\ crm' \in [Keys -> SUBSET Panels]
      /\ unconfirmed' \in [Keys -> SUBSET Panels]
  BY <1>2, OperateStore
<1>5. TypeInv'
  BY <1>1, <1>4, LifecycleTyped DEF Typed
<1>6. \A q \in Operators : OperatorOK(q)'
  <2> SUFFICES ASSUME NEW q \in Operators PROVE OperatorOK(q)'
    OBVIOUS
  <2>1. CASE q = o
    BY <1>3, <2>1 DEF ControlStep
  <2>2. CASE q # o
    BY <1>3, <2>2, OtherOperators DEF Typed, ControlStep, OnlyOperator
  <2> QED BY <2>1, <2>2
<1> QED BY <1>1, <1>3, <1>4, <1>5, <1>6, TypedAgain DEF ControlStep

\* So does every step of the key card.
LEMMA CardTyped ==
  ASSUME Typed, TablesFit, NEW r \in Requests, LifecycleStep(r)
  PROVE  Typed' /\ TablesStep
<1>1. Acts(r) /\ UNCHANGED <<upc, ureq, tasks, losses, schedule>>
  BY DEF LifecycleStep, Acts
<1>2. TypeInv'
  <2>1. Next
    BY <1>1 DEF Next, Acts
  <2>2. HandInv' /\ Served'
    BY <2>1, NextTyped, ServedStep DEF Typed, TypeInv, HandInv
  <2> QED BY <2>2 DEF TypeInv, HandInv
<1>3. TablesStep
  <2>1. CASE Released(r)
    <3>1. req[r].key \in Keys
      BY <2>1 DEF Released, Typed, TypeInv, RequestOK
    <3>2. Uk!CloseIssues(req[r].key)
      BY <2>1 DEF LifecycleStep
    <3> QED BY <3>1, <3>2, ClosingTables DEF Typed
  <2>2. CASE ~Released(r)
    BY <2>2, TablesKept DEF LifecycleStep, Typed
  <2> QED BY <2>1, <2>2
<1>4. \A q \in Operators : OperatorOK(q)'
  BY <1>1, <1>3, OtherOperators DEF Typed
<1>5. /\ upc' \in [Operators -> Uk!UkLabels]
      /\ ureq' \in [Operators -> Uk!UkRequests']
      /\ tasks' \in Nat /\ losses' \in Nat
  BY <1>1, <1>3 DEF Typed, Uk!UkTypeOK, Uk!UkLabels, TablesStep, Uk!UkRequests
<1> QED BY <1>1, <1>2, <1>3, <1>4, <1>5, TypedAgain

\* The company starts with a key store nobody has used.
LEMMA CompanyBegins ==
  ASSUME BothInit
  PROVE  /\ Typed /\ TablesFit
         /\ \A r \in Requests : pc[r] = "idle"
         /\ \A o \in Operators : upc[o] = "idle"
         /\ \A k \in Keys : crm[k] = {}
<1>1. Init
  <2>1. PICK programmed : programmed = [k \in Keys |-> {}]
    OBVIOUS
  <2>2. programmed \in [Keys -> SUBSET Panels] /\ crm = programmed
        /\ StoreInit(programmed, Company)
    BY <2>1 DEF BothInit, Uk!UkInit, Uk!StoreInit, StoreInit
  <2>3. unconfirmed = [k \in Keys |-> {}]
    BY DEF BothInit, Uk!UkInit
  <2> QED BY <2>2, <2>3, CompanyAssumption DEF BothInit, Init
<1>2. TypeInv
  BY <1>1, InitTyped DEF TypeInv, HandInv, Init, Served
<1>3. /\ issues = <<>> /\ programmings = <<>> /\ tasks = 0 /\ losses = 0
      /\ upc = [o \in Operators |-> "idle"] /\ ureq = [o \in Operators |-> Uk!Idle]
      /\ schedule \in Schedules /\ crm = [k \in Keys |-> {}]
      /\ unconfirmed = [k \in Keys |-> {}]
  BY DEF BothInit, Uk!UkInit
<1>4. Uk!StoreTypeOK
  BY <1>2, SameStore DEF TypeInv, TypeOK
<1>5. Uk!Idle \in Uk!UkRequests
  BY DEF Uk!Idle, Uk!UkRequests
<1>6. Uk!UkTypeOK
  <2>1. issues \in Seq(Uk!Issues) /\ programmings \in Seq(Uk!Programmings)
        /\ DOMAIN programmings = {}
    BY <1>3, EmptySeq
  <2>2. ureq \in [Operators -> Uk!UkRequests]
    BY <1>3, <1>5
  <2> QED BY <1>3, <1>4, <2>1, <2>2 DEF Uk!UkTypeOK, Uk!UkLabels
<1>7. \A o \in Operators : OperatorOK(o)
  BY <1>3 DEF OperatorOK, TxLabels
<1>8. TablesFit
  BY <1>3 DEF TablesFit, OneOpenIssue, OnePerPanel
<1> QED BY <1>2, <1>3, <1>6, <1>7, <1>8 DEF Typed, BothInit

\* Every step of both sides keeps types and tables.
LEMMA BothTyped ==
  ASSUME Typed, TablesFit, [BothNext]_allVars PROVE Typed' /\ TablesFit'
<1>1. CASE UNCHANGED allVars
  <2>1. UNCHANGED <<upc, ureq, tasks, losses, schedule, issues, programmings>>
        /\ UNCHANGED <<store, crm, unconfirmed, lock, pc, req, bounds>>
    BY <1>1 DEF allVars, vars
  <2>2. TablesStep
    BY <2>1, TablesKept DEF Typed
  <2>3. TypeInv'
    BY <2>1, LifecycleTyped DEF Typed, TypeInv, TypeOK, StoreTypeOK, store
  <2>4. \A q \in Operators : OperatorOK(q)'
    BY <2>1, <2>2, OtherOperators DEF Typed
  <2>5. /\ upc' \in [Operators -> Uk!UkLabels]
        /\ ureq' \in [Operators -> Uk!UkRequests']
        /\ tasks' \in Nat /\ losses' \in Nat
    BY <2>1 DEF Typed, Uk!UkTypeOK, Uk!UkLabels, Uk!UkRequests
  <2> QED BY <2>1, <2>2, <2>3, <2>4, <2>5, TypedAgain DEF TablesStep
<1>2. CASE BothNext
  BY <1>2, CompanyTyped, CardTyped DEF BothNext, TablesStep
<1> QED BY <1>1, <1>2

\* Under every schedule, whoever works at a time, the tables are well formed,
\* a key has one open issue at most, and an issue one active programming per
\* panel: create_key_issue, create_programming and record_crm_result.
THEOREM CompanyTables == BothSpec => [](Typed /\ TablesFit)
<1>1. BothInit => Typed /\ TablesFit
  BY CompanyBegins
<1>2. Typed /\ TablesFit /\ [BothNext]_allVars => Typed' /\ TablesFit'
  BY BothTyped
<1> QED BY <1>1, <1>2, PTL DEF BothSpec

-----------------------------------------------------------------------------
(* The primary panel.  A transaction finds no primary, and promotes the     *)
(* oldest panel of the issue later, when another one may have promoted a    *)
(* panel, too.  Both have promoted the oldest one left: whatever goes off   *)
(* the books or is added meanwhile, a promoted panel that is active stays   *)
(* the first of those the other transaction sees.                           *)

Rest(g) == Uk!ActiveOf(programmings, programmings[g].issue) \ {g}

\* Of the panels that are left without g, a primary one is the oldest.
PrimaryFirst(g) == \A h \in Rest(g) :
  programmings[h].primary => \A x \in Rest(g) : h <= x

\* Nothing older than c is left of the issue without g.
ChosenFirst(g, c) ==
  programmings[c].issue = programmings[g].issue /\ \A x \in Rest(g) : c <= x

\* What a transaction has read is still good enough.
PromotionFits(o) ==
  /\ upc[o] = "pick" \/ ureq[o].chosen # 0 => PrimaryFirst(ureq[o].current)
  /\ ureq[o].chosen # 0 =>
       /\ ChosenFirst(ureq[o].current, ureq[o].chosen)
       /\ upc[o] \in {"crown", "empty", "commit"}

PrimariesFit == Uk!OnePrimary /\ \A o \in Operators : PromotionFits(o)

\* A step keeps what the transactions have read of the programmings.
RowsKept ==
  /\ Uk!OnePrimary'
  /\ \A g \in DOMAIN programmings : PrimaryFirst(g) => PrimaryFirst(g)'
  /\ \A g, c \in DOMAIN programmings : ChosenFirst(g, c) => ChosenFirst(g, c)'

\* A step that promotes nothing: programmings go off the books, and a new one is
\* younger than the others, and primary only as the first one of its issue.
QuietRows ==
  /\ DOMAIN programmings \subseteq DOMAIN programmings'
  /\ \A h \in DOMAIN programmings :
       /\ programmings'[h].issue = programmings[h].issue
       /\ programmings'[h].active => programmings[h].active
       /\ programmings'[h].primary = programmings[h].primary
  /\ \A n \in DOMAIN programmings' \ DOMAIN programmings :
       /\ n = Len(programmings) + 1
       /\ programmings'[n].primary => \A h \in DOMAIN programmings :
            programmings[h].issue # programmings'[n].issue

\* Such a step keeps it all.
LEMMA QuietKeeps ==
  ASSUME Typed, Uk!OnePrimary, QuietRows PROVE RowsKept
<1>0. Len(programmings) \in Nat /\ DOMAIN programmings = 1 .. Len(programmings)
  BY Rows DEF Typed
<1>1. Uk!OnePrimary'
  <2> SUFFICES ASSUME NEW g \in DOMAIN programmings', NEW h \in DOMAIN programmings',
                      programmings'[g].active, programmings'[g].primary,
                      programmings'[h].active, programmings'[h].primary,
                      programmings'[g].issue = programmings'[h].issue
               PROVE  g = h
    BY DEF Uk!OnePrimary
  <2>1. CASE g \in DOMAIN programmings /\ h \in DOMAIN programmings
    BY <2>1 DEF QuietRows, Uk!OnePrimary
  <2>2. CASE g \in DOMAIN programmings /\ h \notin DOMAIN programmings
    BY <2>2 DEF QuietRows
  <2>3. CASE g \notin DOMAIN programmings /\ h \in DOMAIN programmings
    BY <2>3 DEF QuietRows
  <2>4. CASE g \notin DOMAIN programmings /\ h \notin DOMAIN programmings
    BY <2>4 DEF QuietRows
  <2> QED BY <2>1, <2>2, <2>3, <2>4
<1>2. ASSUME NEW g \in DOMAIN programmings, NEW h \in Rest(g)'
      PROVE  \/ h \in Rest(g) /\ programmings'[h].primary = programmings[h].primary
             \/ h = Len(programmings) + 1 /\ ~programmings'[h].primary
  <2>1. /\ h \in DOMAIN programmings' /\ programmings'[h].active /\ h # g
        /\ programmings'[h].issue = programmings[g].issue
    BY <1>2 DEF Rest, Uk!ActiveOf, QuietRows
  <2>2. CASE h \in DOMAIN programmings
    BY <2>1, <2>2 DEF QuietRows, Rest, Uk!ActiveOf
  <2>3. CASE h \notin DOMAIN programmings
    BY <2>1, <2>3 DEF QuietRows
  <2> QED BY <2>2, <2>3
<1>3. \A g \in DOMAIN programmings : Rest(g) \subseteq 1 .. Len(programmings)
  BY <1>0 DEF Rest, Uk!ActiveOf
<1>4. ASSUME NEW g \in DOMAIN programmings, PrimaryFirst(g) PROVE PrimaryFirst(g)'
  BY <1>0, <1>2, <1>3, <1>4 DEF PrimaryFirst
<1>5. ASSUME NEW g \in DOMAIN programmings, NEW c \in DOMAIN programmings,
             ChosenFirst(g, c)
      PROVE  ChosenFirst(g, c)'
  BY <1>0, <1>2, <1>3, <1>5 DEF ChosenFirst, QuietRows
<1> QED BY <1>1, <1>4, <1>5 DEF RowsKept

\* The commit of a transaction keeps it, too: the panel it has chosen is the
\* first of those left, and so was any panel promoted before.
LEMMA CommitKeeps ==
  ASSUME Typed, Uk!OnePrimary, NEW o \in Operators, PromotionFits(o), Uk!Commit(o)
  PROVE  RowsKept
<1>1. PICK d \in DOMAIN programmings : d = ureq[o].current
  BY DEF Typed, OperatorOK, Uk!Commit, TxLabels
<1>2. PICK c \in DOMAIN programmings \cup {0} : c = ureq[o].chosen
  BY DEF Typed, Uk!UkTypeOK, Uk!UkRequests
<1>3. 0 \notin DOMAIN programmings /\ DOMAIN programmings \subseteq Nat
  BY Rows DEF Typed
<1>4. /\ DOMAIN programmings' = DOMAIN programmings
      /\ \A h \in DOMAIN programmings :
           /\ programmings'[h].issue = programmings[h].issue
           /\ programmings'[h].active <=> programmings[h].active /\ h # d
           /\ programmings'[h].primary <=> programmings[h].primary \/ h = c
  BY <1>1, <1>2, Committed DEF Typed
<1>5. c # 0 => PrimaryFirst(d) /\ ChosenFirst(d, c)
  BY <1>1, <1>2 DEF PromotionFits
<1>6. \A g \in DOMAIN programmings : Rest(g)' = Rest(g) \ {d}
  BY <1>4 DEF Rest, Uk!ActiveOf
<1>7. \A g \in DOMAIN programmings : programmings[g].issue = programmings[d].issue =>
        Rest(g)' \subseteq Rest(d)
  BY <1>6 DEF Rest, Uk!ActiveOf
<1>8. ASSUME NEW h \in Rest(d), programmings'[h].primary, c # 0
      PROVE  \A x \in Rest(d) : h <= x
  <2>1. CASE programmings[h].primary
    BY <1>5, <1>8, <2>1 DEF PrimaryFirst
  <2>2. CASE h = c
    BY <1>5, <1>8, <2>2 DEF ChosenFirst
  <2> QED BY <1>4, <1>8, <2>1, <2>2 DEF Rest, Uk!ActiveOf
<1>9. Uk!OnePrimary'
  <2> SUFFICES ASSUME NEW g \in DOMAIN programmings, NEW h \in DOMAIN programmings,
                      programmings'[g].active, programmings'[g].primary,
                      programmings'[h].active, programmings'[h].primary,
                      programmings'[g].issue = programmings'[h].issue
               PROVE  g = h
    BY <1>4 DEF Uk!OnePrimary
  <2>1. CASE programmings[g].primary /\ programmings[h].primary
    BY <1>4, <2>1 DEF Uk!OnePrimary
  <2>2. CASE c # 0 /\ programmings[g].issue = programmings[d].issue
    <3>1. g \in Rest(d) /\ h \in Rest(d)
      BY <1>4, <2>2 DEF Rest, Uk!ActiveOf
    <3>2. g <= h /\ h <= g
      BY <1>8, <2>2, <3>1
    <3> QED BY <1>3, <3>2
  <2>3. \/ programmings[g].primary /\ programmings[h].primary
        \/ (c # 0 /\ programmings[g].issue = programmings[d].issue)
    BY <1>3, <1>4, <1>5 DEF ChosenFirst
  <2> QED BY <2>1, <2>2, <2>3
<1>10. ASSUME NEW g \in DOMAIN programmings, PrimaryFirst(g) PROVE PrimaryFirst(g)'
  <2>1. CASE c # 0 /\ programmings[g].issue = programmings[d].issue
    <3>1. \A h \in Rest(g)' : programmings'[h].primary => \A x \in Rest(g)' : h <= x
      BY <1>7, <1>8, <2>1
    <3> QED BY <3>1 DEF PrimaryFirst
  <2>2. CASE ~(c # 0 /\ programmings[g].issue = programmings[d].issue)
    <3>1. \A h \in Rest(g) : programmings'[h].primary => programmings[h].primary
      BY <1>3, <1>4, <1>5, <2>2 DEF ChosenFirst, Rest, Uk!ActiveOf
    <3>2. \A h \in Rest(g)' : programmings'[h].primary => \A x \in Rest(g)' : h <= x
      BY <1>6, <1>10, <3>1 DEF PrimaryFirst
    <3> QED BY <3>2 DEF PrimaryFirst
  <2> QED BY <2>1, <2>2
<1>11. ASSUME NEW g \in DOMAIN programmings, NEW x \in DOMAIN programmings,
              ChosenFirst(g, x)
       PROVE  ChosenFirst(g, x)'
  BY <1>4, <1>6, <1>11 DEF ChosenFirst
<1> QED BY SMTT(60), <1>9, <1>10, <1>11 DEF RowsKept

\* Whatever is done, the programmings are as quiet, or a transaction commits.
LEMMA WhoPromotes ==
  ASSUME Typed, NEW o \in Operators, Uk!Operate(o)
  PROVE  QuietRows \/ Uk!Commit(o)
<1>0. /\ Uk!UkTypeOK /\ OperatorOK(o) /\ programmings \in Seq(Uk!Programmings)
      /\ {"success", "error"} \subseteq Uk!ProgrammingStatuses
      /\ \A g \in DOMAIN programmings : programmings[g].issue \in DOMAIN issues
  BY DEF Typed, Uk!UkTypeOK, Uk!ProgrammingStatuses
<1>1. CASE \/ Uk!StartIssue(o) \/ Uk!StartPanel(o) \/ Uk!StartRetry(o)
           \/ Uk!StartRemove(o) \/ Uk!StartUnlink(o) \/ Uk!CreateRefused(o)
           \/ \E g \in DOMAIN programmings : Uk!Call(o, g)
           \/ Transacts(o) \/ Uk!RecordPanel(o) \/ Uk!Lose(o)
  <2>1. CASE \/ Uk!StartIssue(o) \/ Uk!StartPanel(o) \/ Uk!StartRetry(o)
             \/ Uk!StartRemove(o) \/ Uk!StartUnlink(o)
    BY <2>1 DEF Uk!StartIssue, Uk!StartPanel, Uk!StartRetry, Uk!StartRemove,
       Uk!StartUnlink, Uk!StartOn, Uk!StartTask, Uk!company, QuietRows
  <2>2. CASE \E g \in DOMAIN programmings : Uk!Call(o, g)
    BY <2>2 DEF Uk!Call, Uk!company, QuietRows
  <2>3. CASE Uk!CreateRefused(o) \/ Uk!RecordPanel(o) \/ Uk!Lose(o)
    BY <2>3 DEF Uk!CreateRefused, Uk!RecordPanel, Uk!Lose, Uk!company, QuietRows
  <2>4. CASE Transacts(o)
    BY <2>4, TransactsOnly DEF Uk!company, QuietRows
  <2> QED BY SMTT(60), <1>1, <2>1, <2>2, <2>3, <2>4
<1>2. ASSUME NEW i \in Nat, NEW p \in Panels, NEW primary \in BOOLEAN,
             programmings' = Append(programmings, Uk!NewProgramming(i, p, primary)),
             primary => i \notin DOMAIN issues
      PROVE  QuietRows
  <2> DEFINE new == Uk!NewProgramming(i, p, primary)
  <2>1. new \in Uk!Programmings /\ new.issue = i /\ new.primary = primary
    BY DEF Uk!NewProgramming, Uk!Programmings, Uk!ProgrammingStatuses
  <2> HIDE DEF new
  <2>2. PICK n : n = Len(programmings) + 1
    OBVIOUS
  <2>3. /\ DOMAIN programmings' = DOMAIN programmings \cup {n}
        /\ \A g \in DOMAIN programmings : programmings'[g] = programmings[g]
        /\ programmings'[n] = new
    BY <1>0, <1>2, <2>1, <2>2, Appended DEF new
  <2> QED BY <1>0, <1>2, <2>1, <2>2, <2>3 DEF QuietRows
<1>3. CASE \E p \in Panels : Uk!CreateIssue(o, p)
  <2>1. PICK p \in Panels :
          programmings' = Append(programmings, Uk!NewProgramming(Len(issues) + 1, p, TRUE))
    BY <1>3 DEF Uk!CreateIssue, Uk!AddProgramming
  <2>2. PICK i \in Nat : i = Len(issues) + 1 /\ i \notin DOMAIN issues
    BY <1>0, Rows
  <2> QED BY <1>2, <2>1, <2>2
<1>4. CASE \E p \in Panels : Uk!CreateProgramming(o, p)
  <2>1. PICK p \in Panels :
          programmings' = Append(programmings, Uk!NewProgramming(ureq[o].issue, p, FALSE))
    BY <1>4 DEF Uk!CreateProgramming, Uk!AddProgramming
  <2>2. PICK i \in Nat : i = ureq[o].issue
    BY DEF Typed, Uk!UkTypeOK, Uk!UkRequests
  <2> QED BY <1>2, <2>1, <2>2
<1>5. CASE Uk!RecordAdded(o) \/ Uk!RecordConflict(o) \/ Uk!RecordFailed(o)
  <2>1. PICK h \in DOMAIN programmings : h = ureq[o].current
    BY ZenonT(60), <1>0, <1>5 DEF Uk!RecordAdded, Uk!RecordConflict, Uk!RecordFailed, OperatorOK
  <2>2. \/ UNCHANGED programmings
        \/ Uk!SetStatus(h, "success") \/ Uk!SetStatus(h, "error")
    BY <1>5, <2>1 DEF Uk!RecordAdded, Uk!RecordConflict, Uk!RecordFailed
  <2>3. CASE UNCHANGED programmings
    BY <2>3 DEF QuietRows
  <2>4. CASE Uk!SetStatus(h, "success") \/ Uk!SetStatus(h, "error")
    BY <1>0, <2>4, StatusSet DEF QuietRows
  <2> QED BY SMTT(60), <2>2, <2>3, <2>4
<1> QED BY <1>1, <1>3, <1>4, <1>5 DEF Uk!Operate, Transacts

\* An operator chooses the oldest panel left when it has found no primary among
\* them, and at no other point.
LEMMA WhoChooses ==
  ASSUME Typed, TablesStep, RowsKept, NEW o \in Operators, PromotionFits(o),
         Uk!Operate(o)
  PROVE  PromotionFits(o)'
<1>0. /\ ureq[o] \in Uk!UkRequests /\ ureq \in [Operators -> Uk!UkRequests]
      /\ upc \in [Operators -> Uk!UkLabels] /\ Uk!UkTypeOK /\ OperatorOK(o)
  BY DEF Typed, Uk!UkTypeOK, Uk!UkLabels
<1>1. ASSUME ureq'[o].chosen = 0, upc'[o] # "pick" PROVE PromotionFits(o)'
  BY <1>1 DEF PromotionFits
<1>2. CASE \/ Uk!StartIssue(o) \/ Uk!StartPanel(o) \/ Uk!StartRetry(o)
           \/ Uk!StartRemove(o) \/ Uk!StartUnlink(o)
  BY <1>1, <1>2, StartedTyped
<1>3. CASE Uk!CreateRefused(o) \/ Uk!Lose(o)
  BY <1>0, <1>1, <1>3 DEF Uk!CreateRefused, Uk!Lose, Uk!Finish, Uk!At, Uk!Note, Uk!Idle
<1>4. CASE \E p \in Panels : Uk!CreateIssue(o, p) \/ Uk!CreateProgramming(o, p)
  <2>1. PICK i, p : Uk!AddProgramming(o, i, p, TRUE) \/ Uk!AddProgramming(o, i, p, FALSE)
    BY <1>4 DEF Uk!CreateIssue, Uk!CreateProgramming
  <2>2. upc[o] \in {"create", "more"}
    BY <1>4 DEF Uk!CreateIssue, Uk!CreateProgramming
  <2>3. ureq[o].chosen = 0
    BY <2>2 DEF PromotionFits
  <2>4. ureq'[o] = [ureq[o] EXCEPT !.issue = i, !.more = @ \ {p},
                                   !.queue = @ \cup {Len(programmings) + 1}]
    BY <1>0, <2>1 DEF Uk!AddProgramming, Uk!Note
  <2>5. ureq'[o].chosen = 0
    BY <1>0, <2>3, <2>4 DEF Uk!UkRequests
  <2>6. upc'[o] # "pick"
    BY <1>0, <2>1 DEF Uk!AddProgramming, Uk!At
  <2> QED BY <1>1, <2>5, <2>6
<1>5. CASE \E g \in DOMAIN programmings : Uk!Call(o, g)
  <2>1. PICK g, answer : upc[o] = "call" /\ Uk!At(o, "record")
          /\ Uk!Note(o, [ureq[o] EXCEPT !.current = g, !.answer = answer])
    BY <1>5 DEF Uk!Call
  <2>2. ureq[o].chosen = 0
    BY <2>1 DEF PromotionFits
  <2>3. ureq'[o] = [ureq[o] EXCEPT !.current = g, !.answer = answer]
        /\ upc'[o] = "record"
    BY <1>0, <2>1 DEF Uk!Note, Uk!At
  <2>4. ureq'[o].chosen = 0
    BY SMTT(60), <1>0, <2>2, <2>3 DEF Uk!UkRequests
  <2> QED BY <1>1, <2>3, <2>4
<1>6. CASE Uk!RecordAdded(o) \/ Uk!RecordFailed(o)
  BY <1>0, <1>1, <1>6 DEF Uk!RecordAdded, Uk!RecordFailed, Uk!At, PromotionFits
<1>7. CASE Uk!RecordConflict(o) \/ Uk!RecordPanel(o)
  <2>1. ureq[o].chosen = 0
    BY <1>7 DEF Uk!RecordConflict, Uk!RecordPanel, PromotionFits
  <2>2. CASE Uk!Finish(o)
    BY <1>0, <1>1, <2>2 DEF Uk!Finish, Uk!At, Uk!Note, Uk!Idle
  <2>3. CASE ~Uk!Finish(o)
    <3>1. PICK rest : Uk!At(o, "call") /\ Uk!Note(o, [ureq[o] EXCEPT !.queue = rest])
      BY <1>7, <2>3 DEF Uk!RecordConflict, Uk!RecordPanel
    <3>2. ureq'[o] = [ureq[o] EXCEPT !.queue = rest] /\ upc'[o] = "call"
      BY <1>0, <3>1 DEF Uk!At, Uk!Note
    <3>3. ureq'[o].chosen = 0
      BY <1>0, <2>1, <3>2 DEF Uk!UkRequests
    <3> QED BY <1>1, <3>2, <3>3
  <2> QED BY <2>2, <2>3
<1>8. CASE Uk!Deactivate(o)
  BY <1>0, <1>1, <1>8 DEF Uk!Deactivate, Uk!Go, Uk!At, PromotionFits
<1>9. CASE Uk!SeekPrimary(o)
  <2>1. upc[o] = "promote" /\ UNCHANGED <<programmings, ureq>> /\ ureq[o].chosen = 0
    BY <1>9 DEF Uk!SeekPrimary, Uk!Go, Uk!company, PromotionFits
  <2>2. CASE upc'[o] # "pick"
    BY <1>1, <2>1, <2>2
  <2>3. CASE upc'[o] = "pick"
    <3>1. \A h \in Uk!Left(o) : ~programmings[h].primary
      BY <1>0, <1>9, <2>3 DEF Uk!SeekPrimary, Uk!Go, Uk!At, Uk!Promoted
    <3>2. PrimaryFirst(ureq[o].current)
      BY <3>1 DEF PrimaryFirst, Rest, Uk!Left
    <3>3. PrimaryFirst(ureq[o].current)'
      BY <2>1, <3>2 DEF PrimaryFirst, Rest, Uk!ActiveOf
    <3> QED BY <2>1, <3>3 DEF PromotionFits
  <2> QED BY <2>2, <2>3
<1>10. CASE Uk!PickOldest(o)
  <2>1. /\ upc[o] = "pick" /\ UNCHANGED programmings /\ ureq[o].chosen = 0
        /\ PrimaryFirst(ureq[o].current)
    BY <1>10 DEF Uk!PickOldest, Uk!Go, Uk!company, PromotionFits
  <2>2. CASE Uk!Left(o) = {}
    BY <1>0, <1>1, <1>10, <2>1, <2>2 DEF Uk!PickOldest, Uk!Go, Uk!At, Uk!Promoted
  <2>3. CASE Uk!Left(o) # {}
    <3>1. PICK c : c = CHOOSE g \in Uk!Left(o) : \A h \in Uk!Left(o) : g <= h
      OBVIOUS
    <3>2. c \in Uk!Left(o) /\ \A h \in Uk!Left(o) : c <= h
      BY <1>0, <2>3, <3>1, OldestPicked
    <3>3. ureq'[o] = [ureq[o] EXCEPT !.chosen = c] /\ upc'[o] = "crown"
      BY <1>0, <1>10, <2>3, <3>1 DEF Uk!PickOldest, Uk!Go, Uk!At, Uk!Note
    <3>4. ureq'[o].chosen = c /\ ureq'[o].current = ureq[o].current
      BY <1>0, <3>3 DEF Uk!UkRequests
    <3>5. PICK g : g = ureq[o].current
      OBVIOUS
    <3>6. PrimaryFirst(g) /\ ChosenFirst(g, c)
      BY <2>1, <3>2, <3>5 DEF ChosenFirst, Rest, Uk!Left, Uk!ActiveOf
    <3>7. PrimaryFirst(g)' /\ ChosenFirst(g, c)'
      BY <2>1, <3>6 DEF PrimaryFirst, ChosenFirst, Rest, Uk!ActiveOf
    <3> QED BY <3>3, <3>4, <3>5, <3>7 DEF PromotionFits
  <2> QED BY <2>2, <2>3
<1>11. CASE Uk!PromotePrimary(o) \/ Uk!SeekActive(o)
  <2>1. /\ UNCHANGED programmings /\ upc'[o] \in {"empty", "commit"}
        /\ upc[o] \in {"crown", "empty"}
    BY <1>0, <1>11 DEF Uk!PromotePrimary, Uk!SeekActive, Uk!Go, Uk!At, Uk!company,
                       Uk!Promoted
  <2>2. ureq'[o].chosen = ureq[o].chosen /\ ureq'[o].current = ureq[o].current
    <3>1. CASE Uk!PromotePrimary(o)
      BY <3>1 DEF Uk!PromotePrimary
    <3>2. CASE Uk!SeekActive(o)
      <4>1. PICK b : ureq'[o] = [ureq[o] EXCEPT !.emptied = b]
        BY <1>0, <3>2 DEF Uk!SeekActive, Uk!Note
      <4> QED BY <1>0, <4>1 DEF Uk!UkRequests
    <3> QED BY <1>11, <3>1, <3>2
  <2>3. CASE ureq[o].chosen = 0
    BY <1>1, <2>1, <2>2, <2>3
  <2>4. CASE ureq[o].chosen # 0
    <3>1. PICK g, c : g = ureq[o].current /\ c = ureq[o].chosen
      OBVIOUS
    <3>2. PrimaryFirst(g) /\ ChosenFirst(g, c)
      BY <2>4, <3>1 DEF PromotionFits
    <3>3. PrimaryFirst(g)' /\ ChosenFirst(g, c)'
      BY <2>1, <3>2 DEF PrimaryFirst, ChosenFirst, Rest, Uk!ActiveOf
    <3> QED BY <2>1, <2>2, <3>1, <3>3 DEF PromotionFits
  <2> QED BY <2>3, <2>4
<1>12. CASE Uk!Commit(o)
  <2>1. CASE Uk!Finish(o)
    BY <1>0, <1>1, <2>1 DEF Uk!Finish, Uk!At, Uk!Note, Uk!Idle
  <2>2. CASE ~Uk!Finish(o)
    <3>1. ureq'[o] = [ureq[o] EXCEPT !.chosen = 0, !.emptied = FALSE]
          /\ upc'[o] = "row"
      BY <1>0, <1>12, <2>2 DEF Uk!Commit, Uk!At, Uk!Note
    <3>2. ureq'[o].chosen = 0
      BY <1>0, <3>1 DEF Uk!UkRequests
    <3> QED BY SMTT(60), <1>1, <3>1, <3>2
  <2> QED BY <2>1, <2>2
<1> QED BY <1>2, <1>3, <1>4, <1>5, <1>6, <1>7, <1>8, <1>9, <1>10, <1>11, <1>12
        DEF Uk!Operate

\* What another operator has read and chosen stays good.
LEMMA OthersChose ==
  ASSUME Typed, RowsKept, NEW q \in Operators, PromotionFits(q),
         upc'[q] = upc[q], ureq'[q] = ureq[q]
  PROVE  PromotionFits(q)'
<1>1. ureq[q].chosen \in DOMAIN programmings \cup {0} /\ OperatorOK(q)
  BY DEF Typed, Uk!UkTypeOK, Uk!UkRequests
<1>2. CASE upc[q] # "pick" /\ ureq[q].chosen = 0
  BY <1>2 DEF PromotionFits
<1>3. CASE upc[q] = "pick" \/ ureq[q].chosen # 0
  <2>1. PICK g \in DOMAIN programmings : g = ureq[q].current
    BY <1>1, <1>3 DEF PromotionFits, OperatorOK, TxLabels
  <2>2. PICK c : c = ureq[q].chosen
    OBVIOUS
  <2>3. PrimaryFirst(g) /\ (c # 0 => ChosenFirst(g, c) /\ c \in DOMAIN programmings)
    BY <1>1, <1>3, <2>1, <2>2 DEF PromotionFits
  <2>4. PrimaryFirst(g)' /\ (c # 0 => ChosenFirst(g, c)')
    BY <2>3 DEF RowsKept
  <2> QED BY <2>1, <2>2, <2>4 DEF PromotionFits
<1> QED BY <1>2, <1>3

\* Every step of both sides keeps one primary per issue.
LEMMA PrimariesKept ==
  ASSUME Typed, TablesFit, PrimariesFit, [BothNext]_allVars PROVE PrimariesFit'
<1>0. Uk!OnePrimary /\ \A q \in Operators : PromotionFits(q)
  BY DEF PrimariesFit
<1>1. CASE CompanyStep
  <2>1. PICK o \in Operators : Uk!Operate(o)
    BY <1>1 DEF CompanyStep, Uk!UkNext
  <2>2. RowsKept
    BY <1>0, <2>1, WhoPromotes, QuietKeeps, CommitKeeps
  <2>3. TablesStep /\ OnlyOperator(o)
    BY <2>1, OperateTables, OperateControl DEF ControlStep
  <2>4. \A q \in Operators : PromotionFits(q)'
    <3> SUFFICES ASSUME NEW q \in Operators PROVE PromotionFits(q)'
      OBVIOUS
    <3>1. CASE q = o
      BY <1>0, <2>1, <2>2, <2>3, <3>1, WhoChooses
    <3>2. CASE q # o
      BY <1>0, <2>2, <2>3, <3>2, OthersChose DEF OnlyOperator
    <3> QED BY <3>1, <3>2
  <2> QED BY <2>2, <2>4 DEF PrimariesFit, RowsKept
<1>2. CASE UNCHANGED allVars \/ \E r \in Requests : LifecycleStep(r)
  <2>1. UNCHANGED <<upc, ureq>>
    BY <1>2 DEF allVars, LifecycleStep
  <2>2. QuietRows
    <3>1. CASE UNCHANGED programmings
      BY <3>1 DEF QuietRows
    <3>2. CASE \E k \in Keys : Uk!CloseIssues(k)
      BY <3>2, IssuesClosed DEF QuietRows, Typed
    <3>3. UNCHANGED programmings \/ \E k \in Keys : Uk!CloseIssues(k)
      BY <1>2 DEF allVars, LifecycleStep, Released, Typed, TypeInv, RequestOK
    <3> QED BY <3>1, <3>2, <3>3
  <2>3. RowsKept
    BY <1>0, <2>2, QuietKeeps
  <2>4. \A q \in Operators : PromotionFits(q)'
    BY <1>0, <2>1, <2>3, OthersChose
  <2> QED BY <2>3, <2>4 DEF PrimariesFit, RowsKept
<1> QED BY <1>1, <1>2 DEF BothNext

\* However many panels of an issue are unlinked and removed at a time, each by
\* statements that take turns with those of the others, the issue has one active
\* primary at most: unlink_programming, record_crm_result and
\* _promote_primary_on_connection never run into the unique index.  Panels are
\* ordered as their additions were committed.
THEOREM OnePrimaryHolds == BothSpec => []CompanyOnePrimary
<1>1. BothInit => PrimariesFit
  <2> SUFFICES ASSUME BothInit PROVE PrimariesFit
    OBVIOUS
  <2>1. programmings = <<>>
    BY DEF BothInit, Uk!UkInit
  <2>2. upc = [o \in Operators |-> "idle"] /\ ureq = [o \in Operators |-> Uk!Idle]
    BY DEF BothInit, Uk!UkInit
  <2>3. Uk!OnePrimary
    BY <2>1 DEF Uk!OnePrimary
  <2>4. \A o \in Operators : PromotionFits(o)
    BY <2>2 DEF PromotionFits, Uk!Idle
  <2> QED BY <2>3, <2>4 DEF PrimariesFit
<1>2. Typed /\ TablesFit /\ PrimariesFit /\ [BothNext]_allVars => PrimariesFit'
  BY PrimariesKept
<1>3. PrimariesFit => CompanyOnePrimary
  BY DEF PrimariesFit, CompanyOnePrimary
<1> QED BY <1>1, <1>2, <1>3, CompanyTables, PTL DEF BothSpec

-----------------------------------------------------------------------------
(* The key card only releases.                                             *)

\* A request of the key card begins as a release.
LEMMA ReleaseBegun ==
  ASSUME TypeInv, NEW r \in Requests, Begin(r)
  PROVE  /\ pc[r] = "idle" /\ pc'[r] = "find" /\ req'[r].kind = "release"
         /\ UNCHANGED <<store, crm, unconfirmed>> /\ jobs' = jobs + 1
<1>0. TypeOK
  BY DEF TypeInv
<1>1. ASSUME NEW kind \in {"write", "add"} \cup OpTypes, NEW k \in Keys,
             NEW v, NEW w, NEW x, NEW y
      PROVE  LET s == Snapshot(kind, k)
             IN /\ [s EXCEPT !.final = v].kind = kind
                /\ [s EXCEPT !.where = v, !.wanted = w].kind = kind
                /\ [[s EXCEPT !.where = v, !.wanted = w]
                       EXCEPT !.target = x, !.to = y].kind = kind
                /\ [s EXCEPT !.new = v, !.final = w, !.seen = x].kind = kind
                /\ [s EXCEPT !.where = v, !.todo = w, !.pending = x].kind = kind
                /\ [s EXCEPT !.where = v, !.todo = w, !.pending = x,
                             !.known = y].kind = kind
  <2>1. Snapshot(kind, k) \in RequestRecords /\ Snapshot(kind, k).kind = kind
    BY <1>0, SnapshotTyped
  <2> QED BY <2>1 DEF RequestRecords
<1>2. {"release", "reassign", "replace"} \subseteq OpTypes
  BY DEF OpTypes
<1>3. ASSUME NEW ks, NEW label, NEW request, Start(r, ks, label, request)
      PROVE  request.kind = "release"
  BY <1>3, KindsAssumption DEF Start
<1>4. StartRelease(r)
  <2>1. ~StartReassign(r)
    <3> SUFFICES ASSUME StartReassign(r) PROVE FALSE
      OBVIOUS
    <3>1. PICK k \in Keys, where \in Places, wanted \in (SUBSET Panels) \ {{}} :
            \E request \in
              {[Snapshot("reassign", k) EXCEPT !.where = where, !.wanted = wanted],
               [[Snapshot("reassign", k) EXCEPT !.where = where, !.wanted = wanted]
                 EXCEPT !.target = wanted, !.to = where]} :
              Start(r, {k}, "find", request)
      BY DEF StartReassign
    <3>2. [Snapshot("reassign", k) EXCEPT !.where = where,
                                          !.wanted = wanted].kind = "reassign"
      BY <1>1, <1>2
    <3>3. [[Snapshot("reassign", k) EXCEPT !.where = where, !.wanted = wanted]
             EXCEPT !.target = wanted, !.to = where].kind = "reassign"
      BY <1>1, <1>2
    <3> QED BY <1>3, <3>1, <3>2, <3>3
  <2>2. ~StartReplace(r)
    <3> SUFFICES ASSUME StartReplace(r) PROVE FALSE
      OBVIOUS
    <3>1. PICK old, new \in Keys :
            Start(r, {old, new}, "find",
                  [Snapshot("replace", old) EXCEPT
                     !.new = new, !.final = "retired", !.seen = keyStatus[new]])
      BY DEF StartReplace
    <3>2. ([Snapshot("replace", old) EXCEPT
              !.new = new, !.final = "retired", !.seen = keyStatus[new]]).kind = "replace"
      BY <1>1, <1>2
    <3> QED BY <1>3, <3>1, <3>2
  <2>3. ~StartWrite(r)
    <3> SUFFICES ASSUME StartWrite(r) PROVE FALSE
      OBVIOUS
    <3>1. PICK k \in Keys, where \in Places, panels \in (SUBSET Panels) \ {{}} :
            Start(r, {k}, "lock",
                  [Snapshot("write", k) EXCEPT
                     !.where = where, !.todo = panels, !.pending = panels])
      BY DEF StartWrite
    <3>2. ([Snapshot("write", k) EXCEPT
              !.where = where, !.todo = panels, !.pending = panels]).kind = "write"
      BY <1>1
    <3> QED BY <1>3, <3>1, <3>2
  <2>4. ~StartAdd(r)
    <3> SUFFICES ASSUME StartAdd(r) PROVE FALSE
      OBVIOUS
    <3>1. PICK k \in Keys, where \in Places, panels \in (SUBSET Panels) \ {{}},
               known \in SUBSET Panels :
            Start(r, {k}, "lock",
                  [Snapshot("add", k) EXCEPT !.where = where,
                     !.todo = panels, !.pending = panels, !.known = known])
      BY DEF StartAdd, Live
    <3>2. ([Snapshot("add", k) EXCEPT !.where = where,
              !.todo = panels, !.pending = panels, !.known = known]).kind = "add"
      BY <1>1
    <3> QED BY <1>3, <3>1, <3>2
  <2> QED BY <2>1, <2>2, <2>3, <2>4 DEF Begin
<1>5. PICK ks, request : Start(r, ks, "find", request)
  BY <1>4 DEF StartRelease
<1>6. request.kind = "release"
  BY <1>3, <1>5
<1>7. Go(r, "find") /\ Update(r, request)
  BY <1>5 DEF Start
<1>8. pc'[r] = "find" /\ req'[r] = request
  BY <1>0, <1>7 DEF Go, Update, TypeOK
<1> QED BY <1>5, <1>6, <1>8 DEF Start, Admit

\* The steps of a release.
ReleaseActs(r) ==
  \/ FindOperation(r) \/ ResumeOperation(r) \/ CreateOperation(r)
  \/ MarkPending(r) \/ BeginDelete(r)
  \/ \E p \in Panels : SendRemove(r, p)
  \/ RecordRow(r) \/ RecordStep(r) \/ FailDelete(r) \/ EndDelete(r)
  \/ Finalize(r) \/ FinalizeRefused(r) \/ CloseRelease(r)
  \/ Answer(r) \/ Crash(r)

\* A release stays one: it makes no step of a writer.
LEMMA ReleaseWork ==
  ASSUME ReleasesOnly, NEW r \in Requests, LifecycleStep(r), ~Begin(r)
  PROVE  ReleaseActs(r) /\ pc[r] # "idle"
<1>1. Progress(r) \/ Crash(r)
  BY DEF LifecycleStep
<1>2. pc[r] # "idle" /\ pc[r] \in ReleaseLabels /\ req[r].kind = "release"
  BY <1>1, ActsBusy DEF ReleasesOnly
<1>3. ~SkipFinalize(r) /\ ~EnsureWrite(r) /\ ~RecordAdd(r) /\ ~ReturnFromWriter(r)
  BY <1>2 DEF SkipFinalize, ResumedWritePhase, EnsureWrite, RecordAdd,
              ReturnFromWriter, ReleaseLabels
<1>4. \A p \in Panels : ~SkipKnown(r, p) /\ ~RefuseWrite(r, p) /\ ~SendAdd(r, p)
  BY <1>2 DEF SkipKnown, RefuseWrite, SendAdd, ReleaseLabels
<1>5. (\A p \in Panels : ~RecordWritten(r, p)) /\ ~FinishReassign(r) /\ ~FinishReplace(r)
  BY <1>2 DEF RecordWritten, FinishReassign, FinishReplace, ReleaseLabels
<1>6. ~AssignNew(r) /\ ~CloneAccesses(r) /\ ~CompleteReplace(r)
  BY <1>2 DEF AssignNew, CloneAccesses, CompleteReplace, ReleaseLabels
<1> QED BY <1>1, <1>2, <1>3, <1>4, <1>5, <1>6 DEF Progress, ReleaseActs

\* The key card goes on releasing.
LEMMA ReleasesKept ==
  ASSUME TypeInv, ReleasesOnly, NEW r \in Requests, LifecycleStep(r)
  PROVE  ReleasesOnly'
<1>0. Acts(r) /\ pc \in [Requests -> Labels]
  BY DEF LifecycleStep, Acts, TypeInv, TypeOK
<1>1. \A s \in Requests \ {r} : pc'[s] = pc[s] /\ req'[s] = req[s]
  BY <1>0, ActsMove DEF OnlyMoves
<1>2. CASE Begin(r)
  <2>1. pc'[r] \in ReleaseLabels /\ req'[r].kind = "release"
    BY <1>2, ReleaseBegun DEF ReleaseLabels
  <2> QED BY <1>1, <2>1 DEF ReleasesOnly
<1>3. CASE ~Begin(r)
  <2>1. ReleaseActs(r) /\ pc[r] # "idle" /\ (Progress(r) \/ Crash(r))
    BY <1>3, ReleaseWork DEF LifecycleStep
  <2>2. req[r].kind = "release"
    BY <2>1 DEF ReleasesOnly
  <2>3. pc'[r] # "idle" => req'[r].kind = "release"
    BY <2>1, <2>2, KeysKept DEF SameKeys
  <2>4. pc'[r] \in ReleaseLabels
    <3>1. CASE \/ FindOperation(r) \/ ResumeOperation(r) \/ CreateOperation(r)
               \/ MarkPending(r) \/ BeginDelete(r) \/ RecordRow(r)
               \/ RecordStep(r) \/ EndDelete(r)
               \/ \E p \in Panels : SendRemove(r, p)
      BY <1>0, <3>1 DEF FindOperation, ResumeOperation, CreateOperation,
         MarkPending, BeginDelete, RecordRow, RecordStep, EndDelete, SendRemove,
         Go, ReleaseLabels
    <3>2. CASE \/ FailDelete(r) \/ Finalize(r) \/ FinalizeRefused(r)
               \/ CloseRelease(r) \/ Answer(r) \/ Crash(r)
      BY <1>0, <2>2, <3>2 DEF FailDelete, Finalize, FinalizeRefused,
         CloseRelease, Answer, Crash, Reply, Go, ReleaseLabels
    <3> QED BY SMTT(60), <2>1, <3>1, <3>2 DEF ReleaseActs
  <2> QED BY <1>1, <2>3, <2>4 DEF ReleasesOnly
<1> QED BY <1>2, <1>3

\* What a step of the key card does to the CRM and to the key, which is freed
\* in the step that closes its issues.
LEMMA ReleaseEffects ==
  ASSUME TypeInv, ReleasesOnly, NEW r \in Requests, LifecycleStep(r)
  PROVE  /\ UNCHANGED unconfirmed
         /\ \A k \in Keys : crm'[k] \subseteq crm[k]
         /\ ~Released(r) => UNCHANGED <<keyStatus, place>>
         /\ Released(r) =>
              /\ UNCHANGED crm /\ Live(req[r].key) = {}
              /\ \A k \in Keys \ {req[r].key} :
                   keyStatus'[k] = keyStatus[k] /\ place'[k] = place[k]
<1>0. /\ pc \in [Requests -> Labels] /\ crm \in [Keys -> SUBSET Panels]
      /\ keyStatus \in [Keys -> KeyStatuses]
      /\ place \in [Keys -> Places \cup {NoPlace}]
  BY DEF TypeInv, TypeOK, StoreTypeOK
<1>1. CASE Begin(r)
  BY <1>1, ReleaseBegun DEF Released, store
<1>2. CASE ~Begin(r)
  <2>1. /\ ReleaseActs(r) /\ pc[r] \in ReleaseLabels /\ req[r].kind = "release"
    BY <1>2, ReleaseWork DEF ReleasesOnly
  <2>2. CASE \/ FindOperation(r) \/ ResumeOperation(r) \/ CreateOperation(r)
             \/ MarkPending(r) \/ BeginDelete(r) \/ RecordRow(r)
             \/ RecordStep(r) \/ EndDelete(r)
    BY <1>0, <2>2 DEF FindOperation, ResumeOperation, CreateOperation,
       MarkPending, BeginDelete, RecordRow, RecordStep, EndDelete, Released, store
  <2>3. CASE \E p \in Panels : SendRemove(r, p)
    <3>1. PICK p \in Panels : SendRemove(r, p)
      BY <2>3
    <3>2. /\ UNCHANGED <<unconfirmed, keyStatus, place>> /\ ~Released(r)
          /\ crm' = [crm EXCEPT ![req[r].key] = @ \ {p}] \/ crm' = crm
      BY <3>1 DEF SendRemove, store, Released
    <3> QED BY <1>0, <3>2
  <2>4. CASE Finalize(r)
    <3>1. /\ Released(r) /\ UNCHANGED <<crm, unconfirmed>> /\ Live(req[r].key) = {}
      BY <1>0, <2>1, <2>4 DEF Finalize, Released, Go, CanFinalize
    <3>2. /\ place' = [place EXCEPT ![req[r].key] = NoPlace]
          /\ \E final : keyStatus' = [keyStatus EXCEPT ![req[r].key] = final]
      BY <2>4 DEF Finalize, FinalizeRelease
    <3> QED BY <1>0, <3>1, <3>2
  <2>5. CASE \/ FailDelete(r) \/ FinalizeRefused(r) \/ CloseRelease(r) \/ Answer(r)
    BY <1>0, <2>5 DEF FailDelete, FinalizeRefused, CloseRelease, Answer, Reply,
       Go, Released, store
  <2>6. CASE Crash(r)
    BY <1>0, <2>1, <2>6 DEF Crash, Go, Released, store, ReleaseLabels
  <2> QED BY <2>1, <2>2, <2>3, <2>4, <2>5, <2>6 DEF ReleaseActs
<1> QED BY <1>1, <1>2

-----------------------------------------------------------------------------
(* Whose turn it is.                                                       *)

\* Which steps an operator begins with, and which one it goes on with.
LEMMA OperateMoves ==
  ASSUME Typed, TablesFit, NEW o \in Operators, Uk!Operate(o)
  PROVE  /\ OnlyOperator(o)
         /\ \/ upc[o] # "idle"
            \/ /\ upc'[o] # "idle"
               /\ schedule.alone => \A q \in Operators : upc[q] = "idle"
<1>1. OnlyOperator(o) /\ upc \in [Operators -> Uk!UkLabels]
  BY OperateTables, OperateControl DEF ControlStep, Typed, Uk!UkTypeOK, Uk!UkLabels
<1>2. CASE \/ Uk!StartIssue(o) \/ Uk!StartPanel(o) \/ Uk!StartRetry(o)
           \/ Uk!StartRemove(o) \/ Uk!StartUnlink(o)
  <2>1. /\ \E label \in {"create", "more", "call", "deactivate"} : Uk!At(o, label)
        /\ schedule.alone => \A q \in Operators : upc[q] = "idle"
    BY <1>2 DEF Uk!StartIssue, Uk!StartPanel, Uk!StartRetry, Uk!StartRemove,
       Uk!StartUnlink, Uk!StartOn, Uk!StartTask, Uk!Click
  <2> QED BY SMTT(60), <1>1, <2>1 DEF Uk!At
<1>3. CASE ~(\/ Uk!StartIssue(o) \/ Uk!StartPanel(o) \/ Uk!StartRetry(o)
             \/ Uk!StartRemove(o) \/ Uk!StartUnlink(o))
  <2>1. upc[o] # "idle"
    BY <1>3 DEF Uk!Operate, Uk!CreateIssue, Uk!CreateProgramming, Uk!CreateRefused,
       Uk!Call, Uk!RecordAdded, Uk!RecordConflict, Uk!RecordFailed, Uk!Deactivate,
       Uk!SeekPrimary, Uk!PickOldest, Uk!PromotePrimary, Uk!SeekActive, Uk!Commit,
       Uk!RecordPanel, Uk!Lose
  <2> QED BY SMTT(60), <1>1, <2>1
<1> QED BY <1>2, <1>3

\* While an operator works, the key card is not used, nor is another operator
\* at work if the tasks follow each other.
LEMMA OperatorTurn ==
  ASSUME ~Overlap, Typed, TablesFit, Turns, BothNext, CompanyStep,
         NEW o \in Operators, Uk!Operate(o)
  PROVE  /\ \A r \in Requests : pc[r] = "idle"
         /\ schedule.alone => \A q \in Operators \ {o} :
              upc[q] = "idle" /\ upc'[q] = "idle"
<1>1. Apart /\ Apart' /\ UNCHANGED pc
  BY DEF Turns, BothNext, CompanyStep
<1>2. \/ upc[o] # "idle"
      \/ /\ upc'[o] # "idle"
         /\ schedule.alone => \A q \in Operators : upc[q] = "idle"
  BY OperateMoves
<1>3. \A q \in Operators \ {o} : upc'[q] = upc[q]
  BY OperateMoves DEF OnlyOperator
<1>4. \A r \in Requests : pc[r] = "idle"
  BY <1>1, <1>2 DEF Apart
<1>5. schedule.alone => \A q \in Operators \ {o} : upc[q] = "idle"
  BY <1>2 DEF Turns
<1> QED BY <1>3, <1>4, <1>5

\* While the key card is used, no operator is at work, the tasks follow each
\* other and no worker is lost.
LEMMA CardTurn ==
  ASSUME ~Overlap, Orderly, Typed, TablesFit, Turns, BothNext,
         NEW r \in Requests, LifecycleStep(r)
  PROVE  /\ schedule.alone /\ schedule.losses = 0 /\ schedule.releases > 0
         /\ \A o \in Operators : upc[o] = "idle" /\ upc'[o] = "idle"
<1>1. /\ Apart /\ Apart' /\ UNCHANGED <<upc, schedule>> /\ jobs' <= schedule.releases
      /\ TypeInv
  BY DEF Turns, BothNext, LifecycleStep, Typed
<1>2. schedule.releases \in Nat /\ schedule \in Schedules /\ jobs \in Nat
  BY SchedulesAssumption DEF Typed, Uk!ScheduleRecords, TypeInv, TypeOK
<1>3. CASE Begin(r)
  <2>1. pc'[r] # "idle" /\ jobs' = jobs + 1
    BY <1>1, <1>3, ReleaseBegun
  <2>2. schedule.releases > 0
    BY <1>1, <1>2, <2>1
  <2>3. \A o \in Operators : upc'[o] = "idle"
    BY <1>1, <2>1 DEF Apart
  <2> QED BY <1>1, <1>2, <2>2, <2>3 DEF Orderly
<1>4. CASE Progress(r) \/ Crash(r)
  <2>1. pc[r] # "idle"
    BY <1>4, ActsBusy
  <2>2. schedule.releases > 0
    BY <1>2, <2>1 DEF Turns
  <2>3. \A o \in Operators : upc[o] = "idle"
    BY <1>1, <2>1 DEF Apart
  <2> QED BY <1>1, <1>2, <2>2, <2>3 DEF Orderly
<1> QED BY <1>3, <1>4 DEF LifecycleStep

\* The turns are kept.
LEMMA TurnsKept ==
  ASSUME ~Overlap, Orderly, Typed, TablesFit, ReleasesOnly, Turns, [BothNext]_allVars
  PROVE  ReleasesOnly' /\ Turns'
<1>1. CASE UNCHANGED allVars
  BY <1>1 DEF allVars, vars, ReleasesOnly, Turns, Apart
<1>2. CASE BothNext /\ CompanyStep
  <2>1. UNCHANGED <<pc, req, schedule>> /\ Apart'
    BY <1>2 DEF CompanyStep, BothNext, Uk!UkNext
  <2>2. ReleasesOnly'
    BY <2>1 DEF ReleasesOnly
  <2>3. PICK o \in Operators : Uk!Operate(o)
    BY <1>2 DEF CompanyStep, Uk!UkNext
  <2>4. schedule.alone => \A q \in Operators \ {o} : upc'[q] = "idle"
    BY <1>2, <2>3, OperatorTurn
  <2> QED BY <2>1, <2>2, <2>4 DEF Turns
<1>3. CASE BothNext /\ \E r \in Requests : LifecycleStep(r)
  <2>1. PICK r \in Requests : LifecycleStep(r)
    BY <1>3
  <2>2. /\ schedule.releases > 0 /\ UNCHANGED schedule
        /\ \A o \in Operators : upc'[o] = "idle"
    BY <1>3, <2>1, CardTurn DEF LifecycleStep
  <2>3. ReleasesOnly'
    BY <2>1, ReleasesKept DEF Typed
  <2>4. schedule.releases \in Nat /\ schedule'.releases # 0
    BY <2>2, SchedulesAssumption DEF Typed, Uk!ScheduleRecords
  <2> QED BY <2>2, <2>3, <2>4 DEF Turns, Apart
<1> QED BY <1>1, <1>2, <1>3 DEF BothNext

-----------------------------------------------------------------------------
(* The books, step by step: an operator alone at work.                     *)

AtWork(o) ==
  /\ Typed /\ TablesFit /\ TablesStep /\ IssuesFit /\ CrmFits
  /\ schedule.alone /\ "unlink" \notin schedule.kinds
  /\ \A r \in Requests : pc[r] = "idle"
  /\ \A q \in Operators \ {o} : upc[q] = "idle" /\ upc'[q] = "idle"
  /\ UNCHANGED <<pc, req, schedule>>

\* Nobody unlinks a panel there.
LEMMA NoUnlink ==
  ASSUME NEW o \in Operators, AtWork(o), Uk!StartUnlink(o) PROVE FALSE
BY DEF AtWork, Uk!StartUnlink, Uk!StartOn, Uk!StartTask, Uk!Click

\* What has to be shown of a step of the operator.
LEMMA WorkDone ==
  ASSUME NEW o \in Operators, AtWork(o), ActiveFits', IssuedFits', WaitingFits(o)',
         AnswerFits(o)', \A k \in Keys : OnProgrammings(k)',
         schedule.losses = 0 => \A k \in Keys : OnRows(k)'
  PROVE  (IssuesFit /\ CrmFits)'
<1>1. \A q \in Operators : WaitingFits(q)'
  BY DEF AtWork, WaitingFits
<1>2. \A q \in Operators : AnswerFits(q)'
  BY DEF AtWork, AnswerFits, TxLabels
<1>3. Disjoint' /\ \A r \in Requests : InHand(r)'
  BY DEF AtWork, Disjoint, InHand, RemovedIsGone, KnownCovers, Writing
<1>4. IssuesFit'
  BY <1>1 DEF IssuesFit
<1>5. schedule' = schedule
  BY DEF AtWork
<1>6. CrmFits'
  BY <1>2, <1>3, <1>5 DEF CrmFits
<1> QED BY <1>4, <1>6

\* What has to be known of the tables at such a step.
LEMMA WorkFacts ==
  ASSUME NEW o \in Operators, AtWork(o)
  PROVE  /\ Uk!UkTypeOK /\ ureq[o] \in Uk!UkRequests /\ OperatorOK(o)
         /\ crm \in [Keys -> SUBSET Panels] /\ unconfirmed \in [Keys -> SUBSET Panels]
         /\ row \in [Keys -> [Panels -> RowStates]]
         /\ \A i \in DOMAIN issues : issues[i] \in Uk!Issues
         /\ \A g \in DOMAIN programmings :
              /\ programmings[g] \in Uk!Programmings /\ programmings[g].panel \in Panels
              /\ programmings[g].issue \in DOMAIN issues
              /\ Uk!KeyOf(g) \in Keys /\ Uk!KeyOf(g) = issues[programmings[g].issue].key
<1>1. Uk!UkTypeOK /\ OperatorOK(o) /\ TypeOK
  BY DEF AtWork, Typed, TypeInv
<1>2. ureq[o] \in Uk!UkRequests
  BY <1>1 DEF Uk!UkTypeOK
<1>3. /\ crm \in [Keys -> SUBSET Panels] /\ unconfirmed \in [Keys -> SUBSET Panels]
      /\ row \in [Keys -> [Panels -> RowStates]]
  BY <1>1 DEF TypeOK, StoreTypeOK
<1> QED BY <1>1, <1>2, <1>3, Rows DEF Uk!KeyOf, Uk!Programmings

\* Only the operator at work can have a create in hand.
LEMMA WhoAdds ==
  ASSUME NEW o \in Operators, AtWork(o), NEW k, NEW p,
         NEW labels \in SUBSET {"record", "row"}, Adding(labels, k, p)
  PROVE  /\ upc[o] \in labels /\ Uk!Adds(o) /\ ureq[o].answer
         /\ Uk!KeyOf(ureq[o].current) = k /\ programmings[ureq[o].current].panel = p
BY DEF AtWork, Adding

\* What the books say of the CRM when no create is in hand.
LEMMA NothingAdded ==
  ASSUME NEW o \in Operators, AtWork(o),
         ~(upc[o] \in {"record", "row"} /\ Uk!Adds(o) /\ ureq[o].answer)
  PROVE  \A k \in Keys : \A p \in crm[k] :
           /\ p \in Uk!Accounted(k) \/ p \in unconfirmed[k]
           /\ schedule.losses = 0 => p \in Live(k) \/ p \in unconfirmed[k]
<1> SUFFICES ASSUME NEW k \in Keys, NEW p \in crm[k]
             PROVE  /\ p \in Uk!Accounted(k) \/ p \in unconfirmed[k]
                    /\ schedule.losses = 0 => p \in Live(k) \/ p \in unconfirmed[k]
  OBVIOUS
<1>1. ~Adding({"record"}, k, p)
  BY WhoAdds
<1>2. ~Adding({"record", "row"}, k, p)
  BY WhoAdds
<1>3. OnProgrammings(k) /\ (schedule.losses = 0 => OnRows(k))
  BY DEF AtWork, CrmFits
<1> QED BY <1>1, <1>2, <1>3 DEF OnProgrammings, OnRows

\* A successful programming on the books.
LEMMA AccountedBy ==
  ASSUME NEW k, NEW p
  PROVE  p \in Uk!Accounted(k) <=>
           \E g \in DOMAIN programmings :
             /\ Uk!KeyOf(g) = k /\ programmings[g].active
             /\ programmings[g].status = "success" /\ programmings[g].panel = p
BY DEF Uk!Accounted

\* A successful programming stays on the books as long as it is one.
LEMMA AccountedStays ==
  ASSUME NEW k, NEW p, p \in Uk!Accounted(k), Typed, TablesStep,
         \A g \in DOMAIN programmings :
           /\ Uk!KeyOf(g) = k /\ programmings[g].active
           /\ programmings[g].status = "success" /\ programmings[g].panel = p
           => /\ Uk!KeyOf(g)' = Uk!KeyOf(g) /\ programmings'[g].active
              /\ programmings'[g].status = "success" /\ programmings'[g].panel = p
  PROVE  p \in Uk!Accounted(k)'
<1>1. PICK g \in DOMAIN programmings :
        /\ Uk!KeyOf(g) = k /\ programmings[g].active
        /\ programmings[g].status = "success" /\ programmings[g].panel = p
  BY AccountedBy
<1>2. /\ g \in DOMAIN programmings' /\ Uk!KeyOf(g)' = k /\ programmings'[g].active
      /\ programmings'[g].status = "success" /\ programmings'[g].panel = p
  BY <1>1 DEF TablesStep
<1> QED BY <1>2 DEF Uk!Accounted

\* While a task has no create in hand and leaves the tables alone, the books of
\* the CRM stay as they are.
LEMMA QuietCrm ==
  ASSUME NEW o \in Operators, AtWork(o), UNCHANGED <<crm, unconfirmed, row>>,
         ~(upc[o] \in {"record", "row"} /\ Uk!Adds(o) /\ ureq[o].answer),
         \A g \in DOMAIN programmings :
           programmings'[g] = programmings[g] /\ Uk!KeyOf(g)' = Uk!KeyOf(g)
  PROVE  /\ \A k \in Keys : OnProgrammings(k)'
         /\ schedule.losses = 0 => \A k \in Keys : OnRows(k)'
<1>2. ASSUME NEW k \in Keys PROVE OnProgrammings(k)'
  <2>1. \A p \in crm[k] : p \in Uk!Accounted(k) \/ p \in unconfirmed[k]
    BY NothingAdded
  <2>2. \A p \in crm[k] : p \in Uk!Accounted(k) => p \in Uk!Accounted(k)'
    BY AccountedStays DEF AtWork
  <2> QED BY <2>1, <2>2 DEF OnProgrammings
<1>3. ASSUME NEW k \in Keys, schedule.losses = 0 PROVE OnRows(k)'
  <2>1. \A p \in crm[k] : p \in Live(k) \/ p \in unconfirmed[k]
    BY <1>3, NothingAdded
  <2>2. Live(k)' = Live(k)
    BY DEF Live
  <2> QED BY <2>1, <2>2 DEF OnRows
<1> QED BY <1>2, <1>3

\* Steps that change neither tables nor the store change nothing of the issues.
LEMMA QuietIssues ==
  ASSUME IssuesFit, UNCHANGED <<issues, programmings, keyStatus, place>>
  PROVE  ActiveFits' /\ IssuedFits'
BY DEF IssuesFit, ActiveFits, IssuedFits

\* A task begins with the programming its page has offered, if with any.
LEMMA StartedWaiting ==
  ASSUME NEW o \in Operators, AtWork(o),
         \/ Uk!StartIssue(o) \/ Uk!StartPanel(o) \/ Uk!StartRetry(o)
         \/ Uk!StartRemove(o)
  PROVE  /\ upc[o] = "idle" /\ upc'[o] \in {"create", "more", "call"}
         /\ UNCHANGED <<issues, programmings, keyStatus, place, row, crm, unconfirmed>>
         /\ WaitingFits(o)'
<1>0. /\ Typed /\ TablesStep /\ ActiveFits /\ upc \in [Operators -> Uk!UkLabels]
      /\ ureq \in [Operators -> Uk!UkRequests]
      /\ {"create", "more", "call"} \subseteq Uk!UkLabels
  BY DEF AtWork, Typed, Uk!UkTypeOK, Uk!UkLabels, IssuesFit
<1>00. /\ DOMAIN issues \subseteq Nat /\ \A i \in DOMAIN issues : issues[i].key \in Keys
       /\ \A g \in DOMAIN programmings :
            programmings[g].issue \in DOMAIN issues /\ Uk!KeyOf(g) \in Keys
  BY SMTT(60), <1>0, Rows DEF Typed, Uk!Issues
<1>1. PICK label \in {"create", "more", "call"} : Uk!At(o, label)
  BY DEF Uk!StartIssue, Uk!StartPanel, Uk!StartRetry, Uk!StartRemove,
     Uk!StartOn, Uk!StartTask
<1>2. /\ upc[o] = "idle"
      /\ UNCHANGED <<issues, programmings, keyStatus, place, row, crm, unconfirmed>>
  BY DEF Uk!StartIssue, Uk!StartPanel, Uk!StartRetry, Uk!StartRemove,
     Uk!StartOn, Uk!StartTask, Uk!company
<1>3. upc'[o] = label
  BY <1>0, <1>1 DEF Uk!At
<1>4. ASSUME NEW request, Uk!Note(o, request) PROVE ureq'[o] = request
  BY <1>0, <1>4 DEF Uk!Note
<1>5. \A g \in ureq'[o].queue :
        /\ programmings[g].active
        /\ ureq'[o].kind # "remove" => programmings[g].status \in {"pending", "error"}
  <2>1. CASE Uk!StartIssue(o)
    <3>1. PICK k \in Keys, panels \in (SUBSET Panels) \ {{}} :
            Uk!StartTask(o, "issue", "create", [Uk!Idle EXCEPT !.key = k, !.more = panels])
      BY <2>1 DEF Uk!StartIssue
    <3> DEFINE asked == [Uk!Idle EXCEPT !.key = k, !.more = panels]
               request == [asked EXCEPT !.kind = "issue"]
    <3>2. asked \in Uk!UkRequests' /\ asked.queue = {}
      BY DEF Uk!Idle, Uk!UkRequests
    <3>3. Uk!Note(o, request)
      BY <3>1 DEF Uk!StartTask
    <3> HIDE DEF asked
    <3>4. request.queue = {}
      BY <3>2, TaskTyped DEF Uk!TaskKinds
    <3> HIDE DEF request
    <3> QED BY <1>4, <3>3, <3>4
  <2>2. CASE Uk!StartPanel(o)
    <3>1. PICK i \in DOMAIN issues, p \in Panels :
            Uk!StartTask(o, "panel", "more",
              [Uk!Idle EXCEPT !.issue = i, !.key = issues[i].key, !.more = {p}])
      BY <2>2 DEF Uk!StartPanel
    <3> DEFINE asked == [Uk!Idle EXCEPT !.issue = i, !.key = issues[i].key,
                                        !.more = {p}]
               request == [asked EXCEPT !.kind = "panel"]
    <3>2. asked \in Uk!UkRequests' /\ asked.queue = {}
      BY <1>00 DEF Uk!Idle, Uk!UkRequests
    <3>3. Uk!Note(o, request)
      BY <3>1 DEF Uk!StartTask
    <3> HIDE DEF asked
    <3>4. request.queue = {}
      BY <3>2, TaskTyped DEF Uk!TaskKinds
    <3> HIDE DEF request
    <3> QED BY <1>4, <3>3, <3>4
  <2>3. CASE Uk!StartRetry(o) \/ Uk!StartRemove(o)
    <3>1. PICK g \in DOMAIN programmings, kind \in {"retry", "remove"} :
            Uk!StartOn(o, kind, "call", g)
      BY <2>3 DEF Uk!StartRetry, Uk!StartRemove
    <3> DEFINE asked == [Uk!Idle EXCEPT !.issue = programmings[g].issue,
                                        !.key = Uk!KeyOf(g), !.queue = {g},
                                        !.current = g]
               request == [asked EXCEPT !.kind = kind]
    <3>2. asked \in Uk!UkRequests' /\ asked.queue = {g}
      BY <1>0, <1>00 DEF Uk!Idle, Uk!UkRequests, TablesStep
    <3>3. Uk!Note(o, request) /\ Uk!Offered(kind, g)
      BY <3>1 DEF Uk!StartOn, Uk!StartTask, AtWork
    <3> HIDE DEF asked
    <3>4. request.queue = {g} /\ request.kind = kind
      <4>1. kind \in Uk!TaskKinds
        BY DEF Uk!TaskKinds
      <4> QED BY <3>2, <4>1, TaskTyped
    <3> HIDE DEF request
    <3>5. /\ programmings[g].active
          /\ kind = "retry" => programmings[g].status \in {"pending", "error"}
      BY <1>0, <3>3 DEF ActiveFits, ActiveStatuses, Uk!Offered
    <3> QED BY <1>4, <3>3, <3>4, <3>5
  <2> QED BY <2>1, <2>2, <2>3
<1>6. WaitingFits(o)'
  BY <1>2, <1>3, <1>5 DEF WaitingFits, Waiting, Uk!Adds, TxLabels
<1> QED BY <1>1, <1>2, <1>3, <1>6

\* A click changes nothing of the books.
LEMMA StartBooks ==
  ASSUME NEW o \in Operators, AtWork(o),
         \/ Uk!StartIssue(o) \/ Uk!StartPanel(o) \/ Uk!StartRetry(o)
         \/ Uk!StartRemove(o)
  PROVE  (IssuesFit /\ CrmFits)'
<1>1. /\ upc[o] = "idle" /\ upc'[o] \in {"create", "more", "call"}
      /\ UNCHANGED <<issues, programmings, keyStatus, place, row, crm, unconfirmed>>
      /\ WaitingFits(o)'
  BY StartedWaiting
<1>2. ActiveFits' /\ IssuedFits'
  BY <1>1, QuietIssues DEF AtWork
<1>3. \A g \in DOMAIN programmings :
        programmings'[g] = programmings[g] /\ Uk!KeyOf(g)' = Uk!KeyOf(g)
  BY <1>1 DEF Uk!KeyOf
<1>4. /\ \A k \in Keys : OnProgrammings(k)'
      /\ schedule.losses = 0 => \A k \in Keys : OnRows(k)'
  BY <1>1, <1>3, QuietCrm
<1>6. AnswerFits(o)'
  BY <1>1 DEF AnswerFits, TxLabels
<1> QED BY <1>1, <1>2, <1>4, <1>6, WorkDone

\* A refused task leaves what it has created.
LEMMA RefusedBooks ==
  ASSUME NEW o \in Operators, AtWork(o), Uk!CreateRefused(o)
  PROVE  (IssuesFit /\ CrmFits)'
<1>1. /\ upc[o] \in {"create", "more"} /\ upc'[o] = "idle"
      /\ UNCHANGED <<issues, programmings, keyStatus, place, row, crm, unconfirmed>>
  BY FinishTyped DEF Uk!CreateRefused, Uk!company, AtWork
<1>2. ActiveFits' /\ IssuedFits'
  BY <1>1, QuietIssues DEF AtWork
<1>3. \A g \in DOMAIN programmings :
        programmings'[g] = programmings[g] /\ Uk!KeyOf(g)' = Uk!KeyOf(g)
  BY <1>1 DEF Uk!KeyOf
<1>4. /\ \A k \in Keys : OnProgrammings(k)'
      /\ schedule.losses = 0 => \A k \in Keys : OnRows(k)'
  BY <1>1, <1>3, QuietCrm
<1>6. AnswerFits(o)'
  BY <1>1 DEF AnswerFits, TxLabels
<1>5. WaitingFits(o)'
  BY <1>1 DEF WaitingFits
<1> QED BY <1>2, <1>4, <1>5, <1>6, WorkDone

\* A new programming is pending, and waits for its call.
LEMMA CreateBooks ==
  ASSUME NEW o \in Operators, AtWork(o), NEW p \in Panels,
         Uk!CreateIssue(o, p) \/ Uk!CreateProgramming(o, p)
  PROVE  (IssuesFit /\ CrmFits)'
<1>0. /\ Typed /\ TablesStep /\ ActiveFits /\ IssuedFits /\ WaitingFits(o)
      /\ upc \in [Operators -> Uk!UkLabels]
      /\ ureq \in [Operators -> Uk!UkRequests]
      /\ ureq[o] \in Uk!UkRequests /\ OperatorOK(o)
      /\ issues \in Seq(Uk!Issues) /\ programmings \in Seq(Uk!Programmings)
      /\ programmings' \in Seq(Uk!Programmings) /\ issues' \in Seq(Uk!Issues)
      /\ \A g \in DOMAIN programmings : programmings[g].issue \in DOMAIN issues
  BY DEF AtWork, Typed, Uk!UkTypeOK, Uk!UkLabels, IssuesFit, TablesStep, TablesTyped
<1>1. PICK n, i, primary :
        /\ n = Len(programmings) + 1
        /\ Uk!AddProgramming(o, i, p, primary)
        /\ Uk!CreateIssue(o, p) => i = Len(issues) + 1
        /\ Uk!CreateProgramming(o, p) => i = ureq[o].issue
  BY DEF Uk!CreateIssue, Uk!CreateProgramming
<1>2. /\ programmings' = Append(programmings, Uk!NewProgramming(i, p, primary))
      /\ UNCHANGED <<keyStatus, place, row, crm, unconfirmed>>
      /\ Uk!Note(o, [ureq[o] EXCEPT !.issue = i, !.more = @ \ {p},
                                    !.queue = @ \cup {n}])
      /\ Uk!At(o, IF ureq[o].more = {p} THEN "call" ELSE "more")
  BY <1>1 DEF Uk!AddProgramming
<1>3. /\ n \notin DOMAIN programmings
      /\ DOMAIN programmings' = DOMAIN programmings \cup {n}
      /\ \A g \in DOMAIN programmings : programmings'[g] = programmings[g]
      /\ programmings'[n] = Uk!NewProgramming(i, p, primary)
  BY <1>0, <1>1, <1>2
<1>4. /\ programmings'[n].issue = i /\ programmings'[n].active
      /\ programmings'[n].status = "pending"
  BY <1>3 DEF Uk!NewProgramming
<1>5. /\ DOMAIN issues \subseteq DOMAIN issues'
      /\ \A j \in DOMAIN issues : issues'[j] = issues[j]
      /\ \A j \in DOMAIN issues' \ DOMAIN issues : issues'[j].status = "pending"
      /\ issues'[i].status \in Uk!OpenStatuses
  <2>1. CASE Uk!CreateIssue(o, p)
    <3> DEFINE new == [key |-> ureq[o].key, status |-> "pending"]
    <3>1. issues' = Append(issues, new) /\ i = Len(issues) + 1 /\ new.status = "pending"
      BY <1>1, <2>1 DEF Uk!CreateIssue
    <3> HIDE DEF new
    <3>2. /\ DOMAIN issues' = DOMAIN issues \cup {i}
          /\ \A j \in DOMAIN issues : issues'[j] = issues[j]
          /\ issues'[i] = new
      BY <1>0, <3>1
    <3> QED BY <3>1, <3>2 DEF Uk!OpenStatuses
  <2>2. CASE Uk!CreateProgramming(o, p)
    BY <1>1, <2>2 DEF Uk!CreateProgramming, Uk!CanProgram
  <2> QED BY <2>1, <2>2
<1>6. ActiveFits'
  <2>1. ASSUME NEW g \in DOMAIN programmings
        PROVE  /\ programmings'[g] = programmings[g]
               /\ issues'[programmings[g].issue] = issues[programmings[g].issue]
    BY <1>0, <1>3, <1>5
  <2> QED BY <1>0, <1>3, <1>4, <1>5, <2>1 DEF ActiveFits, ActiveStatuses
<1>7. IssuedFits'
  BY <1>0, <1>2, <1>5 DEF IssuedFits
<1>8. /\ upc[o] \in {"create", "more"} /\ upc'[o] \in {"call", "more"}
      /\ ureq[o].kind \in {"issue", "panel"}
  BY <1>0, <1>2 DEF Uk!CreateIssue, Uk!CreateProgramming, Uk!At, OperatorOK
<1>9. ureq'[o].queue = ureq[o].queue \cup {n} /\ ureq'[o].kind = ureq[o].kind
  BY <1>0, <1>2 DEF Uk!Note, Uk!UkRequests
<1>10. WaitingFits(o)'
  <2>1. ureq[o].queue \subseteq DOMAIN programmings
    BY <1>0 DEF Uk!UkRequests
  <2>2. \A g \in ureq[o].queue :
          programmings[g].active /\ programmings[g].status \in {"pending", "error"}
    BY <1>0, <1>8 DEF WaitingFits, Waiting, Uk!Adds
  <2> QED BY <1>3, <1>4, <1>8, <1>9, <2>1, <2>2 DEF WaitingFits, Waiting, TxLabels
<1>11. \A g \in DOMAIN programmings :
        programmings'[g] = programmings[g] /\ Uk!KeyOf(g)' = Uk!KeyOf(g)
  BY <1>0, <1>3, <1>5 DEF Uk!KeyOf
<1>12. /\ \A k \in Keys : OnProgrammings(k)'
       /\ schedule.losses = 0 => \A k \in Keys : OnRows(k)'
  BY <1>2, <1>8, <1>11, QuietCrm
<1>13. AnswerFits(o)'
  BY <1>8 DEF AnswerFits, TxLabels
<1> QED BY <1>6, <1>7, <1>10, <1>12, <1>13, WorkDone

\* A create is asked for only where none has succeeded.
LEMMA NotAccounted ==
  ASSUME Typed, TablesFit, ActiveFits, NEW g \in DOMAIN programmings,
         programmings[g].active, programmings[g].status # "success"
  PROVE  programmings[g].panel \notin Uk!Accounted(Uk!KeyOf(g))
<1> SUFFICES ASSUME programmings[g].panel \in Uk!Accounted(Uk!KeyOf(g)) PROVE FALSE
  OBVIOUS
<1>1. PICK h \in DOMAIN programmings :
        /\ Uk!KeyOf(h) = Uk!KeyOf(g) /\ programmings[h].active
        /\ programmings[h].status = "success"
        /\ programmings[h].panel = programmings[g].panel
  BY AccountedBy
<1>2. /\ programmings[g].issue \in DOMAIN issues
      /\ programmings[h].issue \in DOMAIN issues
  BY Rows DEF Typed
<1>3. programmings[h].issue = programmings[g].issue
  BY <1>1, <1>2 DEF TablesFit, OneOpenIssue, ActiveFits, Uk!KeyOf
<1>4. h = g
  BY <1>1, <1>3 DEF TablesFit, OnePerPanel
<1> QED BY <1>1, <1>4

\* What the call of an operator does, of a key on a panel.
CallEffect(o, g, k, p) ==
  /\ upc[o] = "call" /\ upc'[o] = "record" /\ g \in ureq[o].queue
  /\ ureq'[o].current = g /\ ureq'[o].kind = ureq[o].kind
  /\ ureq'[o].queue = ureq[o].queue
  /\ UNCHANGED <<keyStatus, place, row, issues, programmings>>
  /\ \A l \in Keys \ {k} : crm'[l] = crm[l] /\ unconfirmed'[l] = unconfirmed[l]
  /\ \/ crm'[k] = crm[k] /\ ~ureq'[o].answer
     \/ crm'[k] = IF Uk!Adds(o) THEN crm[k] \cup {p} ELSE crm[k] \ {p}
  /\ unconfirmed'[k] = IF ureq'[o].answer \/ p \in crm[k]
                         THEN unconfirmed[k] \cap crm'[k]
                         ELSE unconfirmed[k] \cup ({p} \cap crm'[k])

\* So says the definition of the call.
LEMMA CallEffects ==
  ASSUME NEW o \in Operators, AtWork(o), NEW g \in DOMAIN programmings, Uk!Call(o, g),
         NEW k, k = Uk!KeyOf(g), NEW p, p = programmings[g].panel
  PROVE  CallEffect(o, g, k, p)
<1>0. /\ Typed /\ TablesStep /\ upc \in [Operators -> Uk!UkLabels]
      /\ ureq \in [Operators -> Uk!UkRequests] /\ ureq[o] \in Uk!UkRequests
      /\ crm \in [Keys -> SUBSET Panels] /\ unconfirmed \in [Keys -> SUBSET Panels]
      /\ k \in Keys
  BY WorkFacts DEF AtWork, Typed, Uk!UkTypeOK, Uk!UkLabels
<1>2. PICK a \in Uk!UkAnswers :
        /\ crm' = IF ~a.applied THEN crm
                  ELSE [crm EXCEPT ![k] = IF Uk!Adds(o) THEN @ \cup {p} ELSE @ \ {p}]
        /\ unconfirmed' =
             [unconfirmed EXCEPT ![k] =
                IF a.confirmed \/ p \in crm[k] THEN @ \cap crm'[k]
                                              ELSE @ \cup ({p} \cap crm'[k])]
        /\ Uk!Note(o, [ureq[o] EXCEPT !.current = g, !.answer = a.confirmed])
  BY DEF Uk!Call
<1>3. a.applied \in BOOLEAN /\ a.confirmed \in BOOLEAN /\ (a.confirmed => a.applied)
  BY DEF Uk!UkAnswers
<1>4. /\ ureq'[o].current = g /\ ureq'[o].kind = ureq[o].kind
      /\ ureq'[o].queue = ureq[o].queue /\ ureq'[o].answer = a.confirmed
  BY <1>0, <1>2 DEF Uk!Note, Uk!UkRequests
<1>5. /\ upc[o] = "call" /\ upc'[o] = "record" /\ g \in ureq[o].queue
      /\ UNCHANGED <<keyStatus, place, row, issues, programmings>>
  BY <1>0 DEF Uk!Call, Uk!At, Uk!company
<1>6. crm'[k] = IF ~a.applied THEN crm[k]
                ELSE IF Uk!Adds(o) THEN crm[k] \cup {p} ELSE crm[k] \ {p}
  BY <1>0, <1>2
<1>7. \A l \in Keys \ {k} : crm'[l] = crm[l] /\ unconfirmed'[l] = unconfirmed[l]
  BY <1>0, <1>2
<1>8. unconfirmed'[k] = IF a.confirmed \/ p \in crm[k]
                          THEN unconfirmed[k] \cap crm'[k]
                          ELSE unconfirmed[k] \cup ({p} \cap crm'[k])
  BY <1>0, <1>2
<1> QED BY <1>3, <1>4, <1>5, <1>6, <1>7, <1>8 DEF CallEffect

\* What a call does to the CRM is on the books, or the operator has it in hand.
LEMMA CallBooks ==
  ASSUME NEW o \in Operators, AtWork(o), NEW g \in DOMAIN programmings, Uk!Call(o, g)
  PROVE  (IssuesFit /\ CrmFits)'
<1>1. PICK k, p : k = Uk!KeyOf(g) /\ p = programmings[g].panel
  OBVIOUS
<1>0. CallEffect(o, g, k, p)
  BY <1>1, CallEffects
<1>2. /\ upc[o] = "call" /\ upc'[o] = "record" /\ g \in ureq[o].queue
      /\ ureq'[o].current = g /\ ureq'[o].kind = ureq[o].kind
      /\ ureq'[o].queue = ureq[o].queue
      /\ UNCHANGED <<keyStatus, place, row, issues, programmings>>
  BY <1>0 DEF CallEffect
<1>3. /\ \A l \in Keys \ {k} : crm'[l] = crm[l] /\ unconfirmed'[l] = unconfirmed[l]
      /\ \/ crm'[k] = crm[k] /\ ~ureq'[o].answer
         \/ crm'[k] = IF Uk!Adds(o) THEN crm[k] \cup {p} ELSE crm[k] \ {p}
      /\ unconfirmed'[k] = IF ureq'[o].answer \/ p \in crm[k]
                             THEN unconfirmed[k] \cap crm'[k]
                             ELSE unconfirmed[k] \cup ({p} \cap crm'[k])
  BY <1>0 DEF CallEffect
<1>4. Uk!KeyOf(g)' = k /\ (Uk!Adds(o)' <=> Uk!Adds(o)) /\ k \in Keys
  BY <1>1, <1>2, WorkFacts DEF Uk!KeyOf, Uk!Adds
<1>5. WaitingFits(o) /\ Typed /\ TablesFit /\ ActiveFits /\ IssuesFit
  BY DEF AtWork, IssuesFit
<1>6. \A l \in Keys : \A x \in crm[l] :
        /\ x \in Uk!Accounted(l) \/ x \in unconfirmed[l]
        /\ schedule.losses = 0 => x \in Live(l) \/ x \in unconfirmed[l]
  BY <1>2, NothingAdded
<1>7. ActiveFits' /\ IssuedFits'
  BY <1>2, <1>5, QuietIssues
<1>8. WaitingFits(o)'
  BY <1>2, <1>4, <1>5 DEF WaitingFits, Waiting, TxLabels
<1>9. Uk!Adds(o) => p \notin Uk!Accounted(k)
  BY <1>1, <1>2, <1>5, NotAccounted DEF WaitingFits, Waiting
<1>10. AnswerFits(o)'
  <2>1. Uk!Adds(o) /\ ~ureq'[o].answer => p \notin crm'[k] \/ p \in unconfirmed'[k]
    BY <1>3, <1>4, <1>6, <1>9
  <2>2. ~Uk!Adds(o) /\ ureq'[o].answer => p \notin crm'[k]
    BY <1>3
  <2> QED BY <1>1, <1>2, <1>4, <2>1, <2>2 DEF AnswerFits
<1>11. ASSUME Uk!Adds(o), ureq'[o].answer
       PROVE  Adding({"record"}, k, p)' /\ Adding({"record", "row"}, k, p)'
  BY <1>1, <1>2, <1>4, <1>11 DEF Adding
<1>12. ASSUME NEW l \in Keys, NEW x \in crm'[l]
       PROVE  \/ x \in crm[l] /\ (x \in unconfirmed[l] => x \in unconfirmed'[l])
              \/ x \in unconfirmed'[l]
              \/ Adding({"record"}, l, x)' /\ Adding({"record", "row"}, l, x)'
  <2>1. CASE l # k
    BY <1>3, <1>12, <2>1
  <2>2. CASE l = k /\ x # p
    BY <1>3, <1>12, <2>2
  <2>3. CASE l = k /\ x = p
    BY <1>3, <1>11, <1>12, <2>3
  <2> QED BY <2>1, <2>2, <2>3
<1>13. ASSUME NEW l \in Keys PROVE OnProgrammings(l)'
  <2>1. Uk!Accounted(l)' = Uk!Accounted(l)
    BY <1>2 DEF Uk!Accounted, Uk!KeyOf
  <2> QED BY <1>6, <1>12, <2>1 DEF OnProgrammings
<1>14. ASSUME NEW l \in Keys, schedule.losses = 0 PROVE OnRows(l)'
  <2>1. Live(l)' = Live(l)
    BY <1>2 DEF Live
  <2> QED BY <1>6, <1>12, <1>14, <2>1 DEF OnRows
<1> QED BY <1>7, <1>8, <1>10, <1>13, <1>14, WorkDone

\* The programming whose call has been answered is one of those that wait.
LEMMA AnsweredFacts ==
  ASSUME NEW o \in Operators, AtWork(o), upc[o] \in {"record"} \cup TxLabels,
         NEW g, g = ureq[o].current
  PROVE  /\ g \in DOMAIN programmings /\ g \in ureq[o].queue /\ programmings[g].active
         /\ Uk!Adds(o) => programmings[g].status \in {"pending", "error"}
         /\ programmings[g].issue \in DOMAIN issues
         /\ issues[programmings[g].issue].status \in Uk!OpenStatuses
         /\ \A h \in ureq[o].queue : programmings[h].active
         /\ Uk!Adds(o) => \A h \in ureq[o].queue :
              programmings[h].status \in {"pending", "error"}
         /\ ureq[o].queue \subseteq DOMAIN programmings
<1>1. WaitingFits(o) /\ ActiveFits /\ OperatorOK(o) /\ ureq[o] \in Uk!UkRequests
  BY WorkFacts DEF AtWork, IssuesFit
<1>2. /\ g \in ureq[o].queue
      /\ \A h \in ureq[o].queue : programmings[h].active
      /\ Uk!Adds(o) => \A h \in ureq[o].queue :
           programmings[h].status \in {"pending", "error"}
  BY <1>1 DEF WaitingFits, Waiting, TxLabels
<1>3. ureq[o].queue \subseteq DOMAIN programmings
  BY <1>1 DEF Uk!UkRequests
<1>4. \A h \in DOMAIN programmings : programmings[h].issue \in DOMAIN issues
  BY WorkFacts
<1> QED BY <1>1, <1>2, <1>3, <1>4 DEF ActiveFits

\* Of a key with an open issue, no other issue is open.
LEMMA OneIsOpen ==
  ASSUME TablesFit, NEW i \in DOMAIN issues, issues[i].status \in Uk!OpenStatuses
  PROVE  /\ ~Uk!Conflict(i)
         /\ \A j \in DOMAIN issues \ {i} :
              issues[j].key = issues[i].key => issues[j].status \notin Uk!OpenStatuses
<1>1. \A j \in DOMAIN issues \ {i} :
        issues[j].key = issues[i].key => issues[j].status \notin Uk!OpenStatuses
  BY DEF TablesFit, OneOpenIssue
<1> QED BY <1>1 DEF Uk!Conflict, Uk!OpenIssues

\* So the index never refuses the result of a create.
LEMMA NoConflict ==
  ASSUME NEW o \in Operators, AtWork(o), Uk!RecordConflict(o) PROVE FALSE
<1>1. PICK g : g = ureq[o].current /\ upc[o] = "record" /\ Uk!Conflict(programmings[g].issue)
  BY DEF Uk!RecordConflict
<1> QED BY <1>1, AnsweredFacts, OneIsOpen DEF AtWork

\* What an operator that goes on to the panel row has in hand.
LEMMA GoesToRow ==
  ASSUME NEW o \in Operators, AtWork(o), Uk!At(o, "row"), UNCHANGED ureq
  PROVE  /\ upc'[o] = "row" /\ ureq'[o] = ureq[o]
         /\ Waiting(o)' = ureq[o].queue \ {ureq[o].current}
         /\ Uk!Adds(o)' <=> Uk!Adds(o)
<1>1. upc \in [Operators -> Uk!UkLabels]
  BY DEF AtWork, Typed, Uk!UkTypeOK, Uk!UkLabels
<1>2. upc'[o] = "row"
  BY <1>1 DEF Uk!At
<1> QED BY <1>2 DEF Waiting, Uk!Adds

\* The success of a create opens the issue and issues the key to the company.
LEMMA AddedBooks ==
  ASSUME NEW o \in Operators, AtWork(o), Uk!RecordAdded(o)
  PROVE  (IssuesFit /\ CrmFits)'
<1>1. PICK g, i, k, p :
        /\ g = ureq[o].current /\ i = programmings[g].issue
        /\ k = issues[i].key /\ p = programmings[g].panel
  BY SMTT(60)
<1>2. /\ upc[o] = "record" /\ Uk!Adds(o) /\ ureq[o].answer
      /\ Uk!SetStatus(g, "success") /\ Uk!SetKeyAssignment(k, Company)
      /\ issues' = [issues EXCEPT ![i].status = "active"]
      /\ unconfirmed' = [unconfirmed EXCEPT ![k] = @ \ {p}]
      /\ Uk!At(o, "row") /\ UNCHANGED <<row, crm, ureq>>
  BY ZenonT(60), <1>1 DEF Uk!RecordAdded
<1>3. /\ g \in DOMAIN programmings /\ g \in ureq[o].queue /\ programmings[g].active
      /\ programmings[g].status \in {"pending", "error"}
      /\ i \in DOMAIN issues /\ issues[i].status \in Uk!OpenStatuses
      /\ \A h \in ureq[o].queue :
           programmings[h].active /\ programmings[h].status \in {"pending", "error"}
      /\ ureq[o].queue \subseteq DOMAIN programmings
  BY <1>1, <1>2, AnsweredFacts
<1>4. /\ Uk!UkTypeOK /\ TablesFit /\ TablesStep /\ Typed
      /\ crm \in [Keys -> SUBSET Panels] /\ unconfirmed \in [Keys -> SUBSET Panels]
      /\ k \in Keys /\ ActiveFits /\ IssuedFits
      /\ \A h \in DOMAIN programmings : programmings[h].issue \in DOMAIN issues
      /\ \A j \in DOMAIN issues : issues[j].key \in Keys
  BY <1>1, <1>3, WorkFacts DEF AtWork, IssuesFit, Uk!Issues
<1>5. /\ ~Uk!Conflict(i)
      /\ \A j \in DOMAIN issues \ {i} :
           issues[j].key = k => issues[j].status \notin Uk!OpenStatuses
  BY <1>1, <1>3, <1>4, OneIsOpen
<1>6. /\ DOMAIN programmings' = DOMAIN programmings
      /\ \A h \in DOMAIN programmings :
           /\ programmings'[h].issue = programmings[h].issue
           /\ programmings'[h].panel = programmings[h].panel
           /\ programmings'[h].active = programmings[h].active
           /\ programmings'[h].status =
                IF h = g THEN "success" ELSE programmings[h].status
  <2>1. "success" \in Uk!ProgrammingStatuses
    BY DEF Uk!ProgrammingStatuses
  <2> QED BY <1>2, <1>3, <1>4, <2>1, StatusSet
<1>7. /\ DOMAIN issues' = DOMAIN issues
      /\ \A j \in DOMAIN issues :
           /\ issues'[j].key = issues[j].key
           /\ issues'[j].status = IF j = i THEN "active" ELSE issues[j].status
  <2>1. "active" \in Uk!IssueStatuses
    BY DEF Uk!IssueStatuses
  <2> QED BY <1>2, <1>3, <1>4, <1>5, <2>1, IssueSet DEF TablesFit
<1>8. /\ keyStatus'[k] = "issued" /\ place'[k] = Company
      /\ \A l \in Keys \ {k} : keyStatus'[l] = keyStatus[l] /\ place'[l] = place[l]
  <2>1. /\ keyStatus \in [Keys -> KeyStatuses]
        /\ place \in [Keys -> Places \cup {NoPlace}]
    BY <1>4 DEF Typed, TypeInv, TypeOK, StoreTypeOK
  <2>2. /\ keyStatus' = [keyStatus EXCEPT ![k] = "issued"]
        /\ \/ place[k] = Company /\ place' = place
           \/ place' = [place EXCEPT ![k] = Company]
    BY <1>2 DEF Uk!SetKeyAssignment, Uk!KeepAssignment, Uk!NewAssignment
  <2> QED BY <1>4, <2>1, <2>2
<1>9. ActiveFits'
  <2>1. ASSUME NEW h \in DOMAIN programmings, programmings[h].active
        PROVE  issues'[programmings[h].issue].status \in Uk!OpenStatuses
    BY <1>4, <1>7, <2>1 DEF ActiveFits, Uk!OpenStatuses
  <2> QED BY <1>3, <1>4, <1>6, <2>1 DEF ActiveFits, ActiveStatuses
<1>10. IssuedFits'
  <2>1. ASSUME NEW j \in DOMAIN issues, issues'[j].status = "active"
        PROVE  keyStatus'[issues[j].key] = "issued" /\ place'[issues[j].key] = Company
    <3>1. CASE j = i
      BY <1>1, <1>8, <3>1
    <3>2. CASE j # i
      <4>1. issues[j].status = "active" /\ issues[j].key # k
        BY SMTT(60), <1>5, <1>7, <2>1, <3>2 DEF Uk!OpenStatuses
      <4> QED BY <1>4, <1>8, <4>1 DEF IssuedFits
    <3> QED BY <3>1, <3>2
  <2> QED BY <1>7, <2>1 DEF IssuedFits
<1>11. /\ upc'[o] = "row" /\ ureq'[o] = ureq[o]
       /\ Waiting(o)' = ureq[o].queue \ {g}
       /\ Uk!Adds(o)'
  BY <1>1, <1>2, GoesToRow
<1>12. WaitingFits(o)'
  BY <1>3, <1>6, <1>11 DEF WaitingFits, TxLabels
<1>13. AnswerFits(o)'
  BY <1>2, <1>11 DEF AnswerFits
<1>14. \A h \in DOMAIN programmings : Uk!KeyOf(h)' = Uk!KeyOf(h)
  BY <1>4, <1>6, <1>7 DEF Uk!KeyOf
<1>15. Uk!KeyOf(g) = k
  BY <1>1 DEF Uk!KeyOf
<1>16. ASSUME NEW l \in Keys, NEW x, l # k \/ x # p
       PROVE  /\ x \in unconfirmed[l] => x \in unconfirmed'[l]
              /\ ~Adding({"record"}, l, x) /\ ~Adding({"record", "row"}, l, x)
  <2>1. x \in unconfirmed[l] => x \in unconfirmed'[l]
    BY <1>2, <1>4, <1>16
  <2>2. ~Adding({"record"}, l, x) /\ ~Adding({"record", "row"}, l, x)
    BY <1>1, <1>15, <1>16, WhoAdds
  <2> QED BY <2>1, <2>2
<1>17. ASSUME NEW l \in Keys, NEW x \in crm[l]
       PROVE  x \in Uk!Accounted(l)' \/ x \in unconfirmed'[l]
  <2>1. CASE l = k /\ x = p
    BY <1>1, <1>3, <1>6, <1>14, <1>15, <2>1 DEF Uk!Accounted
  <2>2. CASE l # k \/ x # p
    <3>1. x \in Uk!Accounted(l) \/ x \in unconfirmed[l]
      BY <1>16, <2>2 DEF AtWork, CrmFits, OnProgrammings
    <3>2. x \in Uk!Accounted(l) => x \in Uk!Accounted(l)'
      BY <1>4, <1>6, <1>14, AccountedStays
    <3> QED BY <1>16, <2>2, <3>1, <3>2
  <2> QED BY SMTT(60), <2>1, <2>2
<1>18. ASSUME NEW l \in Keys PROVE OnProgrammings(l)'
  BY <1>2, <1>17 DEF OnProgrammings
<1>19. ASSUME schedule.losses = 0, NEW l \in Keys PROVE OnRows(l)'
  <2>1. ASSUME NEW x \in crm[l]
        PROVE  x \in Live(l)' \/ x \in unconfirmed'[l] \/ Adding({"record", "row"}, l, x)'
    <3>1. CASE l = k /\ x = p
      <4>1. /\ upc'[o] \in {"record", "row"} /\ Uk!Adds(o)' /\ ureq'[o].answer
            /\ ureq'[o].current = g
        BY <1>1, <1>2, <1>11
      <4>2. Uk!KeyOf(g)' = k /\ programmings'[g].panel = p
        BY <1>1, <1>3, <1>6, <1>14, <1>15
      <4>3. Adding({"record", "row"}, k, p)'
        BY <4>1, <4>2 DEF Adding
      <4> QED BY SMTT(60), <3>1, <4>3
    <3>2. CASE l # k \/ x # p
      <4>1. x \in Live(l) \/ x \in unconfirmed[l]
        BY <1>16, <1>19, <3>2 DEF AtWork, CrmFits, OnRows
      <4>2. Live(l)' = Live(l)
        BY <1>2 DEF Live
      <4> QED BY <1>16, <3>2, <4>1, <4>2
    <3> QED BY <3>1, <3>2
  <2> QED BY <1>2, <2>1 DEF OnRows
<1> QED BY <1>9, <1>10, <1>12, <1>13, <1>18, <1>19, WorkDone

\* A failed call leaves the books as they are, but for the status of a create.
LEMMA FailedBooks ==
  ASSUME NEW o \in Operators, AtWork(o), Uk!RecordFailed(o)
  PROVE  (IssuesFit /\ CrmFits)'
<1>1. PICK g : g = ureq[o].current
  OBVIOUS
<1>2. /\ upc[o] = "record" /\ ~ureq[o].answer
      /\ IF Uk!Adds(o) THEN Uk!SetStatus(g, "error") ELSE UNCHANGED programmings
      /\ Uk!At(o, "row")
      /\ UNCHANGED <<row, crm, ureq, unconfirmed, issues, keyStatus, place>>
  BY <1>1 DEF Uk!RecordFailed
<1>3. /\ g \in DOMAIN programmings /\ g \in ureq[o].queue /\ programmings[g].active
      /\ Uk!Adds(o) => programmings[g].status \in {"pending", "error"}
      /\ \A h \in ureq[o].queue : programmings[h].active
      /\ Uk!Adds(o) => \A h \in ureq[o].queue :
           programmings[h].status \in {"pending", "error"}
      /\ ureq[o].queue \subseteq DOMAIN programmings
  BY <1>1, <1>2, AnsweredFacts
<1>4. /\ Uk!UkTypeOK /\ TablesStep /\ Typed /\ ActiveFits /\ IssuedFits /\ AnswerFits(o)
      /\ \A h \in DOMAIN programmings : programmings[h].issue \in DOMAIN issues
  BY WorkFacts DEF AtWork, IssuesFit, CrmFits
<1>5. /\ DOMAIN programmings' = DOMAIN programmings
      /\ \A h \in DOMAIN programmings :
           /\ programmings'[h].issue = programmings[h].issue
           /\ programmings'[h].panel = programmings[h].panel
           /\ programmings'[h].active = programmings[h].active
           /\ programmings'[h].status =
                IF h = g /\ Uk!Adds(o) THEN "error" ELSE programmings[h].status
  <2>1. CASE Uk!Adds(o)
    <3>1. "error" \in Uk!ProgrammingStatuses
      BY DEF Uk!ProgrammingStatuses
    <3> QED BY <1>2, <1>3, <1>4, <2>1, <3>1, StatusSet
  <2>2. CASE ~Uk!Adds(o)
    BY <1>2, <2>2
  <2> QED BY <2>1, <2>2
<1>6. ActiveFits' /\ IssuedFits'
  <2>1. ActiveFits'
    BY <1>2, <1>3, <1>4, <1>5 DEF ActiveFits, ActiveStatuses
  <2>2. IssuedFits'
    BY <1>2, <1>4 DEF IssuedFits
  <2> QED BY <2>1, <2>2
<1>7. /\ upc'[o] = "row" /\ ureq'[o] = ureq[o]
      /\ Waiting(o)' = ureq[o].queue \ {g}
      /\ Uk!Adds(o)' <=> Uk!Adds(o)
  BY <1>1, <1>2, GoesToRow
<1>8. WaitingFits(o)'
  BY <1>3, <1>5, <1>7 DEF WaitingFits, TxLabels
<1>9. \A h \in DOMAIN programmings : Uk!KeyOf(h)' = Uk!KeyOf(h)
  BY <1>2, <1>5 DEF Uk!KeyOf
<1>10. AnswerFits(o)'
  <2>1. PICK k, p : k = Uk!KeyOf(g) /\ p = programmings[g].panel
    OBVIOUS
  <2>2. Uk!Adds(o) => p \notin crm[k] \/ p \in unconfirmed[k]
    BY <1>1, <1>2, <1>4, <2>1 DEF AnswerFits
  <2>3. /\ ureq'[o].current = g /\ ~ureq'[o].answer
        /\ Uk!KeyOf(g)' = k /\ programmings'[g].panel = p
    BY <1>1, <1>2, <1>3, <1>5, <1>7, <1>9, <2>1
  <2> QED BY <1>2, <1>7, <2>2, <2>3 DEF AnswerFits
<1>11. \A l \in Keys : \A x \in crm[l] :
         /\ x \in Uk!Accounted(l) \/ x \in unconfirmed[l]
         /\ schedule.losses = 0 => x \in Live(l) \/ x \in unconfirmed[l]
  BY <1>2, NothingAdded
<1>12. ASSUME NEW l \in Keys PROVE OnProgrammings(l)'
  <2>1. ASSUME NEW x, x \in Uk!Accounted(l) PROVE x \in Uk!Accounted(l)'
    <3>1. \A h \in DOMAIN programmings : programmings[h].status = "success" =>
            programmings'[h].status = "success"
      BY <1>3, <1>5
    <3> QED BY <1>4, <1>5, <1>9, <2>1, <3>1, AccountedStays
  <2> QED BY <1>2, <1>11, <2>1 DEF OnProgrammings
<1>13. ASSUME schedule.losses = 0, NEW l \in Keys PROVE OnRows(l)'
  <2>1. Live(l)' = Live(l)
    BY <1>2 DEF Live
  <2> QED BY <1>2, <1>11, <1>13, <2>1 DEF OnRows
<1> QED BY <1>6, <1>8, <1>10, <1>12, <1>13, WorkDone

\* What the statements of a removal leave as it is, and what it has found when it
\* is ready to commit.
LEMMA TransactEffects ==
  ASSUME NEW o \in Operators, AtWork(o), Transacts(o)
  PROVE  /\ upc[o] \in {"record"} \cup TxLabels /\ upc'[o] \in TxLabels
         /\ ureq[o].kind = "remove" /\ ureq[o].answer
         /\ ureq'[o].kind = ureq[o].kind /\ ureq'[o].queue = ureq[o].queue
         /\ ureq'[o].current = ureq[o].current /\ ureq'[o].answer = ureq[o].answer
         /\ upc'[o] = "commit" /\ ureq'[o].emptied => Uk!Left(o) = {}
<1>0. /\ ureq[o] \in Uk!UkRequests /\ WaitingFits(o)
      /\ upc \in [Operators -> Uk!UkLabels] /\ ureq \in [Operators -> Uk!UkRequests]
  BY WorkFacts DEF AtWork, Typed, Uk!UkTypeOK, Uk!UkLabels, IssuesFit
<1>1. /\ upc[o] \in {"record"} \cup TxLabels
      /\ ureq[o].kind = "remove" /\ ureq[o].answer
  <2>1. CASE Uk!Deactivate(o)
    BY <1>0, <2>1 DEF Uk!Deactivate, Uk!Adds, WaitingFits
  <2>2. CASE ~Uk!Deactivate(o)
    <3>1. upc[o] \in TxLabels
      BY <2>2 DEF Transacts, Uk!SeekPrimary, Uk!PickOldest, Uk!PromotePrimary,
                  Uk!SeekActive, TxLabels
    <3> QED BY <1>0, <3>1 DEF WaitingFits, TxLabels
  <2> QED BY <2>1, <2>2
<1>2. Uk!Promoted(o) = "empty"
  BY <1>1 DEF Uk!Promoted
<1>3. CASE Uk!Deactivate(o) \/ Uk!SeekPrimary(o) \/ Uk!PromotePrimary(o)
  <2>1. UNCHANGED ureq /\ \E label \in {"promote", "empty", "pick"} : Uk!At(o, label)
    BY <1>2, <1>3 DEF Uk!Deactivate, Uk!SeekPrimary, Uk!PromotePrimary, Uk!Go
  <2>2. upc'[o] \in {"promote", "empty", "pick"}
    BY <1>0, <2>1 DEF Uk!At
  <2> QED BY <1>1, <2>1, <2>2 DEF TxLabels
<1>4. CASE Uk!PickOldest(o)
  <2>1. CASE UNCHANGED ureq
    <3>1. Uk!At(o, "empty") \/ Uk!At(o, "crown")
      BY <1>2, <1>4 DEF Uk!PickOldest, Uk!Go
    <3>2. upc'[o] \in {"empty", "crown"}
      BY <1>0, <3>1 DEF Uk!At
    <3> QED BY <1>1, <2>1, <3>2 DEF TxLabels
  <2>2. CASE ~UNCHANGED ureq
    <3>1. PICK c : Uk!At(o, "crown") /\ Uk!Note(o, [ureq[o] EXCEPT !.chosen = c])
      BY <1>4, <2>2 DEF Uk!PickOldest, Uk!Go
    <3>2. upc'[o] = "crown" /\ ureq'[o] = [ureq[o] EXCEPT !.chosen = c]
      BY <1>0, <3>1 DEF Uk!At, Uk!Note
    <3>3. /\ ureq'[o].kind = ureq[o].kind /\ ureq'[o].queue = ureq[o].queue
          /\ ureq'[o].current = ureq[o].current /\ ureq'[o].answer = ureq[o].answer
      BY <1>0, <3>2 DEF Uk!UkRequests
    <3> QED BY <1>1, <3>2, <3>3 DEF TxLabels
  <2> QED BY <2>1, <2>2
<1>5. CASE Uk!SeekActive(o)
  <2>1. PICK b : b = Uk!IssueEmpty(o)
    OBVIOUS
  <2>2. upc'[o] = "commit" /\ ureq'[o] = [ureq[o] EXCEPT !.emptied = b]
    BY <1>0, <1>5, <2>1 DEF Uk!SeekActive, Uk!Go, Uk!At, Uk!Note
  <2>3. /\ ureq'[o].kind = ureq[o].kind /\ ureq'[o].queue = ureq[o].queue
        /\ ureq'[o].current = ureq[o].current /\ ureq'[o].answer = ureq[o].answer
        /\ ureq'[o].emptied = b
    BY <1>0, <2>2 DEF Uk!UkRequests
  <2> QED BY <1>1, <2>1, <2>2, <2>3 DEF TxLabels, Uk!IssueEmpty
<1> QED BY <1>3, <1>4, <1>5 DEF Transacts

\* So the books are kept until the removal is committed.
LEMMA TransactionBooks ==
  ASSUME NEW o \in Operators, AtWork(o), Transacts(o)
  PROVE  (IssuesFit /\ CrmFits)'
<1>1. PICK g : g = ureq[o].current
  OBVIOUS
<1>2. /\ upc[o] \in {"record"} \cup TxLabels /\ upc'[o] \in TxLabels
      /\ ureq[o].kind = "remove" /\ ureq[o].answer
      /\ ureq'[o].kind = "remove" /\ ureq'[o].queue = ureq[o].queue
      /\ ureq'[o].current = g /\ ureq'[o].answer
      /\ upc'[o] = "commit" /\ ureq'[o].emptied => Uk!Left(o) = {}
  BY <1>1, TransactEffects
<1>3. /\ UNCHANGED <<issues, programmings, keyStatus, place, row, crm, unconfirmed>>
      /\ IssuesFit /\ AnswerFits(o)
  BY TransactsOnly DEF Uk!company, AtWork, CrmFits
<1>4. g \in ureq[o].queue /\ \A h \in ureq[o].queue : programmings[h].active
  BY <1>1, <1>2, AnsweredFacts
<1>5. ActiveFits' /\ IssuedFits'
  BY <1>3, QuietIssues
<1>6. upc'[o] = "commit" /\ ureq'[o].emptied => Uk!Left(o)' = {}
  <2>1. Uk!Left(o)' = Uk!Left(o)
    BY <1>1, <1>2, <1>3 DEF Uk!Left, Uk!ActiveOf
  <2> QED BY <1>2, <2>1
<1>7. WaitingFits(o)'
  BY <1>2, <1>3, <1>4, <1>6 DEF WaitingFits, Waiting, Uk!Adds, TxLabels
<1>8. AnswerFits(o)'
  <2>1. PICK k, p : k = Uk!KeyOf(g) /\ p = programmings[g].panel
    OBVIOUS
  <2>2. p \notin crm[k]
    BY <1>1, <1>2, <1>3, <2>1 DEF AnswerFits, Uk!Adds
  <2>3. Uk!KeyOf(g)' = k /\ programmings'[g].panel = p
    BY <1>3, <2>1 DEF Uk!KeyOf
  <2> QED BY <1>2, <1>3, <2>2, <2>3 DEF AnswerFits, Uk!Adds
<1>9. \A h \in DOMAIN programmings :
        programmings'[h] = programmings[h] /\ Uk!KeyOf(h)' = Uk!KeyOf(h)
  BY <1>3 DEF Uk!KeyOf
<1>10. /\ \A k \in Keys : OnProgrammings(k)'
       /\ schedule.losses = 0 => \A k \in Keys : OnRows(k)'
  <2>1. ~Uk!Adds(o)
    BY SMTT(60), <1>2 DEF Uk!Adds
  <2> QED BY <1>3, <1>9, <2>1, QuietCrm
<1> QED BY <1>5, <1>7, <1>8, <1>10, WorkDone

\* A confirmed removal takes the programming off the books, and the last one
\* of an issue the key off the company.
LEMMA RemovedBooks ==
  ASSUME NEW o \in Operators, AtWork(o), Uk!Commit(o)
  PROVE  (IssuesFit /\ CrmFits)'
<1>0. /\ ureq[o] \in Uk!UkRequests /\ WaitingFits(o)
      /\ upc \in [Operators -> Uk!UkLabels] /\ ureq \in [Operators -> Uk!UkRequests]
      /\ upc[o] = "commit"
  BY ZenonT(60), WorkFacts DEF AtWork, Typed, Uk!UkTypeOK, Uk!UkLabels, IssuesFit, Uk!Commit
<1>1. PICK g, i, k, p :
        /\ g = ureq[o].current /\ i = programmings[g].issue
        /\ k = issues[i].key /\ p = programmings[g].panel
  BY SMTT(60)
<1>2. /\ ~Uk!Adds(o) /\ ureq[o].kind = "remove" /\ ureq[o].answer
      /\ \/ /\ Uk!Left(o) = {}
            /\ issues' = [issues EXCEPT ![i].status = "released"]
            /\ Uk!FinalizeRelease(k, "free")
         \/ UNCHANGED <<issues, keyStatus, place>>
      /\ Uk!At(o, "row") /\ UNCHANGED <<row, crm, unconfirmed>>
      /\ Uk!Note(o, [ureq[o] EXCEPT !.chosen = 0, !.emptied = FALSE])
  <2>1. ureq[o].kind = "remove" /\ ureq[o].answer
    BY <1>0 DEF WaitingFits, TxLabels
  <2>2. ureq[o].emptied => Uk!Left(o) = {}
    BY <1>0 DEF WaitingFits
  <2> QED BY <1>1, <2>1, <2>2 DEF Uk!Commit, Uk!Adds
<1>3. /\ g \in DOMAIN programmings /\ g \in ureq[o].queue /\ programmings[g].active
      /\ i \in DOMAIN issues /\ issues[i].status \in Uk!OpenStatuses
      /\ \A h \in ureq[o].queue : programmings[h].active
      /\ ureq[o].queue \subseteq DOMAIN programmings
  BY <1>0, <1>1, AnsweredFacts DEF TxLabels
<1>4. /\ Uk!UkTypeOK /\ TablesFit /\ TablesStep /\ Typed
      /\ ActiveFits /\ IssuedFits /\ AnswerFits(o) /\ k \in Keys
      /\ \A h \in DOMAIN programmings : programmings[h].issue \in DOMAIN issues
      /\ \A j \in DOMAIN issues : issues[j].key \in Keys
  BY <1>1, <1>3, WorkFacts DEF AtWork, IssuesFit, CrmFits, Uk!Issues
<1>5. \A j \in DOMAIN issues \ {i} :
        issues[j].key = k => issues[j].status \notin Uk!OpenStatuses
  BY SMTT(60), <1>1, <1>3, <1>4, OneIsOpen
<1>6. /\ DOMAIN programmings' = DOMAIN programmings
      /\ \A h \in DOMAIN programmings :
           /\ programmings'[h].issue = programmings[h].issue
           /\ programmings'[h].panel = programmings[h].panel
           /\ programmings'[h].active <=> programmings[h].active /\ h # g
           /\ programmings'[h].status =
                IF h = g THEN "removed" ELSE programmings[h].status
  BY <1>1, <1>2, <1>4, Committed
<1>7. /\ DOMAIN issues' = DOMAIN issues
      /\ \A j \in DOMAIN issues : issues'[j].key = issues[j].key
      /\ \A j \in DOMAIN issues \ {i} : issues'[j].status = issues[j].status
      /\ \/ issues'[i].status = issues[i].status /\ UNCHANGED <<keyStatus, place>>
         \/ /\ issues'[i].status = "released"
            /\ \A h \in DOMAIN programmings' :
                 programmings'[h].issue = i => ~programmings'[h].active
            /\ \A l \in Keys \ {k} : keyStatus'[l] = keyStatus[l] /\ place'[l] = place[l]
  <2>1. CASE UNCHANGED <<issues, keyStatus, place>>
    BY <2>1
  <2>2. CASE /\ Uk!Left(o) = {}
             /\ issues' = [issues EXCEPT ![i].status = "released"]
             /\ Uk!FinalizeRelease(k, "free")
    <3>1. /\ "released" \in Uk!IssueStatuses /\ "released" \notin Uk!OpenStatuses
      BY DEF Uk!IssueStatuses, Uk!OpenStatuses
    <3>2. /\ DOMAIN issues' = DOMAIN issues
          /\ \A j \in DOMAIN issues :
               /\ issues'[j].key = issues[j].key
               /\ issues'[j].status = IF j = i THEN "released" ELSE issues[j].status
      BY SMTT(60), <1>3, <1>4, <2>2, <3>1, IssueSet DEF TablesFit
    <3>3. \A h \in DOMAIN programmings' :
            programmings'[h].issue = i => ~programmings'[h].active
      BY <1>1, <1>6, <2>2 DEF Uk!Left, Uk!ActiveOf
    <3>4. /\ keyStatus \in [Keys -> KeyStatuses]
          /\ place \in [Keys -> Places \cup {NoPlace}]
      BY <1>4 DEF Typed, TypeInv, TypeOK, StoreTypeOK
    <3>5. \A l \in Keys \ {k} : keyStatus'[l] = keyStatus[l] /\ place'[l] = place[l]
      BY <1>4, <2>2, <3>4 DEF Uk!FinalizeRelease
    <3> QED BY <1>3, <3>2, <3>3, <3>5
  <2> QED BY <1>2, <2>1, <2>2
<1>8. ActiveFits'
  <2>1. ASSUME NEW h \in DOMAIN programmings, programmings'[h].active
        PROVE  issues'[programmings[h].issue].status \in Uk!OpenStatuses
    <3>1. issues[programmings[h].issue].status \in Uk!OpenStatuses
      BY <1>4, <1>6, <2>1 DEF ActiveFits
    <3>2. CASE programmings[h].issue # i
      BY <1>4, <1>7, <3>1, <3>2
    <3>3. CASE programmings[h].issue = i
      BY <1>6, <1>7, <2>1, <3>1, <3>3
    <3> QED BY <3>2, <3>3
  <2> QED BY <1>4, <1>6, <2>1 DEF ActiveFits, ActiveStatuses
<1>9. IssuedFits'
  <2>1. ASSUME NEW j \in DOMAIN issues, issues'[j].status = "active"
        PROVE  keyStatus'[issues[j].key] = "issued" /\ place'[issues[j].key] = Company
    <3>1. CASE issues'[i].status = issues[i].status /\ UNCHANGED <<keyStatus, place>>
      BY <1>4, <1>7, <2>1, <3>1 DEF IssuedFits
    <3>2. CASE /\ issues'[i].status = "released"
               /\ \A l \in Keys \ {k} :
                    keyStatus'[l] = keyStatus[l] /\ place'[l] = place[l]
      <4>1. j # i /\ issues[j].status = "active"
        BY <1>7, <2>1, <3>2
      <4>2. issues[j].key # k
        BY <1>5, <4>1 DEF Uk!OpenStatuses
      <4> QED BY <1>4, <3>2, <4>1, <4>2 DEF IssuedFits
    <3> QED BY <1>7, <3>1, <3>2
  <2> QED BY <1>7, <2>1 DEF IssuedFits
<1>10. /\ upc'[o] = "row" /\ ureq'[o].current = g /\ ureq'[o].answer
       /\ ureq'[o].queue = ureq[o].queue /\ ureq'[o].kind = "remove"
       /\ Waiting(o)' = ureq[o].queue \ {g} /\ ~Uk!Adds(o)'
  <2>1. /\ upc'[o] = "row"
        /\ ureq'[o] = [ureq[o] EXCEPT !.chosen = 0, !.emptied = FALSE]
    BY <1>0, <1>2 DEF Uk!At, Uk!Note
  <2>2. /\ ureq'[o].current = g /\ ureq'[o].answer
        /\ ureq'[o].queue = ureq[o].queue /\ ureq'[o].kind = "remove"
    BY <1>0, <1>1, <1>2, <2>1 DEF Uk!UkRequests
  <2> QED BY <2>1, <2>2 DEF Waiting, Uk!Adds
<1>11. WaitingFits(o)'
  BY <1>3, <1>6, <1>10 DEF WaitingFits, TxLabels
<1>12. \A h \in DOMAIN programmings : Uk!KeyOf(h)' = Uk!KeyOf(h)
  BY SMTT(60), <1>4, <1>6, <1>7 DEF Uk!KeyOf
<1>13. Uk!KeyOf(g) = k /\ p \notin crm[k]
  BY <1>0, <1>1, <1>2, <1>4 DEF AnswerFits, Uk!KeyOf, TxLabels
<1>14. AnswerFits(o)'
  <2>1. /\ ureq'[o].current = g /\ ureq'[o].answer
        /\ Uk!KeyOf(g)' = k /\ programmings'[g].panel = p
    BY <1>1, <1>2, <1>3, <1>6, <1>10, <1>12, <1>13
  <2> QED BY SMTT(60), <1>2, <1>10, <1>13, <2>1 DEF AnswerFits
<1>15. \A l \in Keys : \A x \in crm[l] :
         /\ x \in Uk!Accounted(l) \/ x \in unconfirmed[l]
         /\ schedule.losses = 0 => x \in Live(l) \/ x \in unconfirmed[l]
  BY <1>2, NothingAdded
<1>16. ASSUME NEW l \in Keys PROVE OnProgrammings(l)'
  <2>1. ASSUME NEW x \in crm[l], x \in Uk!Accounted(l) PROVE x \in Uk!Accounted(l)'
    <3>1. l # k \/ x # p
      BY <1>13, <2>1
    <3>2. ASSUME NEW h \in DOMAIN programmings, Uk!KeyOf(h) = l,
                 programmings[h].active, programmings[h].status = "success",
                 programmings[h].panel = x
          PROVE  /\ Uk!KeyOf(h)' = Uk!KeyOf(h) /\ programmings'[h].active
                 /\ programmings'[h].status = "success" /\ programmings'[h].panel = x
      <4>1. h # g
        BY <1>1, <1>13, <3>1, <3>2
      <4> QED BY <1>6, <1>12, <3>2, <4>1
    <3> QED BY <1>4, <2>1, <3>2, AccountedStays
  <2> QED BY <1>2, <1>15, <2>1 DEF OnProgrammings
<1>17. ASSUME schedule.losses = 0, NEW l \in Keys PROVE OnRows(l)'
  <2>1. Live(l)' = Live(l)
    BY <1>2 DEF Live
  <2> QED BY <1>2, <1>15, <1>17, <2>1 DEF OnRows
<1> QED BY <1>8, <1>9, <1>11, <1>14, <1>16, <1>17, WorkDone

\* What storing a result does to the panel rows.
LEMMA RowStored ==
  ASSUME row \in [Keys -> [Panels -> RowStates]], NEW k \in Keys, NEW p \in Panels,
         NEW state \in RowStates, row' = [row EXCEPT ![k][p] = state]
  PROVE  /\ \A l \in Keys, x \in Panels :
              l # k \/ x # p => (x \in Live(l)' <=> x \in Live(l))
         /\ state \in LiveStates => p \in Live(k)'
<1>1. /\ \A l \in Keys, x \in Panels : l # k \/ x # p => row'[l][x] = row[l][x]
      /\ row'[k][p] = state
  OBVIOUS
<1> QED BY <1>1 DEF Live

\* The panel row follows the answer, and the task goes on or is over.
LEMMA PanelBooks ==
  ASSUME NEW o \in Operators, AtWork(o), Uk!RecordPanel(o)
  PROVE  (IssuesFit /\ CrmFits)'
<1>1. PICK g, k, p, rest :
        /\ g = ureq[o].current /\ k = Uk!KeyOf(g) /\ p = programmings[g].panel
        /\ rest = ureq[o].queue \ {g}
  OBVIOUS
<1>2. /\ upc[o] = "row"
      /\ IF Uk!Adds(o) THEN Uk!RecordPanelWrite(k, p, ureq[o].answer)
                       ELSE Uk!RecordPanelDelete(k, p, ureq[o].answer)
      /\ \/ Uk!Finish(o)
         \/ Uk!At(o, "call") /\ Uk!Note(o, [ureq[o] EXCEPT !.queue = rest])
      /\ UNCHANGED <<crm, unconfirmed, issues, programmings, keyStatus, place>>
  BY <1>1 DEF Uk!RecordPanel, Uk!company
<1>3. /\ Typed /\ TablesStep /\ IssuesFit /\ WaitingFits(o) /\ AnswerFits(o)
      /\ ureq[o] \in Uk!UkRequests /\ OperatorOK(o)
      /\ ureq \in [Operators -> Uk!UkRequests]
      /\ upc \in [Operators -> Uk!UkLabels]
      /\ crm \in [Keys -> SUBSET Panels]
      /\ row \in [Keys -> [Panels -> RowStates]]
      /\ \A h \in DOMAIN programmings :
           Uk!KeyOf(h) \in Keys /\ programmings[h].panel \in Panels
  BY WorkFacts DEF AtWork, IssuesFit, CrmFits, Typed, Uk!UkTypeOK, Uk!UkLabels
<1>4. g \in DOMAIN programmings /\ k \in Keys /\ p \in Panels
  BY <1>1, <1>2, <1>3 DEF OperatorOK
<1>5. ActiveFits' /\ IssuedFits'
  BY <1>2, <1>3, QuietIssues
<1>6. upc'[o] \in {"idle", "call"}
  BY <1>2, <1>3 DEF Uk!Finish, Uk!At
<1>7. upc'[o] = "call" => ureq'[o].queue = rest /\ ureq'[o].kind = ureq[o].kind
  <2>1. CASE Uk!Finish(o)
    BY <1>3, <2>1 DEF Uk!Finish, Uk!At
  <2>2. CASE Uk!Note(o, [ureq[o] EXCEPT !.queue = rest])
    BY <1>3, <2>2 DEF Uk!Note, Uk!UkRequests
  <2> QED BY <1>2, <2>1, <2>2
<1>8. WaitingFits(o)'
  <2>1. Waiting(o) = rest
    BY <1>1, <1>2 DEF Waiting
  <2>2. \A h \in rest :
          /\ programmings[h].active
          /\ ureq[o].kind # "remove" => programmings[h].status \in {"pending", "error"}
    BY <1>2, <1>3, <2>1 DEF WaitingFits, Uk!Adds
  <2> QED BY <1>2, <1>6, <1>7, <2>2 DEF WaitingFits, Waiting, Uk!Adds, TxLabels
<1>9. AnswerFits(o)'
  BY <1>6 DEF AnswerFits, TxLabels
<1>10. ASSUME NEW l \in Keys PROVE OnProgrammings(l)'
  <2>1. \A x \in crm[l] : x \in Uk!Accounted(l) \/ x \in unconfirmed[l]
    <3>1. \A x : ~Adding({"record"}, l, x)
      BY <1>2, WhoAdds
    <3> QED BY <3>1 DEF AtWork, CrmFits, OnProgrammings
  <2>2. Uk!Accounted(l)' = Uk!Accounted(l)
    BY <1>2 DEF Uk!Accounted, Uk!KeyOf
  <2> QED BY <1>2, <2>1, <2>2 DEF OnProgrammings
<1>11. ASSUME schedule.losses = 0, NEW l \in Keys PROVE OnRows(l)'
  <2>1. PICK state \in RowStates :
          /\ row' = [row EXCEPT ![k][p] = state]
          /\ Uk!Adds(o) /\ ureq[o].answer => state \in LiveStates
          /\ ~Uk!Adds(o) /\ ~ureq[o].answer => state \in LiveStates
    BY <1>2 DEF Uk!RecordPanelWrite, Uk!RecordPanelDelete, RowStates, LiveStates
  <2>2. /\ \A m \in Keys, x \in Panels :
              m # k \/ x # p => (x \in Live(m)' <=> x \in Live(m))
        /\ state \in LiveStates => p \in Live(k)'
    BY <1>3, <1>4, <2>1, RowStored
  <2>3. ASSUME NEW x \in crm[l] PROVE x \in Live(l)' \/ x \in unconfirmed[l]
    <3>1. x \in Panels
      BY <1>3
    <3>2. \/ x \in Live(l) \/ x \in unconfirmed[l] \/ Adding({"record", "row"}, l, x)
      BY <1>11 DEF AtWork, CrmFits, OnRows
    <3>3. Adding({"record", "row"}, l, x) => l = k /\ x = p /\ Uk!Adds(o) /\ ureq[o].answer
      BY <1>1, WhoAdds
    <3>4. CASE l # k \/ x # p
      BY <2>2, <3>1, <3>2, <3>3, <3>4
    <3>5. CASE l = k /\ x = p
      <4>1. /\ Uk!Adds(o) /\ ~ureq[o].answer => p \notin crm[k] \/ p \in unconfirmed[k]
            /\ ~Uk!Adds(o) /\ ureq[o].answer => p \notin crm[k]
        BY <1>1, <1>2, <1>3 DEF AnswerFits
      <4> QED BY <2>1, <2>2, <3>5, <4>1
    <3> QED BY <3>4, <3>5
  <2> QED BY <1>2, <2>3 DEF OnRows
<1> QED BY <1>5, <1>8, <1>9, <1>10, <1>11, WorkDone

\* A worker that is lost takes the confirmation of a create along.
LEMMA LostBooks ==
  ASSUME NEW o \in Operators, AtWork(o), Uk!Lose(o)
  PROVE  (IssuesFit /\ CrmFits)'
<1>1. PICK g : g = ureq[o].current
  OBVIOUS
<1>2. /\ upc[o] # "idle" /\ losses < schedule.losses /\ Uk!Finish(o)
      /\ unconfirmed' = IF upc[o] = "record" /\ Uk!Adds(o) /\ ureq[o].answer
                          THEN [unconfirmed EXCEPT ![Uk!KeyOf(g)] =
                                  @ \cup {programmings[g].panel}]
                          ELSE unconfirmed
      /\ UNCHANGED <<crm, issues, programmings, keyStatus, place>>
  BY <1>1 DEF Uk!Lose, Uk!company
<1>3. /\ Typed /\ TablesStep /\ IssuesFit /\ losses \in Nat
      /\ unconfirmed \in [Keys -> SUBSET Panels]
      /\ OperatorOK(o)
      /\ \A h \in DOMAIN programmings : Uk!KeyOf(h) \in Keys
  BY WorkFacts DEF AtWork, Typed, Uk!UkTypeOK
<1>4. upc'[o] = "idle"
  BY <1>2, <1>3, FinishTyped
<1>5. ActiveFits' /\ IssuedFits' /\ WaitingFits(o)' /\ AnswerFits(o)'
  BY <1>2, <1>3, <1>4, QuietIssues DEF WaitingFits, AnswerFits, TxLabels
<1>6. schedule.losses # 0
  BY <1>2, <1>3
<1>7. ASSUME NEW l \in Keys PROVE OnProgrammings(l)'
  <2>1. Uk!Accounted(l)' = Uk!Accounted(l)
    BY <1>2 DEF Uk!Accounted, Uk!KeyOf
  <2>2. \A x : x \in unconfirmed[l] => x \in unconfirmed'[l]
    BY <1>2, <1>3
  <2>3. ASSUME NEW x, Adding({"record"}, l, x) PROVE x \in unconfirmed'[l]
    <3>1. /\ upc[o] = "record" /\ Uk!Adds(o) /\ ureq[o].answer
          /\ Uk!KeyOf(g) = l /\ programmings[g].panel = x
      BY <1>1, <2>3, WhoAdds
    <3> QED BY <1>2, <1>3, <3>1
  <2> QED BY <1>2, <2>1, <2>2, <2>3 DEF AtWork, CrmFits, OnProgrammings
<1> QED BY <1>5, <1>6, <1>7, WorkDone

\* So every step of an operator at work keeps the books.
LEMMA OperateBooks ==
  ASSUME NEW o \in Operators, AtWork(o), Uk!Operate(o)
  PROVE  (IssuesFit /\ CrmFits)'
BY StartBooks, NoUnlink, CreateBooks, RefusedBooks, CallBooks, AddedBooks, NoConflict,
   FailedBooks, TransactionBooks, RemovedBooks, PanelBooks, LostBooks
   DEF Uk!Operate, Transacts

-----------------------------------------------------------------------------
(* The books, step by step: the key card.                                  *)

\* When no operator is at work the panel rows alone are the books of the key
\* card, as in KeyLifecycleProofs.
LEMMA CardBooks ==
  ASSUME ~Overlap, Orderly, CompanyInv, BothNext, NEW r \in Requests, LifecycleStep(r)
  PROVE  /\ Books /\ Books' /\ ReleasesOnly' /\ IssuesFit /\ CrmFits
         /\ \A k \in Keys : \A p : ~InFlight(k, p) /\ ~InFlight(k, p)'
         /\ \A k \in Keys : \A p :
              ~Adding({"record"}, k, p) /\ ~Adding({"record", "row"}, k, p)
<1>1. /\ Typed /\ TablesFit /\ ReleasesOnly /\ Turns /\ TypeInv
      /\ schedule.alone => IssuesFit /\ CrmFits
  BY DEF CompanyInv, BooksFit, Typed
<1>2. /\ schedule.alone /\ schedule.losses = 0
      /\ \A o \in Operators : upc[o] = "idle"
  BY <1>1, CardTurn
<1>3. ReleasesOnly'
  BY <1>1, ReleasesKept
<1>4. \A k \in Keys : \A p : ~InFlight(k, p) /\ ~InFlight(k, p)'
  BY <1>1, <1>3 DEF InFlight, ReleasesOnly, ReleaseLabels
<1>5. \A k \in Keys : \A p :
        ~Adding({"record"}, k, p) /\ ~Adding({"record", "row"}, k, p)
  BY <1>2 DEF Adding
<1>6. Books
  <2>1. ASSUME NEW k \in Keys PROVE KeyTracked(k)
    BY <1>1, <1>2, <1>5 DEF CrmFits, OnRows, KeyTracked
  <2> QED BY <1>1, <1>2, <2>1 DEF CrmFits, Books
<1>7. Books'
  BY <1>1, <1>6, BooksStep DEF LifecycleStep, Acts
<1> QED BY <1>1, <1>2, <1>3, <1>4, <1>5, <1>6, <1>7

\* A key that is released on its card opens nothing but what was never confirmed.
LEMMA CardReleases ==
  ASSUME ~Overlap, Orderly, CompanyInv, BothNext, NEW r \in Requests, LifecycleStep(r),
         Released(r)
  PROVE  req[r].key \in Keys /\ crm[req[r].key] \subseteq unconfirmed[req[r].key]
<1>1. TypeInv /\ ReleasesOnly
  BY DEF CompanyInv, Typed
<1>2. req[r].key \in Keys
  BY <1>1 DEF Released, TypeInv, RequestOK
<1>3. Live(req[r].key) = {}
  BY <1>1, ReleaseEffects
<1>4. KeyTracked(req[r].key) /\ \A p : ~InFlight(req[r].key, p)
  BY <1>2, CardBooks DEF Books
<1> QED BY <1>2, <1>3, <1>4 DEF KeyTracked

\* The key card keeps the tables of the company true.
LEMMA CardIssues ==
  ASSUME ~Overlap, Orderly, CompanyInv, BothNext, NEW r \in Requests, LifecycleStep(r)
  PROVE  IssuesFit'
<1>1. /\ Typed /\ TypeInv /\ ReleasesOnly /\ ActiveFits /\ IssuedFits /\ Uk!UkTypeOK
      /\ \A i \in DOMAIN issues : issues[i].key \in Keys
      /\ \A g \in DOMAIN programmings : programmings[g].issue \in DOMAIN issues
  BY CardBooks, Rows DEF CompanyInv, Typed, IssuesFit, Uk!Issues
<1>2. \A o \in Operators : WaitingFits(o)'
  BY CardTurn DEF WaitingFits, CompanyInv
<1>3. CASE ~Released(r)
  <2>1. UNCHANGED <<issues, programmings, keyStatus, place>>
    BY <1>1, <1>3, ReleaseEffects DEF LifecycleStep
  <2> QED BY <1>1, <1>2, <2>1 DEF IssuesFit, ActiveFits, IssuedFits
<1>4. CASE Released(r)
  <2>1. PICK k \in Keys : k = req[r].key
    BY <1>4, CardReleases
  <2>2. Uk!CloseIssues(k)
    BY <1>4, <2>1 DEF LifecycleStep
  <2>3. /\ DOMAIN issues' = DOMAIN issues
        /\ \A i \in DOMAIN issues :
             /\ issues'[i].key = issues[i].key
             /\ issues'[i].status =
                  IF issues[i].key = k THEN "released" ELSE issues[i].status
        /\ DOMAIN programmings' = DOMAIN programmings
        /\ \A g \in DOMAIN programmings :
             /\ programmings'[g].issue = programmings[g].issue
             /\ programmings'[g].active <=> programmings[g].active /\ Uk!KeyOf(g) # k
             /\ programmings'[g].status =
                  IF programmings[g].active /\ Uk!KeyOf(g) = k THEN "removed"
                                                 ELSE programmings[g].status
    BY <1>1, <2>2, IssuesClosed
  <2>4. \A l \in Keys \ {k} : keyStatus'[l] = keyStatus[l] /\ place'[l] = place[l]
    BY <1>1, <1>4, <2>1, ReleaseEffects
  <2>5. ActiveFits'
    <3>1. ASSUME NEW g \in DOMAIN programmings
          PROVE  /\ programmings'[g].active <=> programmings'[g].status \in ActiveStatuses
                 /\ programmings'[g].status # "unlinked"
      BY <1>1, <2>3 DEF ActiveFits, ActiveStatuses
    <3>2. ASSUME NEW g \in DOMAIN programmings, programmings'[g].active
          PROVE  issues'[programmings[g].issue].status \in Uk!OpenStatuses
      <4>1. /\ programmings[g].active /\ issues[programmings[g].issue].key # k
            /\ programmings[g].issue \in DOMAIN issues
        BY <1>1, <2>3, <3>2 DEF Uk!KeyOf
      <4> QED BY <1>1, <2>3, <4>1 DEF ActiveFits
    <3> QED BY <2>3, <3>1, <3>2 DEF ActiveFits
  <2>6. IssuedFits'
    <3>1. ASSUME NEW i \in DOMAIN issues, issues'[i].status = "active"
          PROVE  keyStatus'[issues[i].key] = "issued" /\ place'[issues[i].key] = Company
      <4>1. issues[i].key # k /\ issues[i].status = "active"
        BY <2>3, <3>1
      <4> QED BY <1>1, <2>4, <4>1 DEF IssuedFits
    <3> QED BY <2>3, <3>1 DEF IssuedFits
  <2> QED BY <1>2, <2>5, <2>6 DEF IssuesFit
<1> QED BY <1>3, <1>4

\* What the CRM lets the keys open stays on the books when the key card works.
LEMMA CardCrm ==
  ASSUME ~Overlap, Orderly, CompanyInv, BothNext, NEW r \in Requests, LifecycleStep(r)
  PROVE  CrmFits'
<1>1. /\ Typed /\ TypeInv /\ ReleasesOnly /\ TablesFit /\ Uk!UkTypeOK
      /\ Books' /\ CrmFits /\ \A k \in Keys : \A p : ~InFlight(k, p)'
  BY CardBooks DEF CompanyInv, Typed
<1>2. /\ UNCHANGED unconfirmed /\ \A k \in Keys : crm'[k] \subseteq crm[k]
  BY <1>1, ReleaseEffects
<1>3. \A o \in Operators : AnswerFits(o)'
  BY CardTurn DEF AnswerFits, CompanyInv, TxLabels
<1>4. ASSUME NEW k \in Keys PROVE OnProgrammings(k)'
  <2>2. \A p \in crm[k] : p \in Uk!Accounted(k) \/ p \in unconfirmed[k]
    <3>1. \A p : ~Adding({"record"}, k, p)
      BY CardBooks
    <3> QED BY <1>1, <3>1 DEF CrmFits, OnProgrammings
  <2>3. CASE Released(r) /\ k = req[r].key
    <3>1. crm[k] \subseteq unconfirmed[k]
      BY <2>3, CardReleases
    <3> QED BY <1>2, <3>1 DEF OnProgrammings
  <2>4. CASE ~(Released(r) /\ k = req[r].key)
    <3>1. ASSUME NEW g \in DOMAIN programmings, Uk!KeyOf(g) = k,
                 programmings[g].active, programmings[g].status = "success"
          PROVE  /\ Uk!KeyOf(g)' = Uk!KeyOf(g) /\ programmings'[g].active
                 /\ programmings'[g].status = "success"
                 /\ programmings'[g].panel = programmings[g].panel
      <4>1. CASE ~Released(r)
        BY <3>1, <4>1 DEF LifecycleStep, Uk!KeyOf
      <4>2. CASE Released(r)
        <5>1. PICK l \in Keys : l = req[r].key
          BY <4>2, CardReleases
        <5>2. Uk!CloseIssues(l)
          BY <4>2, <5>1 DEF LifecycleStep
        <5>3. /\ \A i \in DOMAIN issues : issues'[i].key = issues[i].key
              /\ programmings'[g].issue = programmings[g].issue
              /\ programmings'[g].panel = programmings[g].panel
              /\ programmings'[g].active <=> programmings[g].active /\ Uk!KeyOf(g) # l
              /\ programmings'[g].status =
                   IF programmings[g].active /\ Uk!KeyOf(g) = l THEN "removed"
                                                  ELSE programmings[g].status
          BY <1>1, <5>2, IssuesClosed
        <5>4. programmings[g].issue \in DOMAIN issues
          BY <1>1, Rows
        <5> QED BY <2>4, <3>1, <4>2, <5>1, <5>3, <5>4 DEF Uk!KeyOf
      <4> QED BY <4>1, <4>2
    <3>2. TablesStep
      BY <1>1, CardTyped
    <3>3. \A p : p \in Uk!Accounted(k) => p \in Uk!Accounted(k)'
      BY <1>1, <3>1, <3>2, AccountedStays
    <3> QED BY <1>2, <2>2, <3>3 DEF OnProgrammings
  <2> QED BY <2>3, <2>4
<1>5. ASSUME NEW k \in Keys PROVE OnRows(k)'
  <2>1. KeyTracked(k)'
    BY <1>1 DEF Books
  <2> QED BY <1>1, <2>1 DEF KeyTracked, OnRows
<1>6. Disjoint' /\ \A s \in Requests : InHand(s)'
  BY <1>1 DEF Books
<1> QED BY <1>3, <1>4, <1>5, <1>6 DEF CrmFits

-----------------------------------------------------------------------------
(* The company's invariant.                                                *)

\* An operator that makes a step while the tasks follow each other is alone at
\* work, with the books in order.
LEMMA TakesTurn ==
  ASSUME ~Overlap, Orderly, CompanyInv, BothNext, CompanyStep, schedule.alone,
         NEW o \in Operators, Uk!Operate(o)
  PROVE  AtWork(o)
<1>1. /\ Typed /\ TablesFit /\ Turns /\ IssuesFit /\ CrmFits
      /\ UNCHANGED <<pc, req, schedule>>
  BY DEF CompanyInv, BooksFit, CompanyStep, Uk!UkNext
<1>2. /\ \A r \in Requests : pc[r] = "idle"
      /\ \A q \in Operators \ {o} : upc[q] = "idle" /\ upc'[q] = "idle"
  BY <1>1, OperatorTurn
<1>3. TablesStep
  BY <1>1, OperateTables
<1>4. "unlink" \notin schedule.kinds
  BY <1>1 DEF Orderly, Typed
<1> QED BY <1>1, <1>2, <1>3, <1>4 DEF AtWork

\* Nobody is at work yet, and nothing is on the books.
LEMMA CompanyStarts == ASSUME BothInit PROVE CompanyInv
<1>1. /\ Typed /\ TablesFit
      /\ \A r \in Requests : pc[r] = "idle"
      /\ \A o \in Operators : upc[o] = "idle"
      /\ \A k \in Keys : crm[k] = {}
  BY CompanyBegins
<1>2. ReleasesOnly /\ Turns
  BY <1>1 DEF ReleasesOnly, ReleaseLabels, Turns, Apart
<1>3. IssuesFit
  BY <1>1 DEF BothInit, Uk!UkInit, IssuesFit, ActiveFits, IssuedFits, WaitingFits
<1>4. CrmFits
  <2>1. \A o \in Operators : AnswerFits(o)
    BY <1>1 DEF AnswerFits, TxLabels
  <2>2. \A k \in Keys : OnProgrammings(k) /\ OnRows(k)
    BY <1>1 DEF OnProgrammings, OnRows
  <2>3. Disjoint /\ \A r \in Requests : InHand(r)
    BY <1>1 DEF Disjoint, InHand, RemovedIsGone, KnownCovers, Writing
  <2> QED BY <2>1, <2>2, <2>3 DEF CrmFits
<1> QED BY <1>1, <1>2, <1>3, <1>4 DEF CompanyInv, BooksFit

\* A step that changes nothing keeps the books.
LEMMA BooksStay ==
  ASSUME BooksFit, UNCHANGED allVars PROVE BooksFit'
<1>1. UNCHANGED <<keyStatus, place, row, crm, unconfirmed, issues, programmings,
                  upc, ureq, schedule, pc, req>>
  BY DEF allVars, vars, store
<1>2. ActiveFits /\ IssuedFits => ActiveFits' /\ IssuedFits'
  BY <1>1 DEF ActiveFits, IssuedFits
<1>3. \A o \in Operators : WaitingFits(o) => WaitingFits(o)'
  BY SMTT(60), <1>1 DEF WaitingFits, Waiting, Uk!Adds, Uk!Left, Uk!ActiveOf
<1>4. \A o \in Operators : AnswerFits(o) => AnswerFits(o)'
  BY <1>1 DEF AnswerFits, Uk!Adds, Uk!KeyOf
<1>5. \A k \in Keys : OnProgrammings(k) => OnProgrammings(k)'
  BY <1>1 DEF OnProgrammings, Uk!Accounted, Uk!KeyOf, Uk!Adds, Adding
<1>6. \A k \in Keys : OnRows(k) => OnRows(k)'
  BY <1>1 DEF OnRows, Live, Uk!KeyOf, Uk!Adds, Adding
<1>7. /\ Disjoint => Disjoint'
      /\ \A r \in Requests : InHand(r) => InHand(r)'
  BY <1>1 DEF Disjoint, Touches, InHand, RemovedIsGone, KnownCovers, Writing,
     WriteKey, Live
<1>8. IssuesFit => IssuesFit'
  BY <1>2, <1>3 DEF IssuesFit
<1>9. CrmFits => CrmFits'
  BY <1>1, <1>4, <1>5, <1>6, <1>7 DEF CrmFits
<1> QED BY <1>1, <1>8, <1>9 DEF BooksFit

\* Every step keeps it.
LEMMA CompanyInvKept ==
  ASSUME ~Overlap, Orderly, CompanyInv, [BothNext]_allVars PROVE CompanyInv'
<1>1. Typed /\ TablesFit /\ ReleasesOnly /\ Turns /\ BooksFit
  BY DEF CompanyInv
<1>2. Typed' /\ TablesFit' /\ ReleasesOnly' /\ Turns'
  BY <1>1, BothTyped, TurnsKept
<1>3. BooksFit'
  <2>1. CASE UNCHANGED allVars
    BY <1>1, <2>1, BooksStay
  <2>2. CASE BothNext /\ CompanyStep
    <3>1. schedule' = schedule
      BY <2>2 DEF CompanyStep, Uk!UkNext
    <3>2. ASSUME schedule.alone PROVE (IssuesFit /\ CrmFits)'
      <4>1. PICK o \in Operators : Uk!Operate(o)
        BY <2>2 DEF CompanyStep, Uk!UkNext
      <4> QED BY <2>2, <3>2, <4>1, TakesTurn, OperateBooks
    <3> QED BY <3>1, <3>2 DEF BooksFit
  <2>3. CASE BothNext /\ \E r \in Requests : LifecycleStep(r)
    BY <2>3, CardIssues, CardCrm DEF BooksFit
  <2> QED BY <2>1, <2>2, <2>3 DEF BothNext
<1> QED BY <1>2, <1>3 DEF CompanyInv

\* Where the work is done in turn, the books of the company and the CRM agree
\* as CompanyInv says: uk_keys.py, uk_repository.py and the release of a key card.
THEOREM CompanyInvariance ==
  ASSUME ~Overlap, Orderly PROVE BothSpec => []CompanyInv
<1>1. BothInit => CompanyInv
  BY CompanyStarts
<1>2. CompanyInv /\ [BothNext]_allVars => CompanyInv'
  BY CompanyInvKept
<1> QED BY <1>1, <1>2, PTL DEF BothSpec

-----------------------------------------------------------------------------
(* What it is for.                                                         *)

\* What the CRM lets a key of the company open is on the books of the company
\* and, but for lost workers, in the panel rows a release deletes by:
\* uk_keys.py:58-66 and 106-124.
THEOREM BooksKnowTheCrm ==
  ASSUME ~Overlap, Orderly PROVE BothSpec => []CompanyOnBooks
<1>1. CompanyInv => CompanyOnBooks
  <2> SUFFICES ASSUME CompanyInv PROVE CompanyOnBooks
    OBVIOUS
  <2>1. Uk!UkTypeOK /\ BooksFit
    BY DEF CompanyInv, Typed
  <2>2. \A k \in Keys : \A p :
          Adding({"record"}, k, p) \/ Adding({"record", "row"}, k, p) => Uk!Handling(k, p)
    BY DEF Adding, Uk!Handling
  <2>3. Uk!UkTracked
    BY <2>1, <2>2 DEF BooksFit, CrmFits, OnProgrammings, Uk!UkTracked
  <2>4. Uk!RowsTracked
    BY <2>1, <2>2, SameStore DEF BooksFit, CrmFits, OnRows, Uk!RowsTracked
  <2> QED BY <2>1, <2>3, <2>4 DEF CompanyOnBooks
<1> QED BY <1>1, CompanyInvariance, PTL

\* A closed issue has no panel left.
LEMMA ClosedIsEmpty ==
  ASSUME ActiveFits, NEW i, issues[i].status \notin Uk!OpenStatuses
  PROVE  Uk!ActiveOf(programmings, i) = {}
BY DEF ActiveFits, Uk!ActiveOf

\* The company holds the keys of its active issues, whoever releases keys, and
\* a closed issue has no active panel: uk_repository.py:911-1043 and
\* key_lifecycle_repository.py:467-496.
THEOREM CompanyHoldsItsKeys ==
  ASSUME ~Overlap, Orderly PROVE BothSpec => []CompanyHoldsKey
<1>1. CompanyInv => CompanyHoldsKey
  <2> SUFFICES ASSUME CompanyInv PROVE CompanyHoldsKey
    OBVIOUS
  <2>1. schedule.alone => ActiveFits /\ IssuedFits
    BY DEF CompanyInv, BooksFit, IssuesFit
  <2>2. Uk!IssueHoldsKey
    BY <2>1 DEF Uk!IssueHoldsKey, Uk!Bookkept, IssuedFits
  <2>3. ASSUME schedule.alone, NEW i \in DOMAIN issues, issues[i].status = "released"
        PROVE  Uk!ActiveOf(programmings, i) = {}
    BY <2>1, <2>3, ClosedIsEmpty DEF Uk!OpenStatuses
  <2> QED BY <2>2, <2>3 DEF CompanyHoldsKey
<1> QED BY <1>1, CompanyInvariance, PTL

\* When the key card has released a key, the CRM has let go of it, although the
\* company's pages have programmed it: finalize_release after delete_all_accesses,
\* key_lifecycle.py:162-198.
THEOREM ReleasedKeyIsGone ==
  ASSUME ~Overlap, Orderly PROVE BothSpec => CompanyKeyGone
<1>1. CompanyInv /\ [BothNext]_allVars =>
        [\A r \in Requests : Released(r) =>
           crm[req[r].key] \subseteq unconfirmed[req[r].key]]_allVars
  <2> SUFFICES ASSUME CompanyInv, BothNext, NEW r \in Requests, Released(r)
               PROVE  crm[req[r].key] \subseteq unconfirmed[req[r].key]
    OBVIOUS
  <2>1. pc'[r] # pc[r]
    BY DEF Released
  <2>2. PICK s \in Requests : LifecycleStep(s)
    BY <2>1 DEF BothNext, CompanyStep
  <2>3. s = r
    <3>1. Acts(s) /\ TypeInv
      BY <2>2 DEF LifecycleStep, Acts, CompanyInv, Typed
    <3>2. r # s => pc'[r] = pc[r]
      BY <3>1, ActsMove DEF OnlyMoves
    <3> QED BY <2>1, <3>2
  <2> QED BY <2>2, <2>3, CardReleases
<1> QED BY <1>1, CompanyInvariance, PTL DEF BothSpec, CompanyKeyGone

\* What a step may do to an issue: a key that comes free has no open issue left.
Closes == \A k \in Keys : keyStatus[k] = "issued" /\ keyStatus'[k] = "free" =>
  \A i \in DOMAIN issues' :
    issues'[i].key = k => issues'[i].status \notin Uk!OpenStatuses

\* A removal frees the key of an issue with its last panel, and no other issue
\* of the key is open.
LEMMA RemovedCloses ==
  ASSUME NEW o \in Operators, AtWork(o), Uk!Commit(o) PROVE Closes
<1>1. PICK g, i, k : g = ureq[o].current /\ i = programmings[g].issue /\ k = issues[i].key
  BY SMTT(60)
<1>2. /\ upc[o] = "commit"
      /\ \/ /\ issues' = [issues EXCEPT ![i].status = "released"]
            /\ Uk!FinalizeRelease(k, "free")
         \/ UNCHANGED <<issues, keyStatus>>
  BY <1>1 DEF Uk!Commit
<1>3. CASE UNCHANGED <<issues, keyStatus>>
  BY <1>3 DEF Closes
<1>4. CASE /\ issues' = [issues EXCEPT ![i].status = "released"]
           /\ Uk!FinalizeRelease(k, "free")
  <2>1. /\ i \in DOMAIN issues /\ issues[i].status \in Uk!OpenStatuses
        /\ Uk!UkTypeOK /\ TablesFit
    BY <1>1, <1>2, AnsweredFacts, WorkFacts DEF AtWork, TxLabels
  <2>2. \A j \in DOMAIN issues \ {i} :
          issues[j].key = k => issues[j].status \notin Uk!OpenStatuses
    BY <1>1, <2>1, OneIsOpen
  <2>3. /\ DOMAIN issues' = DOMAIN issues
        /\ \A j \in DOMAIN issues :
             /\ issues'[j].key = issues[j].key
             /\ issues'[j].status = IF j = i THEN "released" ELSE issues[j].status
    <3>1. "released" \in Uk!IssueStatuses /\ "released" \notin Uk!OpenStatuses
      BY DEF Uk!IssueStatuses, Uk!OpenStatuses
    <3> QED BY <1>4, <2>1, <3>1, IssueSet DEF TablesFit
  <2>4. keyStatus' = [keyStatus EXCEPT ![k] = "free"] /\ keyStatus \in [Keys -> KeyStatuses]
    BY <1>4 DEF Uk!FinalizeRelease, AtWork, Typed, TypeInv, TypeOK, StoreTypeOK
  <2>5. ASSUME NEW l \in Keys, keyStatus[l] = "issued", keyStatus'[l] = "free",
               NEW j \in DOMAIN issues', issues'[j].key = l
        PROVE  issues'[j].status \notin Uk!OpenStatuses
    <3>1. l = k
      BY <2>4, <2>5
    <3> QED BY <2>2, <2>3, <2>5, <3>1 DEF Uk!OpenStatuses
  <2> QED BY SMTT(60), <2>3, <2>5 DEF Closes
<1> QED BY <1>2, <1>3, <1>4

\* So says every step of an operator at work.
LEMMA OperateCloses ==
  ASSUME NEW o \in Operators, AtWork(o), Uk!Operate(o) PROVE Closes
<1>1. CASE \/ Uk!StartIssue(o) \/ Uk!StartPanel(o) \/ Uk!StartRetry(o)
           \/ Uk!StartRemove(o)
  BY <1>1, StartedWaiting DEF Closes
<1>2. CASE \/ \E p \in Panels : Uk!CreateIssue(o, p) \/ Uk!CreateProgramming(o, p)
           \/ Uk!CreateRefused(o) \/ \E g \in DOMAIN programmings : Uk!Call(o, g)
           \/ Uk!RecordFailed(o) \/ Uk!RecordPanel(o) \/ Uk!Lose(o) \/ Transacts(o)
  <2>1. UNCHANGED keyStatus
    BY <1>2, TransactsOnly
       DEF Uk!CreateIssue, Uk!CreateProgramming, Uk!AddProgramming, Uk!CreateRefused,
           Uk!Call, Uk!RecordFailed, Uk!RecordPanel, Uk!Lose
  <2> QED BY SMTT(60), <2>1 DEF Closes
<1>3. CASE Uk!RecordAdded(o)
  <2>1. PICK k : Uk!SetKeyAssignment(k, Company)
    BY <1>3 DEF Uk!RecordAdded
  <2>2. keyStatus' = [keyStatus EXCEPT ![k] = "issued"] /\ keyStatus \in [Keys -> KeyStatuses]
    BY <2>1 DEF Uk!SetKeyAssignment, Uk!KeepAssignment, Uk!NewAssignment,
       AtWork, Typed, TypeInv, TypeOK, StoreTypeOK
  <2>3. \A l \in Keys : keyStatus'[l] = keyStatus[l] \/ keyStatus'[l] = "issued"
    BY <2>2
  <2> QED BY SMTT(60), <2>3 DEF Closes
<1> QED BY <1>1, <1>2, <1>3, NoUnlink, RemovedCloses, NoConflict DEF Uk!Operate, Transacts

\* The key card closes the issues of the key it frees.
LEMMA CardCloses ==
  ASSUME ~Overlap, Orderly, CompanyInv, BothNext, NEW r \in Requests, LifecycleStep(r)
  PROVE  Closes
<1>1. Typed /\ TypeInv /\ ReleasesOnly /\ Uk!UkTypeOK
  BY DEF CompanyInv, Typed
<1>2. CASE ~Released(r)
  BY <1>1, <1>2, ReleaseEffects DEF LifecycleStep, Closes
<1>3. CASE Released(r)
  <2>1. PICK k \in Keys : k = req[r].key
    BY <1>3, CardReleases
  <2>2. Uk!CloseIssues(k)
    BY <1>3, <2>1 DEF LifecycleStep
  <2>3. /\ DOMAIN issues' = DOMAIN issues
        /\ \A i \in DOMAIN issues :
             /\ issues'[i].key = issues[i].key
             /\ issues'[i].status =
                  IF issues[i].key = k THEN "released" ELSE issues[i].status
    BY <1>1, <2>2, IssuesClosed
  <2>4. \A l \in Keys \ {k} : keyStatus'[l] = keyStatus[l]
    BY <1>1, <1>3, <2>1, ReleaseEffects
  <2> QED BY <2>3, <2>4 DEF Closes, Uk!OpenStatuses
<1> QED BY <1>2, <1>3

\* And so says every step of both, where the tasks follow each other.
LEMMA BothClose ==
  ASSUME ~Overlap, Orderly, CompanyInv, BothNext, schedule.alone PROVE Closes
<1>1. CASE CompanyStep
  <2>1. PICK o \in Operators : Uk!Operate(o)
    BY <1>1 DEF CompanyStep, Uk!UkNext
  <2> QED BY <1>1, <2>1, TakesTurn, OperateCloses
<1> QED BY <1>1, CardCloses DEF BothNext

\* No removal and no release frees a key that has panels left:
\* _release_empty_issue_on_connection, uk_repository.py:1098-1127.
THEOREM FreedKeysAreEmpty ==
  ASSUME ~Overlap, Orderly PROVE BothSpec => CompanyFreedWhenEmpty
<1>1. CompanyInv /\ CompanyInv' /\ [BothNext]_allVars =>
        [Uk!Bookkept => Uk!FreesEmptyKeys]_(Uk!ukVars)
  <2>1. UNCHANGED allVars => UNCHANGED (Uk!ukVars)
    BY DEF allVars, vars, store, Uk!ukVars, Uk!company, Uk!thread
  <2>2. ASSUME CompanyInv, CompanyInv', BothNext, Uk!Bookkept PROVE Uk!FreesEmptyKeys
    <3>1. Closes /\ schedule.alone
      BY <2>2, BothClose DEF Uk!Bookkept
    <3>2. schedule' = schedule
      BY <2>2 DEF BothNext, CompanyStep, Uk!UkNext, LifecycleStep
    <3>3. ActiveFits'
      BY <2>2, <3>1, <3>2 DEF CompanyInv, BooksFit, IssuesFit
    <3>4. ASSUME NEW i, issues'[i].status \notin Uk!OpenStatuses
          PROVE  Uk!ActiveOf(programmings', i) = {}
      BY <3>3, <3>4 DEF ActiveFits, Uk!ActiveOf
    <3> QED BY <3>1, <3>4 DEF Closes, Uk!FreesEmptyKeys
  <2> QED BY <2>1, <2>2
<1> QED BY <1>1, CompanyInvariance, PTL
        DEF BothSpec, CompanyFreedWhenEmpty, Uk!FreedWhenEmpty

=============================================================================
