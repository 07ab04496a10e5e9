------------------------------ MODULE MCOffice ------------------------------
(* The instance of Office for TLC.                                         *)
EXTENDS Office

CONSTANTS h1, h2, x1, x2, f1, f2

\* 07, 10 and 9: numbers of one width, with and without a leading zero.
n7 == <<7, 2>>
n10 == <<10, 2>>
SomeNumbers == {n7, n10, <<9, 1>>}

Row(type, number, hex) == NewRow(type, number, hex)

\* No key, a key without a HEX, one with it, and both.
SomeTables == {<<>>, <<Row("blue", n7, Blank)>>, <<Row("blue", n7, h1)>>,
               <<Row("blue", n7, Blank), Row("blue", n10, h1)>>}

b7 == [name |-> "blue", number |-> n7, hex |-> h1, to |-> Unassigned]
b10 == [b7 EXCEPT !.number = n10]

\* One key, one HEX twice, one number twice, a bad HEX, a new type.
SomeRegisterFiles ==
  {<<b7>>, <<b7, b10>>, <<[b7 EXCEPT !.hex = h2], b7>>,
   <<b10, [b10 EXCEPT !.hex = BadHex]>>,
   <<[b7 EXCEPT !.name = "red"], [b10 EXCEPT !.hex = h2]>>}

i7 == [b7 EXCEPT !.to = "here"]

\* One key; a row twice; one HEX under two names or for two addresses; one
\* number with two HEX codes, under one name and under two; a row without an
\* assignment; an address that is not found and a bad HEX; two keys.
SomeIssuedFiles ==
  {<<i7>>, <<i7, i7>>, <<i7, [i7 EXCEPT !.name = "azure"]>>,
   <<i7, [i7 EXCEPT !.to = "there"]>>, <<i7, [i7 EXCEPT !.hex = h2]>>,
   <<i7, [i7 EXCEPT !.name = "azure", !.hex = h2]>>,
   <<[i7 EXCEPT !.name = "azure", !.hex = h2], b10>>,
   <<[i7 EXCEPT !.to = Nowhere], [i7 EXCEPT !.hex = BadHex]>>,
   <<[i7 EXCEPT !.hex = h2, !.to = "there"], [i7 EXCEPT !.number = n10]>>}

SomeFreeFiles ==
  {<<b7>>, <<b7, b7>>, <<[b7 EXCEPT !.name = "azure", !.hex = h2], b10>>}

\* A file may call the blue keys azure.
SomeNames == [n \in {"blue", "red", "azure"} |-> IF n = "red" THEN "red" ELSE "blue"]

Panel(mac, cell) == [state |-> "there", mac |-> mac, cell |-> cell, enabled |-> TRUE]

\* No panel, one, and two.
SomePanels ==
  {[p \in PanelIds |-> UnusedPanel],
   [p \in PanelIds |-> IF p = 1 THEN Panel(x1, "a") ELSE UnusedPanel],
   [p \in PanelIds |-> CASE p = 1 -> Panel(x1, NoCell)
                         [] p = 2 -> [Panel(x2, "a") EXCEPT !.enabled = FALSE]
                         [] OTHER -> UnusedPanel]}

Link(programmed) == [NewLink(f1, 1) EXCEPT !.programmed = programmed]

\* No link, one, with or without a key, and one that was taken up again.
SomeLinks == {<<>>, <<Link(FALSE)>>, <<Link(TRUE)>>,
              <<[NewLink(f2, 1) EXCEPT !.active = FALSE], Link(TRUE)>>}

pa == [mac |-> x1, cell |-> "a"]
pn == [mac |-> x1, cell |-> NoCell]

\* One panel; a MAC twice, the second time without its cell or with another;
\* two panels, a bad MAC and none.
SomePanelFiles ==
  {<<pa>>, <<pa, pn>>, <<[pa EXCEPT !.cell = "b"], pa>>,
   <<[pn EXCEPT !.mac = x2], pa, [pa EXCEPT !.mac = BadMac], [pa EXCEPT !.mac = NoMac]>>}

\* Users are alike, and so are the people at the desks, who bear the same names
\* at each; the files name HEX and MAC.
Alike == Permutations(Users) \cup Permutations(Visitors)
=============================================================================
