---------------------------- MODULE DataSourceDb ----------------------------
(***************************************************************************)
(* The data source over the IOC database, DataSourceCA: the one vector     *)
(* addrs_ in which it keeps the address of every record it has connected,  *)
(* and the channels, which point into it.  The operators below are the     *)
(* calls of DataSource; module IocInit makes them.                         *)
(***************************************************************************)
EXTENDS Integers, Sequences, FiniteSets

CONSTANTS
  Names,    \* names a PV list may hold
  Records,  \* those of them that dbNameToAddr finds
  None      \* an address that is all zero

ASSUME RecordAssumption == Records \subseteq Names /\ None \notin Names

VARIABLES
  block,  \* which allocation addrs_ lives in
  size,   \* addrs_.size()
  cells   \* what that allocation holds, up to the capacity of addrs_

addrs == <<block, size, cells>>

\* The address of a record is the record it leads to.
Addresses == Records \union {None}
\* A channel holds its name and a pointer to a cell, not the cell's number.
ChannelTypes == [pv : Names, block : Nat, at : Nat \ {0}]

AddrsInit == block = 0 /\ size = 0 /\ cells = <<>>

\* Mutant: what a failed look-up leaves is not reset.
Unreset(pv) == pv

\* dbNameToAddr; an address it does not find is reset to zero.
AddressOf(pv) == IF pv \in Records THEN pv ELSE None

\* The capacity std::vector takes when it has to grow to n elements.
Grown(n) == IF n > 2 * size THEN n ELSE 2 * size

Moves(n) == n > Len(cells)

\* connect(pvList, outChannels) resizes addrs_, which may move it, and fills it
\* from its first cell on; the cells after those keep what was in them.  Each
\* name that is found becomes a channel that points to its cell.
ConnectAddrs(pvList) ==
  LET n == Len(pvList) IN
  /\ size' = n
  /\ block' = IF Moves(n) THEN block + 1 ELSE block
  /\ cells' = [i \in 1..(IF Moves(n) THEN Grown(n) ELSE Len(cells)) |->
                 IF i <= n THEN AddressOf(pvList[i])
                   ELSE IF Moves(n) THEN None ELSE cells[i]]

\* Mutant: the pointers are taken before the vector is resized.
StaleBlock == block
CellBlock == block'

\* Mutant: channels and cells are counted together.
ChannelIndex(pvList, i) == Cardinality({j \in 1..i : pvList[j] \in Records})
CellIndex(pvList, i) == i

\* The channels, in the order of the list, by the positions of their names in it.
Connected(pvList) ==
  [i \in {j \in DOMAIN pvList : pvList[j] \in Records} |->
     [pv |-> pvList[i], block |-> CellBlock, at |-> CellIndex(pvList, i)]]

\* The position of the next channel from position k on.
IsNext(chans, i, k) ==
  i \in DOMAIN chans /\ i >= k /\ \A j \in DOMAIN chans : j >= k => i <= j
NoneLeft(chans, k) == \A j \in DOMAIN chans : j < k

\* Where the pointer of a channel leads.  Freed memory may hold anything.
Addressed(ch) == IF ch.block = block THEN {cells[ch.at]} ELSE Addresses

=============================================================================
