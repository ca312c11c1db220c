----------------------------- MODULE SourceLists -----------------------------
(***************************************************************************)
(* The sanctions lists the daily sync reads: fetchOFAC, fetchHMT and       *)
(* fetchOpenSanctions of data-sync/scripts/daily-sync.js.                  *)
(*                                                                         *)
(* A reading delivers addresses, or nothing that can be parsed (Blank), or *)
(* the endpoint is down.  Every reading of a secondary source that can be  *)
(* trusted is kept as a snapshot file; a later run falls back on it, and   *)
(* trusts it while it is young.  The primary source falls back on a file   *)
(* that nobody here writes, and that is read on good days as well.         *)
(*                                                                         *)
(* Addresses, scores and tags are parsed and validated per record, which   *)
(* is left out: a list is a set of addresses, all of them valid.  A page   *)
(* of HMT that has records but none of the columns is a reading that lost  *)
(* every address, and counts as healthy.                                   *)
(***************************************************************************)
EXTENDS Naturals, FiniteSets

CONSTANTS
  Address,
  Primary,    \* the source a delisting needs: OFAC
  Secondary,  \* HMT, OpenSanctions
  ByRecords,  \* the secondary sources judged by their records, not their addresses: HMT
  StaticList, \* ofac-eth-source.txt
  MaxAge,     \* the age up to which a snapshot is trusted, in ticks
  Standing,   \* per source: addresses that stay on its list
  Unlisted,   \* addresses that no source lists (any more)
  Down, Blank, NoSnapshot

Source == {Primary} \cup Secondary

\* The tag of an address tells the source, and whether it was read from a file.
Tag == Source \X {"live", "file"}

Snapshot == [list : SUBSET Address, age : 0 .. MaxAge + 1]

ASSUME SourceConstants ==
  /\ IsFiniteSet(Address) /\ IsFiniteSet(Secondary)
  /\ Primary \notin Secondary /\ ByRecords \subseteq Secondary
  /\ StaticList \subseteq Address
  /\ MaxAge \in Nat
  /\ Standing \in [Source -> SUBSET (Address \ Unlisted)]
  /\ NoSnapshot \notin Snapshot
  /\ Down # Blank /\ \A list \in SUBSET Address : list # Down /\ list # Blank

VARIABLES
  listed,   \* what each source lists
  snapshot, \* its snapshot file, if there is one
  healthy   \* the sources this run trusts: primarySourceOk, hmtSourceOk, openSanctionsOk

ListsInit ==
  /\ listed = Standing
  /\ snapshot = [s \in Secondary |-> NoSnapshot]
  /\ healthy = {}

\* A source takes an address on its list, or off it.
ListChanges(s, a) ==
  /\ a \notin Standing[s] \cup Unlisted
  /\ listed' = [listed EXCEPT ![s] = IF a \in @ THEN @ \ {a} ELSE @ \cup {a}]
  /\ UNCHANGED <<snapshot, healthy>>

\* A reading that visibly fails, and one that silently loses addresses.
Failed(got) == got \in {Down, Blank}
Short(s, got) == ~ Failed(got) /\ got # listed[s]

Reading(s, mayBeShort) ==
  {Down, Blank} \cup (IF mayBeShort THEN SUBSET listed[s] ELSE {listed[s]})

Fresh(s) == snapshot[s] # NoSnapshot /\ snapshot[s].age <= MaxAge
Kept(s) == IF snapshot[s] = NoSnapshot THEN {} ELSE snapshot[s].list

\* A secondary reading that is trusted and kept: HMT as soon as there are
\* records, OpenSanctions when there are addresses.
Produced(s, got) == ~ Failed(got) /\ (s \in ByRecords \/ got # {})

Trusted(s, got) ==
  IF s = Primary THEN ~ Failed(got) /\ got # {}
  ELSE Produced(s, got) \/ (got = Down /\ Kept(s) # {} /\ Fresh(s))

\* The addresses a source brings into this run, read today or from a file.
Live(got) == IF Failed(got) THEN {} ELSE got

FromFile(s, got) ==
  IF s = Primary THEN StaticList \ Live(got)
  ELSE IF got = Down THEN Kept(s) ELSE {}

\* All sources are read, one after the other.
ReadSources(got) ==
  /\ healthy' = {s \in Source : Trusted(s, got[s])}
  /\ snapshot' = [s \in Secondary |-> IF Produced(s, got[s]) THEN [list |-> got[s], age |-> 0]
                                      ELSE snapshot[s]]
  /\ UNCHANGED listed

SnapshotsAge ==
  snapshot' = [s \in Secondary |->
                 IF snapshot[s] = NoSnapshot \/ snapshot[s].age > MaxAge THEN snapshot[s]
                 ELSE [snapshot[s] EXCEPT !.age = @ + 1]]
=============================================================================
