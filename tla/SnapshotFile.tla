---------------------------- MODULE SnapshotFile ----------------------------
(***************************************************************************)
(* bankdata/snapshot.go: what a repository holds as a value, the snapshot  *)
(* file it is written to and read from, and the parcels CopySources makes  *)
(* of it.  A file holds a whole snapshot, or something ReadSnapshot gives  *)
(* up on (no gzip, cut short, another version, no permission), or is not   *)
(* there.                                                                  *)
(***************************************************************************)
EXTENDS BankData

Absent == [kind |-> "absent"]
Unreadable == [kind |-> "unreadable"]
Snapshot(bank, sources) == [kind |-> "snapshot", bank |-> bank, sources |-> sources]

Held(bank, sources) == [bank |-> bank, sources |-> sources]
NothingHeld == Held(Empty, Empty)

\* ReadSnapshot and LoadSnapshotFile succeed, and what they load.
Loads(content) == content.kind = "snapshot"
Loaded(content) == Held(content.bank, content.sources)

\* The records WriteSnapshot gets from a repository that is no MemoryStore: one
\* search over all countries, which is limited.
Searched(bank) == Restrict(bank, FirstKeys(DOMAIN bank, MaxLimit))

-----------------------------------------------------------------------------
\* A parcel is what one call of Replace is given: the source, its country and
\* edition, the records, and whether a key is among them twice.
PartOf(held, name) == Restrict(held.bank, Owned(held.bank, name))

Parcel(batch) ==
  [name |-> batch.name, country |-> batch.country, edition |-> batch.edition,
   part |-> Overlay(Empty, batch, 1), repeats |-> Repeats(batch)]

\* The parcel CopySources makes of one source.
ParcelOf(held, name) ==
  [name |-> name, country |-> held.sources[name].country,
   edition |-> held.sources[name].edition,
   part |-> PartOf(held, name), repeats |-> FALSE]

\* CopySources goes through the sources by country.
FirstOf(held, names) ==
  {n \in names : \A o \in names : held.sources[n].country <= held.sources[o].country}

\* Faulty: the records of the source are not cleared first.
ReplacedOver(held, p) ==
  LET bank == [k \in DOMAIN held.bank \cup DOMAIN p.part |->
                 IF k \in DOMAIN p.part THEN p.part[k] ELSE held.bank[k]]
  IN Held(bank, Assign(held.sources, p.name,
            [country |-> p.country, edition |-> p.edition,
             count |-> Cardinality(Owned(bank, p.name))]))

\* Replace, on either backend, as BankStore has it.
Replaced(held, p) ==
  LET kept == Clear(held.bank, p.name)
      bank == [k \in DOMAIN kept \cup DOMAIN p.part |->
                 IF k \in DOMAIN p.part THEN p.part[k] ELSE kept[k]]
  IN Held(bank, Assign(held.sources, p.name,
            [country |-> p.country, edition |-> p.edition,
             count |-> Cardinality(Owned(bank, p.name))]))

-----------------------------------------------------------------------------
Consistent(held) ==
  /\ Catalogued(held.bank, held.sources)
  /\ OneEditionEach(held.bank, held.sources)
  /\ Counted(held.bank, held.sources)

IsHeld(h) == IsTable(h.bank) /\ IsCatalogue(h.sources)
IsFile(f) == f \in {Absent, Unreadable} \/ (f = Snapshot(f.bank, f.sources) /\ IsHeld(f))

\* "A source with metadata but no records is a broken snapshot" (snapshot.go:207).
NoSourceEmpty(held) == \A n \in DOMAIN held.sources : Owned(held.bank, n) # {}
=============================================================================
