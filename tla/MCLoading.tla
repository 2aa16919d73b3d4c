----------------------------- MODULE MCLoading ------------------------------
(***************************************************************************)
(* A small instance of Loading: two registries of a country each, one of   *)
(* them with a second edition and a country that is only imported.         *)
(***************************************************************************)
EXTENDS Loading

CONSTANTS B1

MCKeys == {<<1, 1>>, <<1, 2>>, <<2, 1>>, <<3, 1>>}
MCNames == {"at", "de", "generic"}

Bank(k) == [key |-> k, bic |-> B1]
Batch(n, c, e, s) == [name |-> n, country |-> c, edition |-> e, banks |-> s]

At1 == Batch("at", 1, 1, <<Bank(<<1, 1>>), Bank(<<1, 2>>)>>)
At2 == Batch("at", 1, 2, <<Bank(<<1, 2>>)>>)
De1 == Batch("de", 2, 1, <<Bank(<<2, 1>>)>>)
NoDe == Batch("de", 2, 2, <<>>)
Repeated == Batch("generic", 3, 3, <<Bank(<<3, 1>>), Bank(<<3, 1>>)>>)
TakesDe == Batch("generic", 2, 4, <<Bank(<<2, 1>>)>>)
EmptyDe == Batch("de", 2, 5, <<>>)

MCBatches == {At1, At2, De1, NoDe, Repeated, TakesDe, EmptyDe}
MCEditions == <<[at |-> At1, de |-> De1], [at |-> At2, de |-> NoDe]>>

Both == Replaced(Replaced(NothingHeld, Parcel(At1)), Parcel(De1))
OnlyAt == Replaced(NothingHeld, Parcel(At1))
MCEmbedded == Snapshot(OnlyAt.bank, OnlyAt.sources)
MCFirstFiles == {Absent, Unreadable, Snapshot(Both.bank, Both.sources)}
MCFirstData == {NothingHeld, Both}

Do(op, store, names, batch, origin, save, dry) ==
  [op |-> op, store |-> store, names |-> names, batch |-> batch, from |-> origin,
   save |-> save, dry |-> dry]
Update(store, names, save, dry) == Do("update", store, names, NoBatch, "file", save, dry)
Import(store, batch, save) == Do("import", store, {}, batch, "file", save, FALSE)
Copy(store, origin, save) == Do("copy", store, {}, NoBatch, origin, save, FALSE)
Dry(j) == [j EXCEPT !.dry = TRUE]
Shot(store) == Do("snapshot", store, {}, NoBatch, "file", FALSE, FALSE)

MCOddJobs == {Import("file", TakesDe, TRUE), Import("database", EmptyDe, FALSE)}
MCJobs == MCOddJobs \cup
  { Update("file", {"at", "de"}, TRUE, FALSE), Update("database", {"at"}, FALSE, FALSE),
    Update("embedded", {"de"}, TRUE, FALSE), Update("database", {"at"}, TRUE, TRUE),
    Import("file", Repeated, TRUE), Import("database", Repeated, TRUE),
    Copy("database", "file", FALSE), Copy("database", "embedded", FALSE),
    Dry(Import("database", Repeated, TRUE)), Dry(Copy("database", "file", FALSE)),
    Shot("database"), Shot("embedded") }

\* The example of docs/deployment.md: -write-snapshot without -data-file.
OneCountryJobs == {Import("embedded", De1, TRUE), Import("embedded", Repeated, TRUE)}
=============================================================================
