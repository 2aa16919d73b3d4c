--------------------------- MODULE SchemeRegister ---------------------------
(***************************************************************************)
(* internal/sepa and its users in cmd/iban-pizza: update downloads one     *)
(* export per payment scheme and writes them to a directory, serve loads   *)
(* the directory when it starts and answers membership questions from it.  *)
(* The two are processes of their own and know nothing of each other.      *)
(*                                                                         *)
(* An export is a function from the BICs it lists to "participant" or, if  *)
(* the row has a leaving date, "left".  The EPC publishes one edition of   *)
(* all exports after the other.                                            *)
(***************************************************************************)
EXTENDS Naturals, Sequences, FiniteSets, Functions

CONSTANTS
  Schemes,      \* the payment schemes
  AllSchemes,   \* the same in the order the code goes through them
  Bics,         \* the BICs asked for
  Editions,     \* a sequence, what the EPC publishes: an export per scheme
  Faults        \* what may go wrong in some behaviour: "download", "write", "overlap"

Listed == {"participant", "left"}
Exports == UNION {[B -> Listed] : B \in SUBSET Bics}

ASSUME SchemesAssumption == AllSchemes \in Seq(Schemes) /\ Schemes = {AllSchemes[i] : i \in DOMAIN AllSchemes}
ASSUME EditionsAssumption ==
  Editions # <<>> /\ Editions \in Seq([Schemes -> Exports \ {[b \in {} |-> b]}])
ASSUME FaultsAssumption == Faults \subseteq {"download", "write", "overlap"}

VARIABLES
  faults,       \* what may go wrong in this behaviour
  published,    \* the edition the EPC publishes
  files,        \* the directory, a partial function from schemes to exports
  step,         \* where update is: idle, fetch, save
  at,           \* the index of the scheme update fetches next
  got,          \* what update has downloaded and not yet written
  writing,      \* the scheme whose file update has truncated, or none
  loader,       \* where serve is: down, loading, up
  reading,      \* the index of the scheme serve loads next
  register,     \* bySchemeBIC, a partial function from schemes to exports
  known,        \* the BICs of which Lookup denies membership
\* What happened, for the properties only.
  torn,         \* the schemes whose file the last write left cut off
  dubious,      \* the schemes serve loaded while their file was cut off or written
  fetched,      \* the schemes this update has downloaded
  since         \* the edition the EPC published when this update started

update == <<step, at, got, writing, torn, fetched, since>>
serve == <<loader, reading, register, known, dubious>>
registerVars == <<faults, published, files, update, serve>>

Nothing == [x \in {} |-> x]
NoScheme == {}

RegisterInit ==
  /\ faults \in SUBSET Faults
  /\ published = 1
  /\ files = Nothing
  /\ step = "idle" /\ at = 1 /\ got = Nothing /\ writing = NoScheme
  /\ loader = "down" /\ reading = 1 /\ register = Nothing /\ known = {}
  /\ torn = {} /\ dubious = {} /\ fetched = {} /\ since = 1

Publish ==
  /\ published < Len(Editions)
  /\ published' = published + 1
  /\ UNCHANGED <<faults, files, update, serve>>

Put(f, x, v) == [y \in DOMAIN f \cup {x} |-> IF y = x THEN v ELSE f[y]]
Without(f, x) == Restrict(f, DOMAIN f \ {x})

-----------------------------------------------------------------------------
\* updateSchemes and SaveDir.
StopUpdate ==
  /\ step' = "idle" /\ at' = 1 /\ got' = Nothing /\ writing' = NoScheme
  /\ torn' = torn \cup writing
  /\ fetched' = {} /\ since' = 1

StartUpdate ==
  /\ step = "idle"
  /\ step' = "fetch"
  /\ since' = published
  /\ UNCHANGED <<faults, published, files, at, got, writing, torn, fetched, serve>>

Fetching == step = "fetch" /\ at <= Len(AllSchemes)

Fetch ==
  /\ Fetching
  /\ got' = Put(got, AllSchemes[at], Editions[published][AllSchemes[at]])
  /\ fetched' = fetched \cup {AllSchemes[at]}
  /\ at' = at + 1
  /\ UNCHANGED <<faults, published, files, step, writing, torn, since, serve>>

\* Faulty: stores an export that does not parse, cut short to nothing.
FetchUnparsed ==
  /\ Fetching
  /\ "download" \in faults
  /\ got' = Put(got, AllSchemes[at], Nothing)
  /\ fetched' = fetched \cup {AllSchemes[at]}
  /\ at' = at + 1
  /\ UNCHANGED <<faults, published, files, step, writing, torn, since, serve>>

\* The download fails, or what came does not parse.
FetchFails ==
  /\ Fetching
  /\ "download" \in faults
  /\ at' = at + 1
  /\ UNCHANGED <<faults, published, files, step, got, writing, torn, fetched, since, serve>>

\* With nothing to save, or asked for a dry run, update ends here.
Fetched ==
  /\ step = "fetch" /\ ~ Fetching
  /\ \/ StopUpdate
     \/ got # Nothing /\ step' = "save" /\ UNCHANGED <<at, got, writing, torn, fetched, since>>
  /\ UNCHANGED <<faults, published, files, serve>>

\* os.WriteFile truncates the file, then writes.  What a reader finds in between,
\* or after a crash or an error, is a part of the export, in which the last row
\* may have lost its leaving date.
Cut(x) ==
  {y \in UNION {[B -> Listed] : B \in SUBSET DOMAIN x} :
     \A b \in DOMAIN y :
       y[b] # x[b] => y[b] = "participant" /\ \A c \in DOMAIN y \ {b} : y[c] = x[c]}

Truncate ==
  /\ step = "save" /\ writing = NoScheme
  /\ "overlap" \in faults \/ loader # "loading"
  /\ \E s \in DOMAIN got :
       /\ writing' = {s}
       /\ \E part \in Cut(got[s]) : files' = Put(files, s, part)
  /\ UNCHANGED <<faults, published, step, at, got, torn, fetched, since, serve>>

\* Faulty: a write that failed counts as done.
WriteUnchecked ==
  /\ step = "save"
  /\ \E s \in writing :
       /\ \/ files' = Put(files, s, got[s]) /\ torn' = torn \ {s}
          \/ "write" \in faults /\ torn' = torn \cup {s} /\ UNCHANGED files
       /\ got' = Without(got, s)
       /\ writing' = NoScheme
  /\ UNCHANGED <<faults, published, step, at, fetched, since, serve>>

Written ==
  /\ step = "save"
  /\ \E s \in writing :
       /\ files' = Put(files, s, got[s]) /\ torn' = torn \ {s}
       /\ got' = Without(got, s)
       /\ writing' = NoScheme
  /\ UNCHANGED <<faults, published, step, at, fetched, since, serve>>

SavedAll ==
  /\ step = "save" /\ got = Nothing
  /\ StopUpdate
  /\ UNCHANGED <<faults, published, files, serve>>

\* The process is killed, or the disk is full.
Crash ==
  /\ "write" \in faults
  /\ step # "idle"
  /\ StopUpdate
  /\ UNCHANGED <<faults, published, files, serve>>

-----------------------------------------------------------------------------
\* LoadDir.  Unless they may overlap, serve does not load while update saves.
StartServe ==
  /\ loader = "down"
  /\ "overlap" \in faults \/ step # "save"
  /\ loader' = "loading"
  /\ UNCHANGED <<faults, published, files, update, reading, register, known, dubious>>

Loading == loader = "loading" /\ reading <= Len(AllSchemes)
Next1 == AllSchemes[reading]

\* What was loaded from a file that is not whole.
Doubt(s) == dubious' = dubious \cup ({s} \cap (writing \cup torn))

\* Faulty: known holds the BICs of one scheme.
AddAnew(s, export) ==
  /\ register' = Put(register, s, export)
  /\ known' = DOMAIN export

\* Add: the table of the scheme is replaced, the known BICs become more.
Add(s, export) ==
  /\ register' = Put(register, s, export)
  /\ known' = known \cup DOMAIN export

\* Faulty: two schemes share a file name.
LoadOther ==
  /\ Loading
  /\ \E s \in DOMAIN files : files[s] # Nothing /\ Add(Next1, files[s])
  /\ Doubt(Next1)
  /\ reading' = reading + 1
  /\ UNCHANGED <<faults, published, files, update, loader>>

LoadScheme ==
  /\ Loading
  /\ Next1 \in DOMAIN files /\ files[Next1] # Nothing
  /\ Add(Next1, files[Next1])
  /\ Doubt(Next1)
  /\ reading' = reading + 1
  /\ UNCHANGED <<faults, published, files, update, loader>>

SkipScheme ==
  /\ Loading
  /\ Next1 \notin DOMAIN files
  /\ reading' = reading + 1
  /\ UNCHANGED <<faults, published, files, update, loader, register, known, dubious>>

Down ==
  loader' = "down" /\ reading' = 1 /\ register' = Nothing /\ known' = {} /\ dubious' = {}

\* A file without a participant does not parse, and any file may be unreadable
\* for a reason other than that it does not exist.
LoadFails ==
  /\ Loading
  /\ Down
  /\ UNCHANGED <<faults, published, files, update>>

\* A directory without a file is an error.
LoadedAll ==
  /\ loader = "loading" /\ ~ Loading
  /\ IF register = Nothing THEN Down
     ELSE loader' = "up" /\ UNCHANGED <<reading, register, known, dubious>>
  /\ UNCHANGED <<faults, published, files, update>>

Stop ==
  /\ loader = "up"
  /\ Down
  /\ UNCHANGED <<faults, published, files, update>>

Lookup(s, b) ==
  IF s \in DOMAIN register /\ b \in DOMAIN register[s] THEN register[s][b]
  ELSE IF b \in known THEN "not_participant" ELSE "unknown"

RegisterNext ==
  \/ Publish
  \/ StartUpdate \/ Fetch \/ FetchFails \/ Fetched \/ Truncate \/ Written \/ SavedAll \/ Crash
  \/ StartServe \/ LoadScheme \/ SkipScheme \/ LoadFails \/ LoadedAll \/ Stop

RegisterSpec == RegisterInit /\ [][RegisterNext]_registerVars

-----------------------------------------------------------------------------
Partial(f) == DOMAIN f \subseteq Schemes /\ \A s \in DOMAIN f : f[s] \in Exports
Filled(f) == Partial(f) /\ \A s \in DOMAIN f : f[s] # Nothing

RegisterTypeOK ==
  /\ faults \subseteq Faults
  /\ published \in DOMAIN Editions
  /\ Partial(files) /\ Filled(got) /\ Filled(register)
  /\ step \in {"idle", "fetch", "save"}
  /\ loader \in {"down", "loading", "up"}
  /\ at \in 1 .. Len(AllSchemes) + 1 /\ reading \in 1 .. Len(AllSchemes) + 1
  /\ known \subseteq Bics
  /\ torn \subseteq DOMAIN files /\ dubious \subseteq DOMAIN register
  /\ since \in 1 .. published
  /\ writing \subseteq DOMAIN got /\ DOMAIN got \subseteq fetched /\ fetched \subseteq Schemes
  /\ step = "idle" => got = Nothing
  /\ loader = "down" => register = Nothing /\ known = {}

Status(e, s, b) ==
  IF b \in DOMAIN Editions[e][s] THEN Editions[e][s][b] ELSE "not_participant"

\* Once every scheme has data, each status the server gives was published: who is
\* called a participant was one, and "a reliable negative" is one (sepa.go:57),
\* although files can be of different editions and updates may crash, overlap with
\* the load and be run again; except of a scheme whose file was cut off or being
\* written at the moment it was loaded.
Reliable ==
  loader = "up" /\ DOMAIN register = Schemes =>
    \A s \in Schemes \ dubious, b \in Bics :
      Lookup(s, b) # "unknown" => \E e \in 1 .. published : Lookup(s, b) = Status(e, s, b)

\* Each denial has its reason in what was published.  "not_participant" for one
\* scheme: a scheme that was loaded listed the BIC ("appears in the register for
\* other schemes", sepa.go:61), also if its file is only a part of an export.
\* "unknown": each whole file that was loaded is of an edition without the BIC
\* ("in no register at all", sepa.go:67), however many schemes were added after it.
NegativesEarned ==
  loader = "up" =>
    \A s \in Schemes, b \in Bics :
      /\ Lookup(s, b) = "not_participant" =>
           \E t \in DOMAIN register, e \in 1 .. published : b \in DOMAIN Editions[e][t]
      /\ Lookup(s, b) = "unknown" =>
           \A t \in DOMAIN register \ dubious :
             \E e \in 1 .. published : b \notin DOMAIN Editions[e][t]

\* A file is a published export unless a write of it was cut off and none has
\* succeeded since: a download that fails or does not parse leaves the old file,
\* and a crash damages no file but the one being written (update.go:131, "Parse
\* before storing").
FilesStayLoadable ==
  \A s \in DOMAIN files \ (writing \cup torn) :
    \E e \in 1 .. published : files[s] = Editions[e][s]

\* An update repairs what an earlier one left cut off: what it has downloaded and
\* need no longer write is on disk whole, in an edition published since it started,
\* whatever crashed before.
UpdateRefreshes ==
  step = "save" =>
    \A s \in fetched \ DOMAIN got :
      s \in DOMAIN files /\ \E e \in since .. published : files[s] = Editions[e][s]

\* "A scheme that is absent reports unknown rather than a false negative"
\* (load.go:62).
AbsentIsUnknown ==
  loader = "up" =>
    \A s \in Schemes \ DOMAIN register, b \in Bics : Lookup(s, b) = "unknown"
=============================================================================
