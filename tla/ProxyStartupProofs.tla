------------------------- MODULE ProxyStartupProofs -------------------------
(***************************************************************************)
(* Safety of the account on disk, for every set of command lines, across   *)
(* kills, full disks and lost answers of the registration API.             *)
(*                                                                         *)
(* The files are safe because every save writes one of seven lists, in an  *)
(* order that leaves the account readable or unreadable but never wrong;   *)
(* the account is safe because an identity reaches a list only after the   *)
(* API has confirmed it.                                                   *)
(***************************************************************************)
EXTENDS ProxyStartup, SequenceTheorems, TLAPS

Files == {"json", "yaml", "key", "wg"}
Paths == {"json", "yaml"}

Places ==
    {"down", "migrate", "save", "rename", "load", "mode", "wgAccount", "wgTerms", "wgRegister",
     "wgRebind", "wgName", "decide", "register", "rebind", "enroll", "sni", "reset", "overrides",
     "serving"}

Records == [kind : {"none", "plain", "team"}, license : {"own", "warp"}, enrolled : BOOLEAN]

Processes ==
    [pc : Places, cmd : CommandLine \cup {Down.cmd}, path : Paths, loaded : BOOLEAN,
     set : Settings, id : Identity, took : BOOLEAN, mode : {"free", "premium", "team"},
     dev : Devices \cup {NoDevice}, writes : Seq([file : Files, content : File]),
     half : BOOLEAN, after : Places, strict : BOOLEAN, warned : BOOLEAN]

RunOK    == run \in Processes
DiskOK   == disk \in [Files -> File]
RemoteOK == remote \in [Devices -> Records]

-----------------------------------------------------------------------------
(* What the saves write *)

Pub == [file |-> run.path, content |-> PublicFile(run.set)]
Key == [file |-> "key", content |-> KeyFile(run.id)]

\* SaveConfig, before and after the public config is written.
Both    == run.writes = <<Pub, Key>> /\ run.loaded
KeyLeft == run.writes = <<Key>> /\ run.loaded /\ disk[run.path] = PublicFile(run.set)
\* LoadConfig splits a legacy config, before and after the key file is written.
Split   == /\ run.writes = <<Key, Pub>> /\ run.loaded /\ run.strict
           /\ disk[run.path].id = run.id /\ run.id.dev \in Devices
PubLeft == run.writes = <<Pub>> /\ run.loaded /\ run.strict /\ disk.key = KeyFile(run.id)
\* SavePublicConfig, the WG account and the migration of config.json.
WGPub   == run.writes = <<Pub>> /\ ~run.strict
WGSave  == run.writes = << [file |-> "wg", content |-> WGAccount(run.dev)] >> /\ run.strict
Migrate == run.writes = << [file |-> "yaml", content |-> disk.json] >> /\ run.strict

ShapeInv ==
    /\ run.pc # "save" => run.writes = <<>> /\ ~run.half
    /\ run.pc = "save" =>
         \/ run.after \in {"sni", "reset", "overrides", "serving"} /\ (Both \/ KeyLeft)
         \/ run.after = "mode" /\ (Split \/ PubLeft)
         \/ run.after = "wgAccount" /\ WGPub
         \/ run.after = "wgName" /\ WGSave
         \/ run.after = "rename" /\ Migrate
    /\ run.pc = "save" /\ run.after = "sni" => run.strict

-----------------------------------------------------------------------------
(* Identities *)

\* A file that is not whole holds nothing; an identity is empty or has a device.
OwnedInv ==
    /\ \A f \in Files : disk[f].st # "whole" => disk[f].id = NoIdentity
    /\ \A f \in Files : disk[f].id = NoIdentity \/ disk[f].id.dev \in Devices
    /\ run.id = NoIdentity \/ run.id.dev \in Devices
    /\ disk.key.st = "whole" => disk.key.id.dev \in Devices

\* Where the process is when it has an identity, and when it cannot have one.
StageInv ==
    /\ Place \in {"sni", "reset", "overrides"} \/ (run.pc = "save" /\ run.after = "serving")
         => run.loaded /\ run.id.dev \in Devices
    /\ Place \in {"migrate", "rename", "load"} => ~run.loaded
    /\ Place \in {"migrate", "rename", "load", "mode", "decide", "register"} => ~run.warned
    /\ ~run.loaded => run.id = NoIdentity
    /\ run.pc \in {"mode", "decide", "register"} /\ ~run.loaded => disk[run.path].st = "absent"
    /\ run.pc \in {"wgTerms", "wgRegister"} => disk.wg.st # "whole"
    /\ run.pc = "down" => run.id = NoIdentity /\ ~run.loaded /\ ~run.warned

\* Until a registration, key.json or the lack of one is what was loaded.
LoadedInv ==
    run.pc \in {"mode", "decide", "register"} /\ run.loaded =>
        \/ disk.key.st = "whole" /\ disk.key.id = run.id
        \/ disk.key.st = "absent" /\ run.id = NoIdentity /\ disk[run.path].id = NoIdentity

\* A registration goes on only for an account that may be replaced.
RegisterInv ==
    run.pc = "register" /\ run.loaded =>
        ~Paid(run.id) /\ (run.id # NoIdentity => UpgradeAsked)

\* The account on disk while the process works with one, outside the save that
\* brings a new account.
KeyInv ==
    run.loaded /\ run.pc # "down" /\ ~(run.pc = "save" /\ run.after = "sni") =>
        /\ disk[run.path].st # "absent"
        /\ disk[run.path].st = "cut" => run.warned
        /\ \/ disk.key.st = "whole" /\ disk.key.id.dev = run.id.dev
           \/ disk.key.st = "absent" /\ run.id = NoIdentity /\ disk[run.path].id = NoIdentity
           \/ disk.key.st = "absent" /\ run.pc = "save" /\ run.after = "mode" /\ Split
           \/ /\ disk.key.st \in {"empty", "cut"}
              /\ run.warned \/ (run.half /\ Head(run.writes).file = "key")

\* The settings on disk.
SetInv ==
    run.loaded /\ run.pc # "down" /\ ~run.warned =>
        \/ disk[run.path].set = run.set
        \/ run.pc = "save" /\ (Both \/ Split \/ PubLeft \/ WGPub)

-----------------------------------------------------------------------------
(* The registration API *)

\* An identity that the API knows.
Real(id) ==
    id.dev # NoDevice =>
        /\ remote[id.dev].enrolled
        /\ id.mode = "premium" => remote[id.dev].license = "warp"
        /\ id.license = "warp" => remote[id.dev].license = "warp"
        /\ id.mode = "team" => remote[id.dev].kind = "team"

RealInv ==
    /\ \A f \in Files : Real(disk[f].id)
    /\ Real(run.id)
    /\ \A d \in Devices : remote[d].kind = "none" => ~remote[d].enrolled
    /\ Place \in {"wgRebind", "wgName"} => run.dev \in Devices /\ remote[run.dev].enrolled
    /\ run.pc \in {"rebind", "enroll"} =>
         /\ run.dev \in Devices /\ remote[run.dev].kind # "none"
         /\ run.mode = "team" => remote[run.dev].kind = "team"
         /\ run.pc = "enroll" /\ run.mode = "premium" => remote[run.dev].license = "warp"

TypesInv == RunOK /\ DiskOK /\ RemoteOK
IInv == /\ TypesInv /\ ShapeInv
        /\ OwnedInv /\ StageInv /\ LoadedInv /\ RegisterInv /\ KeyInv /\ SetInv /\ RealInv

-----------------------------------------------------------------------------
(* The records that the steps build *)

\* The process q has the account and the settings of r.
KeepsAccount(q, r) ==
    /\ q.path = r.path /\ q.loaded = r.loaded /\ q.set = r.set /\ q.id = r.id
    /\ q.warned = r.warned

\* The process q is r but for its place and its save.
Keeps(q, r) ==
    /\ KeepsAccount(q, r) /\ q.half = r.half /\ q.dev = r.dev
    /\ q.cmd = r.cmd /\ q.mode = r.mode /\ q.took = r.took

\* What is written to a file is a file.
LEMMA FileTypes ==
  /\ DefaultSettings \in Settings /\ NoIdentity \in Identity
  /\ \A st \in {"absent", "whole", "empty", "cut"} : Broken(st) \in File
  /\ \A set \in Settings : PublicFile(set) \in File
  /\ \A id \in Identity : KeyFile(id) \in File
  /\ \A d \in Devices \cup {NoDevice} : WGAccount(d) \in File
<1>1. DefaultSettings \in Settings /\ NoIdentity \in Identity
  BY DEF DefaultSettings, Settings, NoIdentity, Identity
<1>2. \A d \in Devices \cup {NoDevice} : [NoIdentity EXCEPT !.dev = d] \in Identity
  BY DEF NoIdentity, Identity
<1> QED BY <1>1, <1>2 DEF File, Broken, PublicFile, KeyFile, WGAccount

\* What the parts of the files are.
LEMMA FileFacts ==
  /\ \A st : Broken(st).st = st /\ Broken(st).set = DefaultSettings /\ Broken(st).id = NoIdentity
  /\ \A set : /\ PublicFile(set).st = "whole" /\ PublicFile(set).set = set
              /\ PublicFile(set).id = NoIdentity
  /\ \A id : KeyFile(id).st = "whole" /\ KeyFile(id).id = id
  /\ NoIdentity.dev = NoDevice /\ NoIdentity.mode = "" /\ NoIdentity.license = "own"
  /\ \A d : /\ WGAccount(d).st = "whole" /\ WGAccount(d).id.dev = d /\ WGAccount(d).id.mode = ""
            /\ WGAccount(d).id.license = "own"
  BY DEF Broken, PublicFile, KeyFile, NoIdentity, WGAccount

\* A process that is down holds neither account nor save.
LEMMA DownFacts ==
  /\ Down \in Processes
  /\ Down.pc = "down" /\ ~Down.loaded /\ Down.id = NoIdentity /\ Down.writes = <<>>
  /\ ~Down.half /\ ~Down.warned /\ Down.after = "down"
<1>1. Down \in Processes
  BY FileTypes DEF Down, Processes, Places, Paths
<1> QED BY <1>1 DEF Down

\* The proxy serves: the account and the settings stay.
LEMMA ServingFacts ==
  ASSUME NEW r \in Processes, NEW q, q = Serving(r)
  PROVE  /\ q \in Processes /\ q.pc = "serving" /\ q.writes = <<>> /\ ~q.half
         /\ KeepsAccount(q, r)
<1>1. r.path \in Paths /\ r.set \in Settings /\ r.id \in Identity
  BY DEF Processes
<1>2. r.loaded \in BOOLEAN /\ r.warned \in BOOLEAN
  BY DEF Processes
<1>3. q \in Processes
  BY <1>1, <1>2, DownFacts DEF Processes, Serving, Places
<1>4. q.pc = "serving" /\ q.path = r.path /\ q.set = r.set /\ q.id = r.id
  BY DownFacts DEF Processes, Serving
<1>5. q.loaded = r.loaded /\ q.warned = r.warned
  BY DownFacts DEF Processes, Serving
<1>6. q.writes = <<>> /\ q.half = FALSE
  BY DEF Serving, Down
<1> QED BY <1>3, <1>4, <1>5, <1>6 DEF KeepsAccount

\* SaveConfig sets out to write the public config and then key.json.
LEMMA SaveConfigFacts ==
  ASSUME NEW r \in Processes, NEW after \in Places, NEW strict \in BOOLEAN,
         NEW q, q = SaveConfig(r, after, strict)
  PROVE  /\ q \in Processes
         /\ q.pc = "save" /\ q.after = after /\ (strict => q.strict)
         /\ q.writes = << [file |-> r.path, content |-> PublicFile(r.set)],
                          [file |-> "key", content |-> KeyFile(r.id)] >>
         /\ Keeps(q, r)
<1> DEFINE w == << [file |-> r.path, content |-> PublicFile(r.set)],
                   [file |-> "key", content |-> KeyFile(r.id)] >>
<1>1. r.path \in Paths /\ r.set \in Settings /\ r.id \in Identity
  BY DEF Processes
<1>2. /\ [file |-> r.path, content |-> PublicFile(r.set)] \in [file : Files, content : File]
      /\ [file |-> "key", content |-> KeyFile(r.id)] \in [file : Files, content : File]
  BY <1>1, FileTypes DEF Files, Paths
<1>3. w \in Seq([file : Files, content : File])
  BY <1>2
<1>4. SaveConfig(r, after, strict) = Saving(r, w, after, strict)
  BY DEF SaveConfig
<1> HIDE DEF w
<1>5. q = [r EXCEPT !.pc = "save", !.writes = w, !.after = after, !.strict = strict]
  BY <1>3, <1>4 DEF Saving
<1>fields. /\ q.writes = w /\ q.path = r.path /\ q.set = r.set /\ q.id = r.id
          /\ q.pc = "save" /\ q.after = after /\ q.dev = r.dev /\ q.cmd = r.cmd
  BY <1>5 DEF Processes
<1>strict. q.strict = strict
  BY <1>5 DEF Processes
<1>loaded. q.loaded = r.loaded
  BY <1>5 DEF Processes
<1>half. q.half = r.half
  BY <1>5 DEF Processes
<1>warned. q.warned = r.warned
  BY <1>5 DEF Processes
<1>took. q.took = r.took /\ q.mode = r.mode
  BY <1>5 DEF Processes
<1>keeps. Keeps(q, r)
  BY <1>fields, <1>loaded, <1>half, <1>warned, <1>took DEF Keeps, KeepsAccount
<1>save. "save" \in Places
  BY DEF Places
<1>type. q \in Processes
  BY <1>3, <1>5, <1>save DEF Processes
<1> QED BY <1>fields, <1>strict, <1>keeps, <1>type DEF w

\* SavePublicConfig sets out to write the public config alone.
LEMMA SavePublicFacts ==
  ASSUME NEW r \in Processes, NEW after \in Places,
         NEW q, q = SavePublicConfig(r, after)
  PROVE  /\ q \in Processes
         /\ q.pc = "save" /\ q.after = after /\ ~q.strict
         /\ q.writes = << [file |-> r.path, content |-> PublicFile(r.set)] >>
         /\ Keeps(q, r)
<1> DEFINE w == << [file |-> r.path, content |-> PublicFile(r.set)] >>
<1>1. r.path \in Paths /\ r.set \in Settings
  BY DEF Processes
<1>2. [file |-> r.path, content |-> PublicFile(r.set)] \in [file : Files, content : File]
  BY <1>1, FileTypes DEF Files, Paths
<1>3. w \in Seq([file : Files, content : File])
  BY <1>2
<1>4. SavePublicConfig(r, after) = Saving(r, w, after, FALSE)
  BY DEF SavePublicConfig
<1> HIDE DEF w
<1>5. q = [r EXCEPT !.pc = "save", !.writes = w, !.after = after, !.strict = FALSE]
  BY <1>3, <1>4 DEF Saving
<1>fields. /\ q.writes = w /\ q.path = r.path /\ q.set = r.set /\ q.id = r.id
          /\ q.pc = "save" /\ q.after = after /\ q.dev = r.dev /\ q.cmd = r.cmd
  BY <1>5 DEF Processes
<1>strict. q.strict = FALSE
  BY <1>5 DEF Processes
<1>loaded. q.loaded = r.loaded
  BY <1>5 DEF Processes
<1>half. q.half = r.half
  BY <1>5 DEF Processes
<1>warned. q.warned = r.warned
  BY <1>5 DEF Processes
<1>took. q.took = r.took /\ q.mode = r.mode
  BY <1>5 DEF Processes
<1>keeps. Keeps(q, r)
  BY <1>fields, <1>loaded, <1>half, <1>warned, <1>took DEF Keeps, KeepsAccount
<1>save. "save" \in Places
  BY DEF Places
<1>type. q \in Processes
  BY <1>3, <1>5, <1>save DEF Processes
<1> QED BY <1>fields, <1>strict, <1>keeps, <1>type DEF w

\* SaveWGAccount sets out to write wg-account.json alone.
LEMMA SaveWGFacts ==
  ASSUME NEW r \in Processes, NEW q, q = SaveWGAccount(r)
  PROVE  /\ q \in Processes
         /\ q.pc = "save" /\ q.after = "wgName" /\ q.strict
         /\ q.writes = << [file |-> "wg", content |-> WGAccount(r.dev)] >>
         /\ Keeps(q, r)
<1> DEFINE w == << [file |-> "wg", content |-> WGAccount(r.dev)] >>
<1>1. [file |-> "wg", content |-> WGAccount(r.dev)] \in [file : Files, content : File]
  BY FileTypes DEF Files, Processes
<1>2. w \in Seq([file : Files, content : File])
  BY <1>1
<1>3. SaveWGAccount(r) = Saving(r, w, "wgName", TRUE) /\ "wgName" \in Places
  BY DEF SaveWGAccount, Places
<1> HIDE DEF w
<1>4. q = [r EXCEPT !.pc = "save", !.writes = w, !.after = "wgName", !.strict = TRUE]
  BY <1>2, <1>3 DEF Saving
<1>fields. /\ q.writes = w /\ q.path = r.path /\ q.set = r.set /\ q.id = r.id
          /\ q.pc = "save" /\ q.after = "wgName" /\ q.dev = r.dev /\ q.cmd = r.cmd
  BY <1>4 DEF Processes
<1>strict. q.strict = TRUE
  BY <1>4 DEF Processes
<1>loaded. q.loaded = r.loaded
  BY <1>4 DEF Processes
<1>half. q.half = r.half
  BY <1>4 DEF Processes
<1>warned. q.warned = r.warned
  BY <1>4 DEF Processes
<1>took. q.took = r.took /\ q.mode = r.mode
  BY <1>4 DEF Processes
<1>keeps. Keeps(q, r)
  BY <1>fields, <1>loaded, <1>half, <1>warned, <1>took DEF Keeps, KeepsAccount
<1>type. q \in Processes
  BY ZenonT(60), <1>2, <1>4 DEF Processes, Places
<1> QED BY <1>fields, <1>strict, <1>keeps, <1>type DEF w

\* Where a process goes on when its save is over.
LEMMA ResumeFacts ==
  ASSUME NEW r \in Processes, NEW q, q = Resume(r)
  PROVE  /\ q \in Processes /\ q.pc = r.after /\ KeepsAccount(q, r)
         /\ r.after # "serving" => q.writes = r.writes /\ Keeps(q, r)
         /\ r.after = "serving" => q.writes = <<>> /\ ~q.half
<1>1. CASE r.after = "serving"
  BY <1>1, ServingFacts DEF Resume
<1>2. CASE r.after # "serving"
  <2>1. r.after \in Places /\ q = [r EXCEPT !.pc = r.after, !.after = "down", !.strict = FALSE]
    BY <1>2 DEF Resume, Processes
  <2>2. q \in Processes
    BY ZenonT(60), <2>1 DEF Processes, Places
  <2>3. q.pc = r.after /\ q.path = r.path /\ q.set = r.set /\ q.id = r.id
    BY <2>1 DEF Processes
  <2>4. q.loaded = r.loaded /\ q.warned = r.warned /\ q.half = r.half /\ q.took = r.took
    BY <2>1 DEF Processes
  <2>5. q.writes = r.writes /\ q.dev = r.dev /\ q.mode = r.mode /\ q.cmd = r.cmd
    BY <2>1 DEF Processes
  <2>6. KeepsAccount(q, r)
    BY <2>3, <2>4 DEF KeepsAccount
  <2>7. Keeps(q, r)
    BY <2>4, <2>5, <2>6 DEF Keeps
  <2> QED BY <1>2, <2>2, <2>3, <2>5, <2>6, <2>7
<1> QED BY <1>1, <1>2

\* A step that only moves the process to another place.
LEMMA MoveFacts ==
  ASSUME NEW r \in Processes, NEW p \in Places, NEW q, q = [r EXCEPT !.pc = p]
  PROVE  q \in Processes /\ q.pc = p /\ q.writes = r.writes /\ Keeps(q, r)
<1>1. q \in Processes
  BY DEF Processes
<1>2. q.pc = p /\ q.writes = r.writes
  BY DEF Processes
<1>3. q.path = r.path /\ q.set = r.set /\ q.id = r.id /\ q.dev = r.dev /\ q.cmd = r.cmd
  BY DEF Processes
<1>4. q.loaded = r.loaded
  BY DEF Processes
<1>5. q.half = r.half
  BY DEF Processes
<1>6. q.warned = r.warned
  BY DEF Processes
<1>7. q.took = r.took /\ q.mode = r.mode
  BY DEF Processes
<1> QED BY <1>1, <1>2, <1>3, <1>4, <1>5, <1>6, <1>7 DEF Keeps, KeepsAccount

-----------------------------------------------------------------------------
(* What the API knows never shrinks *)

RemoteGrows ==
    \A d \in Devices :
        /\ remote[d].enrolled =>
             /\ remote'[d].enrolled
             /\ remote[d].license = "warp" => remote'[d].license = "warp"
             /\ remote[d].kind = "team" => remote'[d].kind = "team"
        /\ remote'[d].kind = "none" => ~remote'[d].enrolled

\* Real, of the API's next state.
RealNext(id) ==
    id.dev # NoDevice =>
        /\ remote'[id.dev].enrolled
        /\ id.mode = "premium" => remote'[id.dev].license = "warp"
        /\ id.license = "warp" => remote'[id.dev].license = "warp"
        /\ id.mode = "team" => remote'[id.dev].kind = "team"

\* A request to another component, or none, leaves the API's records alone.
LEMMA SameRemote ==
  ASSUME IInv, remote' = remote
  PROVE  RemoteOK' /\ RemoteGrows
  BY DEF IInv, TypesInv, RemoteOK, RealInv, RemoteGrows

\* An identity the API knows stays known.
LEMMA RealGrows ==
  ASSUME NEW id, id.dev \in Devices \cup {NoDevice}, RemoteGrows, Real(id)
  PROVE  RealNext(id)
  BY DEF Real, RealNext, RemoteGrows

\* The identities of the files.
LEMMA IdTypes ==
  ASSUME TypesInv
  PROVE  /\ \A f \in Files : disk[f] \in File /\ disk[f].id \in Identity
                             /\ disk[f].id.dev \in Devices \cup {NoDevice}
         /\ run.id \in Identity /\ run.id.dev \in Devices \cup {NoDevice}
  BY DEF TypesInv, DiskOK, RunOK, Processes, File, Identity

\* What may be written: nothing, settings, or an identity the API knows.
GoodFile(x) ==
    /\ x.st # "whole" => x.id = NoIdentity
    /\ x.id = NoIdentity \/ x.id.dev \in Devices
    /\ RealNext(x.id)

\* A truncated file, a public config and a key file of a confirmed identity are all good.
LEMMA GoodFiles ==
  /\ \A st : st # "whole" => GoodFile(Broken(st))
  /\ \A set : GoodFile(PublicFile(set))
  /\ \A id : id.dev \in Devices /\ RealNext(id) => GoodFile(KeyFile(id))
  BY FileFacts DEF GoodFile, RealNext

\* A step that writes only such files.
LEMMA FilesStep ==
  ASSUME IInv, RemoteGrows, \A f \in Files : disk'[f] = disk[f] \/ GoodFile(disk'[f])
  PROVE  /\ \A f \in Files : disk'[f].st # "whole" => disk'[f].id = NoIdentity
         /\ \A f \in Files : disk'[f].id = NoIdentity \/ disk'[f].id.dev \in Devices
         /\ \A f \in Files : Real(disk[f].id)'
<1> SUFFICES ASSUME NEW f \in Files
             PROVE  /\ disk'[f].st # "whole" => disk'[f].id = NoIdentity
                    /\ disk'[f].id = NoIdentity \/ disk'[f].id.dev \in Devices
                    /\ RealNext(disk'[f].id)
  BY DEF Real, RealNext
<1>1. CASE disk'[f] = disk[f]
  <2>1. RealNext(disk[f].id)
    BY IdTypes, RealGrows DEF IInv, RealInv
  <2> QED BY <1>1, <2>1 DEF IInv, OwnedInv
<1>2. CASE GoodFile(disk'[f])
  BY <1>2 DEF GoodFile
<1> QED BY <1>1, <1>2

\* A process that has loaded nothing, whatever it leaves in the files.
LEMMA FreshStep ==
  ASSUME IInv, DiskOK', \A f \in Files : disk'[f] = disk[f] \/ GoodFile(disk'[f]),
         disk'.key.st = "whole" => disk'.key.id.dev \in Devices,
         RemoteOK', RemoteGrows, run' \in Processes,
         run'.pc \in {"down", "migrate"}, run'.id = NoIdentity, run'.writes = <<>>,
         ~run'.loaded, ~run'.half, ~run'.warned
  PROVE  IInv'
<1>files. /\ \A f \in Files : disk'[f].st # "whole" => disk'[f].id = NoIdentity
          /\ \A f \in Files : disk'[f].id = NoIdentity \/ disk'[f].id.dev \in Devices
          /\ \A f \in Files : Real(disk[f].id)'
  BY FilesStep
<1>types. TypesInv'
  BY DEF TypesInv, RunOK
<1>place. Place' = run'.pc
  BY DEF Place
<1>shape. ShapeInv'
  BY DEF ShapeInv
<1>owned. OwnedInv'
  BY <1>files DEF OwnedInv
<1>stage. StageInv'
  BY <1>place DEF StageInv
<1>loaded. LoadedInv' /\ RegisterInv' /\ KeyInv' /\ SetInv'
  BY DEF LoadedInv, RegisterInv, KeyInv, SetInv
<1>real. RealInv'
  <2>1. Real(run.id)'
    BY FileFacts DEF Real
  <2> QED BY <1>place, <1>files, <2>1 DEF RealInv, RemoteGrows
<1> QED BY <1>types, <1>shape, <1>owned, <1>stage, <1>loaded, <1>real DEF IInv

\* The process ends: nothing it held matters any more.
LEMMA ExitStep ==
  ASSUME IInv, Exit, disk' = disk, RemoteOK', RemoteGrows
  PROVE  IInv'
<1>1. DiskOK' /\ (disk'.key.st = "whole" => disk'.key.id.dev \in Devices)
  BY DEF IInv, TypesInv, DiskOK, OwnedInv
<1> QED BY <1>1, FreshStep, DownFacts DEF Exit

\* The parts that a step keeps when it moves the process, outside a save, and
\* touches no file.
LEMMA QuietStep ==
  ASSUME IInv, disk' = disk, RemoteOK', RemoteGrows, run' \in Processes,
         run.pc # "save", run'.pc # "save", run.pc # "down", run'.writes = <<>>, ~run'.half,
         run'.loaded = run.loaded, run'.id = run.id, run'.warned = run.warned,
         run.loaded => run'.path = run.path /\ run'.set = run.set
  PROVE  /\ TypesInv' /\ ShapeInv' /\ OwnedInv' /\ KeyInv' /\ SetInv' /\ Place' = run'.pc
         /\ \A f \in Files : Real(disk[f].id)'
         /\ Real(run.id)'
<1>types. TypesInv'
  BY DEF IInv, TypesInv, RunOK, DiskOK
<1>place. Place' = run'.pc
  BY DEF Place
<1>shape. ShapeInv'
  BY DEF ShapeInv
<1>owned. OwnedInv'
  BY DEF IInv, OwnedInv
<1>key. KeyInv'
  BY DEF IInv, ShapeInv, KeyInv
<1>set. SetInv'
  BY DEF IInv, SetInv
<1>1. \A f \in Files : Real(disk[f].id)'
  BY IdTypes, RealGrows DEF IInv, RealInv, Real, RealNext
<1>2. Real(run.id)'
  BY IdTypes, RealGrows DEF IInv, RealInv, Real, RealNext
<1> QED BY <1>types, <1>place, <1>shape, <1>owned, <1>key, <1>set, <1>1, <1>2

\* A step that starts SaveConfig, with the identity that is loaded or the new
\* one of a registration.
LEMMA SaveConfigStep ==
  ASSUME IInv, disk' = disk, RemoteOK', RemoteGrows,
         NEW r \in Processes, NEW after \in {"sni", "reset", "overrides", "serving"},
         NEW strict \in BOOLEAN, run' = SaveConfig(r, after, strict),
         run.pc # "save", run.pc # "down",
         ~r.half, r.path = run.path, r.loaded, r.warned = run.warned,
         r.id.dev \in Devices, RealNext(r.id),
         after = "sni" => strict,
         after # "sni" => run.loaded /\ r.id.dev = run.id.dev
  PROVE  IInv'
<1>0. after \in Places
  BY DEF Places
<1>fields. /\ run' \in Processes /\ run'.pc = "save" /\ run'.after = after
           /\ run'.writes = << [file |-> r.path, content |-> PublicFile(r.set)],
                               [file |-> "key", content |-> KeyFile(r.id)] >>
           /\ Keeps(run', r) /\ (after = "sni" => run'.strict)
  BY <1>0, SaveConfigFacts
<1>keeps. run'.path = run.path /\ run'.set = r.set /\ run'.id = r.id
  BY <1>fields DEF Keeps, KeepsAccount
<1>flags. run'.loaded /\ ~run'.half
  BY <1>fields DEF Keeps, KeepsAccount
<1>warned. run'.warned = run.warned
  BY <1>fields DEF Keeps, KeepsAccount
<1>both. Both' /\ Place' = after
  BY <1>fields, <1>keeps, <1>flags DEF Both, Pub, Key, Place
<1>types. TypesInv'
  BY <1>fields, <1>keeps DEF IInv, TypesInv, RunOK, DiskOK
<1>shape. ShapeInv'
  BY <1>fields, <1>keeps, <1>both DEF ShapeInv
<1>owned. OwnedInv'
  BY <1>fields, <1>keeps DEF IInv, OwnedInv
<1>stage. StageInv'
  BY <1>fields, <1>keeps, <1>flags, <1>both DEF StageInv
<1>loaded. LoadedInv' /\ RegisterInv'
  BY <1>fields, <1>keeps DEF LoadedInv, RegisterInv
<1>key. KeyInv'
  <2>1. CASE after = "sni"
    BY <2>1, <1>fields, <1>keeps DEF KeyInv
  <2>2. CASE after # "sni"
    <3>1. run.id # NoIdentity
      BY <2>2, StartupAssumption, FileFacts
    <3> QED BY <2>2, <3>1, <1>fields, <1>keeps, <1>warned DEF IInv, KeyInv, ShapeInv
  <2> QED BY <2>1, <2>2
<1>set. SetInv'
  BY <1>both, <1>fields, <1>keeps DEF SetInv
<1>real. RealInv'
  <2>1. \A f \in Files : Real(disk[f].id)'
    BY IdTypes, RealGrows DEF IInv, RealInv, Real, RealNext
  <2>2. Real(run.id)'
    BY <1>fields, <1>keeps DEF Real, RealNext
  <2> QED BY <1>fields, <1>keeps, <1>both, <2>1, <2>2 DEF RealInv, RemoteGrows
<1> QED BY <1>types, <1>shape, <1>owned, <1>stage, <1>loaded, <1>key, <1>set, <1>real DEF IInv

-----------------------------------------------------------------------------
(* PersistentPreRunE *)

\* A start holds nothing yet.
LEMMA StartKeeps ==
  ASSUME IInv, NEW c \in Commands, Start(c)
  PROVE  IInv'
<1>1. run' = [Down EXCEPT !.pc = "migrate", !.cmd = c] /\ c \in CommandLine
  BY StartupAssumption DEF Start
<1>2. run' \in Processes
  BY <1>1, DownFacts DEF Processes, Places
<1>3. /\ run'.pc = "migrate" /\ run'.id = NoIdentity /\ run'.writes = <<>>
      /\ ~run'.loaded /\ ~run'.half /\ ~run'.warned
  BY <1>1 DEF Down
<1>4. /\ disk' = disk /\ RemoteOK' /\ RemoteGrows /\ DiskOK'
      /\ (disk'.key.st = "whole" => disk'.key.id.dev \in Devices)
  BY SameRemote DEF Start, IInv, TypesInv, DiskOK, OwnedInv
<1> QED BY <1>2, <1>3, <1>4, FreshStep

\* The migration sets out to copy config.json, or finds nothing to do.
LEMMA MigrateKeeps ==
  ASSUME IInv, MigrateLegacyJSONConfigPath
  PROVE  IInv'
<1> USE DEF MigrateLegacyJSONConfigPath
<1>0. run.pc = "migrate" /\ disk' = disk /\ RemoteOK' /\ RemoteGrows /\ run \in Processes
  BY SameRemote DEF IInv, TypesInv, RunOK
<1>stage. /\ run.writes = <<>> /\ ~run.half /\ ~run.loaded /\ ~run.warned
          /\ run.id = NoIdentity
  BY <1>0 DEF IInv, ShapeInv, StageInv, Place
<1>1. CASE Exit
  BY <1>0, <1>1, ExitStep
<1>2. ASSUME NEW p \in Paths, run' = [run EXCEPT !.pc = "load", !.path = p]
      PROVE  IInv'
  <2>1. run' \in Processes
    BY <1>0, <1>2 DEF Processes, Places
  <2>2. run'.pc = "load" /\ run'.id = run.id /\ run'.writes = <<>>
    BY <1>0, <1>2, <1>stage DEF Processes
  <2>3. run'.loaded = run.loaded
    BY <1>0, <1>2 DEF Processes
  <2>4. run'.half = run.half
    BY <1>0, <1>2 DEF Processes
  <2>5. run'.warned = run.warned
    BY <1>0, <1>2 DEF Processes
  <2>q. /\ TypesInv' /\ ShapeInv' /\ OwnedInv' /\ KeyInv' /\ SetInv' /\ Place' = run'.pc
        /\ \A f \in Files : Real(disk[f].id)'
        /\ Real(run.id)'
    BY <1>0, <1>stage, <2>1, <2>2, <2>3, <2>4, <2>5, QuietStep
  <2>6. StageInv'
    BY <2>q, <2>2, <2>3, <2>5, <1>stage DEF StageInv
  <2>7. LoadedInv' /\ RegisterInv'
    BY <2>2 DEF LoadedInv, RegisterInv
  <2>8. RealInv'
    BY <2>q, <2>2, <1>0 DEF RealInv, RemoteGrows
  <2> QED BY <2>q, <2>6, <2>7, <2>8 DEF IInv
<1>3. CASE run' = Saving(run, << [file |-> "yaml", content |-> disk.json] >>, "rename", TRUE)
  <2> DEFINE w == << [file |-> "yaml", content |-> disk.json] >>
  <2>1. w \in Seq([file : Files, content : File])
    BY DEF IInv, TypesInv, DiskOK, Files
  <2>2. run' = [run EXCEPT !.pc = "save", !.writes = w, !.after = "rename", !.strict = TRUE]
    BY <1>3 DEF Saving
  <2> HIDE DEF w
  <2>3. run' \in Processes
    BY <1>0, <2>1, <2>2 DEF Processes, Places
  <2>4. run'.pc = "save" /\ run'.id = NoIdentity /\ run'.writes = w /\ run'.after = "rename"
    BY <1>0, <2>2, <1>stage DEF Processes
  <2>5. ~run'.loaded
    BY <1>0, <2>2, <1>stage DEF Processes
  <2>6. ~run'.half
    BY <1>0, <2>2, <1>stage DEF Processes
  <2>7. ~run'.warned
    BY <1>0, <2>2, <1>stage DEF Processes
  <2>8. run'.strict
    BY <1>0, <2>2 DEF Processes
  <2>migrate. Migrate' /\ Place' = "rename"
    BY <1>0, <2>4, <2>8 DEF Migrate, Place, w
  <2>types. TypesInv'
    BY <1>0, <2>3 DEF IInv, TypesInv, RunOK, DiskOK
  <2>shape. ShapeInv'
    BY <2>4, <2>migrate DEF ShapeInv
  <2>owned. OwnedInv'
    BY <1>0, <2>4 DEF IInv, OwnedInv
  <2>stage. StageInv'
    BY <2>4, <2>5, <2>7, <2>migrate DEF StageInv
  <2>loaded. LoadedInv' /\ RegisterInv' /\ KeyInv' /\ SetInv'
    BY <2>5 DEF LoadedInv, RegisterInv, KeyInv, SetInv
  <2>real. RealInv'
    <3>1. \A f \in Files : Real(disk[f].id)'
      BY <1>0, IdTypes, RealGrows DEF IInv, RealInv, Real, RealNext
    <3>2. Real(run.id)'
      BY <2>4, FileFacts DEF Real
    <3> QED BY <1>0, <2>4, <2>migrate, <3>1, <3>2 DEF RealInv, RemoteGrows
  <2> QED BY <2>types, <2>shape, <2>owned, <2>stage, <2>loaded, <2>real DEF IInv
<1> QED BY <1>1, <1>2, <1>3 DEF Paths

\* config.json is gone once it has been transcoded.
LEMMA RenameKeeps ==
  ASSUME IInv, RenameLegacy
  PROVE  IInv'
<1>0. run.pc = "rename" /\ RemoteOK' /\ RemoteGrows /\ run \in Processes /\ remote' = remote
  BY SameRemote DEF IInv, TypesInv, RunOK, RenameLegacy
<1>1. CASE Exit /\ UNCHANGED disk
  BY <1>0, <1>1, ExitStep
<1>2. CASE disk' = [disk EXCEPT !.json = Broken("absent")] /\ Goto("load")
  <2>1. run' = [run EXCEPT !.pc = "load"] /\ "load" \in Places
    BY <1>2 DEF Goto, Places
  <2>2. run' \in Processes /\ run'.pc = "load" /\ run'.writes = run.writes /\ Keeps(run', run)
    BY <2>1, <1>0, MoveFacts
  <2>3. /\ run.writes = <<>> /\ ~run.half /\ ~run.loaded /\ ~run.warned
        /\ run.id = NoIdentity
    BY <1>0 DEF IInv, ShapeInv, StageInv, Place
  <2>4. /\ ~run'.half /\ ~run'.loaded /\ ~run'.warned
        /\ run'.id = NoIdentity /\ Place' = "load"
    BY <2>2, <2>3 DEF Keeps, KeepsAccount, Place
  <2>disk. \A f \in Files : disk'[f] = disk[f] \/ disk'[f] = Broken("absent")
    BY <1>2 DEF IInv, TypesInv, DiskOK, Files
  <2>types. TypesInv'
    BY <1>0, <1>2, <2>2, FileTypes DEF IInv, TypesInv, RunOK, DiskOK
  <2>shape. ShapeInv'
    BY <2>2, <2>3, <2>4 DEF ShapeInv
  <2>files. /\ \A f \in Files : disk'[f].st # "whole" => disk'[f].id = NoIdentity
            /\ \A f \in Files : disk'[f].id = NoIdentity \/ disk'[f].id.dev \in Devices
            /\ \A f \in Files : Real(disk[f].id)'
    BY <1>0, <2>disk, GoodFiles, FilesStep
  <2>key. disk'.key = disk.key
    BY <1>2 DEF IInv, TypesInv, DiskOK, Files
  <2>owned. OwnedInv'
    BY <2>files, <2>key, <2>4 DEF IInv, OwnedInv
  <2>stage. StageInv'
    BY <2>2, <2>4 DEF StageInv
  <2>loaded. LoadedInv' /\ RegisterInv' /\ KeyInv' /\ SetInv'
    BY <2>4 DEF LoadedInv, RegisterInv, KeyInv, SetInv
  <2>real. RealInv'
    <3>1. Real(run.id)'
      BY <2>4, FileFacts DEF Real
    <3> QED BY <1>0, <2>2, <2>4, <2>files, <3>1 DEF RealInv, RemoteGrows
  <2> QED BY <2>types, <2>shape, <2>owned, <2>stage, <2>loaded, <2>real DEF IInv
<1> QED BY <1>1, <1>2 DEF RenameLegacy

\* The config and the identity of LoadConfig are the process's.
Loaded(r, set, id) == [r EXCEPT !.pc = "mode", !.loaded = TRUE, !.set = set, !.id = id]

\* What a process that has loaded its config knows.
LEMMA LoadedFacts ==
  ASSUME NEW r \in Processes, NEW set \in Settings, NEW id \in Identity, NEW q,
         ~r.half, ~r.warned,
         q = Loaded(r, set, id)
  PROVE  /\ q \in Processes /\ q.pc = "mode" /\ q.loaded /\ q.set = set /\ q.id = id
         /\ q.path = r.path /\ q.writes = r.writes /\ ~q.half /\ ~q.warned
<1>1. q \in Processes
  BY DEF Loaded, Processes, Places
<1>2. q.pc = "mode" /\ q.set = set /\ q.id = id /\ q.path = r.path /\ q.writes = r.writes
  BY DEF Loaded, Processes
<1>3. q.loaded
  BY DEF Loaded, Processes
<1>4. ~q.half
  BY DEF Loaded, Processes
<1>5. ~q.warned
  BY DEF Loaded, Processes
<1> QED BY <1>1, <1>2, <1>3, <1>4, <1>5

\* LoadConfig takes the identity of key.json, or splits it off a legacy config.
LEMMA LoadKeeps ==
  ASSUME IInv, LoadConfig
  PROVE  IInv'
<1> DEFINE cfg == disk[run.path]
           keyed == [run EXCEPT !.pc = "mode", !.loaded = TRUE, !.set = cfg.set,
                                !.id = disk.key.id]
           legacy == [keyed EXCEPT !.id = cfg.id]
           split == Saving(legacy, << [file |-> "key", content |-> KeyFile(cfg.id)],
                                      [file |-> run.path, content |-> PublicFile(cfg.set)] >>,
                           "mode", TRUE)
<1>0. /\ run.pc = "load" /\ disk' = disk /\ remote' = remote /\ RemoteOK' /\ RemoteGrows
      /\ run \in Processes /\ run.path \in Paths
  BY SameRemote DEF IInv, TypesInv, RunOK, LoadConfig, Processes
<1>state. /\ run.writes = <<>> /\ ~run.half /\ ~run.loaded /\ ~run.warned
          /\ run.id = NoIdentity
  BY <1>0 DEF IInv, ShapeInv, StageInv, Place
<1>path. run.path \in Files /\ "key" \in Files
  BY <1>0 DEF Paths, Files
<1>cfg. /\ cfg.set \in Settings /\ cfg.id \in Identity
        /\ disk.key.id \in Identity
        /\ cfg.id = NoIdentity \/ cfg.id.dev \in Devices
        /\ disk.key.st = "whole" => disk.key.id.dev \in Devices
        /\ Real(cfg.id) /\ Real(disk.key.id)
  BY <1>path DEF IInv, TypesInv, DiskOK, File, OwnedInv, RealInv
<1>legacy. legacy = Loaded(run, cfg.set, cfg.id) /\ keyed = Loaded(run, cfg.set, disk.key.id)
  BY <1>0 DEF Processes, Loaded
<1>cases. \/ cfg.st = "absent" /\ Goto("mode")
          \/ Exit
          \/ cfg.st \in {"whole", "empty"} /\ disk.key.st = "whole" /\ run' = keyed
          \/ /\ cfg.st \in {"whole", "empty"} /\ disk.key.st = "absent"
             /\ cfg.id = NoIdentity /\ run' = legacy
          \/ /\ cfg.st \in {"whole", "empty"} /\ disk.key.st = "absent"
             /\ cfg.id # NoIdentity /\ run' = split
  BY DEF LoadConfig
<1> HIDE DEF cfg, keyed, legacy, split
<1>1. CASE Exit
  BY <1>0, <1>1, ExitStep
<1>2. CASE cfg.st = "absent" /\ Goto("mode")
  <2>1. run' = [run EXCEPT !.pc = "mode"] /\ "mode" \in Places
    BY <1>2 DEF Goto, Places
  <2>2. run' \in Processes /\ run'.pc = "mode" /\ run'.writes = run.writes /\ Keeps(run', run)
    BY <2>1, <1>0, MoveFacts
  <2>3. /\ run'.loaded = run.loaded /\ ~run'.loaded /\ ~run'.half /\ run'.warned = run.warned
        /\ ~run'.warned /\ run'.id = run.id /\ run'.path = run.path /\ run'.set = run.set
    BY <2>2, <1>state DEF Keeps, KeepsAccount
  <2>q. /\ TypesInv' /\ ShapeInv' /\ OwnedInv' /\ KeyInv' /\ SetInv' /\ Place' = run'.pc
        /\ \A f \in Files : Real(disk[f].id)'
        /\ Real(run.id)'
    BY <1>0, <1>state, <2>2, <2>3, QuietStep
  <2>6. StageInv'
    BY <1>0, <1>2, <1>state, <2>q, <2>2, <2>3 DEF StageInv, cfg
  <2>7. LoadedInv' /\ RegisterInv'
    BY <2>2, <2>3 DEF LoadedInv, RegisterInv
  <2>8. RealInv'
    BY <2>q, <2>2, <1>0 DEF RealInv, RemoteGrows
  <2> QED BY <2>q, <2>6, <2>7, <2>8 DEF IInv
<1>3. ASSUME NEW id \in Identity, Real(id), cfg.st \in {"whole", "empty"},
             run' = Loaded(run, cfg.set, id),
             \/ disk.key.st = "whole" /\ id = disk.key.id
             \/ disk.key.st = "absent" /\ id = NoIdentity /\ cfg.id = NoIdentity
      PROVE  IInv'
  <2>1. /\ run' \in Processes /\ run'.pc = "mode" /\ run'.loaded /\ run'.set = cfg.set
        /\ run'.id = id /\ run'.path = run.path /\ run'.writes = run.writes
        /\ ~run'.half /\ ~run'.warned
    BY <1>0, <1>state, <1>cfg, <1>3, LoadedFacts
  <2>2. ~run'.half /\ ~run'.warned /\ Place' = "mode" /\ disk'[run'.path] = cfg
    BY <1>0, <1>state, <2>1 DEF Place, cfg
  <2>types. TypesInv'
    BY <1>0, <2>1 DEF IInv, TypesInv, RunOK, DiskOK
  <2>shape. ShapeInv'
    BY <1>state, <2>1, <2>2 DEF ShapeInv
  <2>owned. OwnedInv'
    BY <1>0, <1>3, <1>cfg, <2>1 DEF IInv, OwnedInv
  <2>stage. StageInv'
    BY <2>1, <2>2 DEF StageInv
  <2>loaded. LoadedInv' /\ RegisterInv'
    BY <1>0, <1>3, <2>1, <2>2 DEF LoadedInv, RegisterInv
  <2>key. KeyInv'
    BY <1>0, <1>3, <2>1, <2>2 DEF KeyInv
  <2>set. SetInv'
    BY <2>1, <2>2 DEF SetInv
  <2>real. RealInv'
    BY <1>0, <1>3, <2>1, <2>2 DEF IInv, RealInv, Real
  <2> QED BY <2>types, <2>shape, <2>owned, <2>stage, <2>loaded, <2>key, <2>set, <2>real DEF IInv
<1>4. CASE /\ cfg.st \in {"whole", "empty"} /\ disk.key.st = "absent"
           /\ cfg.id # NoIdentity /\ run' = split
  <2> DEFINE w == << [file |-> "key", content |-> KeyFile(cfg.id)],
                     [file |-> run.path, content |-> PublicFile(cfg.set)] >>
  <2>1. w \in Seq([file : Files, content : File])
    BY <1>cfg, <1>path, FileTypes
  <2>2. /\ legacy \in Processes /\ legacy.loaded /\ legacy.set = cfg.set
        /\ legacy.id = cfg.id /\ legacy.path = run.path
        /\ ~legacy.half /\ ~legacy.warned
    BY <1>0, <1>state, <1>cfg, <1>legacy, LoadedFacts
  <2>3. run' = [legacy EXCEPT !.pc = "save", !.writes = w, !.after = "mode", !.strict = TRUE]
    BY <1>4 DEF Saving, split
  <2> HIDE DEF w
  <2>4. run' \in Processes
    BY <2>1, <2>2, <2>3 DEF Processes, Places
  <2>5. /\ run'.pc = "save" /\ run'.id = cfg.id /\ run'.writes = w /\ run'.after = "mode"
        /\ run'.path = run.path /\ run'.set = cfg.set
    BY <2>2, <2>3 DEF Processes
  <2>6. run'.loaded
    BY <2>2, <2>3 DEF Processes
  <2>7. ~run'.half
    BY <2>2, <2>3 DEF Processes
  <2>8. ~run'.warned
    BY <2>2, <2>3 DEF Processes
  <2>9. run'.strict
    BY <2>2, <2>3 DEF Processes
  <2>split. Split' /\ Place' = "mode" /\ disk'[run'.path] = cfg
    BY <1>0, <1>4, <1>cfg, <2>5, <2>6, <2>9 DEF Split, Place, Pub, Key, w, cfg
  <2>types. TypesInv'
    BY <1>0, <2>4 DEF IInv, TypesInv, RunOK, DiskOK
  <2>shape. ShapeInv'
    BY <2>5, <2>split DEF ShapeInv
  <2>owned. OwnedInv'
    BY <1>0, <1>4, <1>cfg, <2>5 DEF IInv, OwnedInv
  <2>stage. StageInv'
    BY <2>5, <2>6, <2>8, <2>split DEF StageInv
  <2>loaded. LoadedInv' /\ RegisterInv'
    BY <2>5 DEF LoadedInv, RegisterInv
  <2>key. KeyInv'
    BY <1>0, <1>4, <2>5, <2>split DEF KeyInv
  <2>set. SetInv'
    BY <2>5, <2>split DEF SetInv
  <2>real. RealInv'
    BY <1>0, <1>cfg, <2>5, <2>split DEF IInv, RealInv, Real
  <2> QED BY <2>types, <2>shape, <2>owned, <2>stage, <2>loaded, <2>key, <2>set, <2>real DEF IInv
<1>5. CASE cfg.st \in {"whole", "empty"} /\ disk.key.st = "whole" /\ run' = keyed
  BY <1>3, <1>5, <1>cfg, <1>legacy
<1>6. CASE /\ cfg.st \in {"whole", "empty"} /\ disk.key.st = "absent"
           /\ cfg.id = NoIdentity /\ run' = legacy
  BY <1>3, <1>6, <1>cfg, <1>legacy
<1> QED BY <1>cases, <1>1, <1>2, <1>4, <1>5, <1>6

-----------------------------------------------------------------------------
(* Writing *)

\* The seven lists of a save, and the file each writes next.
LEMMA NextWrite ==
  ASSUME IInv, run.pc = "save"
  PROVE  /\ run \in Processes /\ run.path \in Paths /\ Head(run.writes).file \in Files
         /\ \/ /\ run.after \in {"sni", "reset", "overrides", "serving"} /\ Both
               /\ Head(run.writes).file = run.path
            \/ /\ run.after \in {"sni", "reset", "overrides", "serving"} /\ KeyLeft
               /\ Head(run.writes).file = "key"
            \/ run.after = "mode" /\ Split /\ Head(run.writes).file = "key"
            \/ run.after = "mode" /\ PubLeft /\ Head(run.writes).file = run.path
            \/ run.after = "wgAccount" /\ WGPub /\ Head(run.writes).file = run.path
            \/ run.after = "wgName" /\ WGSave /\ Head(run.writes).file = "wg"
            \/ run.after = "rename" /\ Migrate /\ Head(run.writes).file = "yaml" /\ ~run.loaded
<1>1. run \in Processes /\ run.path \in Paths
  BY DEF IInv, TypesInv, RunOK, Processes
<1>2. run.after = "rename" => ~run.loaded
  BY DEF IInv, StageInv, Place
<1>3. /\ Both => Head(run.writes).file = run.path
      /\ KeyLeft => Head(run.writes).file = "key"
      /\ Split => Head(run.writes).file = "key"
      /\ PubLeft => Head(run.writes).file = run.path
      /\ WGPub => Head(run.writes).file = run.path
      /\ WGSave => Head(run.writes).file = "wg"
      /\ Migrate => Head(run.writes).file = "yaml"
  BY DEF Both, KeyLeft, Split, PubLeft, WGPub, WGSave, Migrate, Pub, Key
<1>4. \/ run.after \in {"sni", "reset", "overrides", "serving"} /\ (Both \/ KeyLeft)
      \/ run.after = "mode" /\ (Split \/ PubLeft)
      \/ run.after = "wgAccount" /\ WGPub
      \/ run.after = "wgName" /\ WGSave
      \/ run.after = "rename" /\ Migrate
  BY DEF IInv, ShapeInv
<1> QED BY <1>1, <1>2, <1>3, <1>4 DEF Files, Paths

\* A truncated file holds no account, neither a right nor a wrong one.
LEMMA TruncateKeeps ==
  ASSUME IInv, Truncate
  PROVE  IInv'
<1> DEFINE f == Head(run.writes).file
<1>0. /\ run.pc = "save" /\ ~run.half /\ remote' = remote /\ RemoteOK' /\ RemoteGrows
      /\ run' = [run EXCEPT !.half = TRUE]
      /\ disk' = [disk EXCEPT ![f] = Broken("empty")]
      /\ run \in Processes /\ run.path \in Paths /\ f \in Files
  BY SameRemote, NextWrite DEF Truncate
<1> HIDE DEF f
<1>1. run' \in Processes
  BY <1>0 DEF Processes
<1>2. /\ run'.pc = "save" /\ run'.writes = run.writes /\ run'.after = run.after
      /\ run'.path = run.path /\ run'.set = run.set /\ run'.id = run.id
      /\ run'.dev = run.dev /\ run'.mode = run.mode /\ run'.cmd = run.cmd
  BY <1>0 DEF Processes
<1>3. run'.half
  BY <1>0 DEF Processes
<1>4. run'.loaded = run.loaded
  BY <1>0 DEF Processes
<1>5. run'.strict = run.strict
  BY <1>0 DEF Processes
<1>6. run'.warned = run.warned
  BY <1>0 DEF Processes
<1>disk. /\ disk'[f] = Broken("empty")
         /\ \A g \in Files : g # f => disk'[g] = disk[g]
         /\ DiskOK'
  BY <1>0, FileTypes DEF IInv, TypesInv, DiskOK
<1>empty. disk'[f].st = "empty" /\ disk'[f].id = NoIdentity
  BY <1>disk DEF Broken
<1>files. /\ \A g \in Files : disk'[g].st # "whole" => disk'[g].id = NoIdentity
          /\ \A g \in Files : disk'[g].id = NoIdentity \/ disk'[g].id.dev \in Devices
          /\ \A g \in Files : Real(disk[g].id)'
  BY <1>0, <1>disk, GoodFiles, FilesStep
<1>names. "key" \in Files /\ "json" \in Files /\ "wg" \in Files /\ run.path \in Files
          /\ run.path # "key" /\ run.path # "wg"
  BY <1>0 DEF Files, Paths
<1>place. Place' = run.after /\ Place = run.after
  BY <1>0, <1>2 DEF Place
<1>keep. Pub' = Pub /\ Key' = Key
  BY <1>2 DEF Pub, Key
<1>shape. ShapeInv'
  <2>1. Both => Both'
    BY <1>2, <1>4, <1>keep DEF Both
  <2>2. KeyLeft /\ f = "key" => KeyLeft'
    BY <1>2, <1>4, <1>keep, <1>disk, <1>names DEF KeyLeft
  <2>3. Split /\ f = "key" => Split'
    BY <1>2, <1>4, <1>5, <1>keep, <1>disk, <1>names DEF Split
  <2>4. PubLeft /\ f = run.path => PubLeft'
    BY <1>2, <1>4, <1>5, <1>keep, <1>disk, <1>names DEF PubLeft
  <2>5. WGPub => WGPub'
    BY <1>2, <1>5, <1>keep DEF WGPub
  <2>6. WGSave => WGSave'
    BY <1>2, <1>5 DEF WGSave
  <2>7. Migrate /\ f = "yaml" => Migrate'
    BY <1>2, <1>5, <1>disk, <1>names DEF Migrate
  <2>8. run.after = "sni" => run'.strict
    BY <1>0, <1>5 DEF IInv, ShapeInv
  <2> QED BY <1>0, <1>2, <2>1, <2>2, <2>3, <2>4, <2>5, <2>6, <2>7, <2>8, NextWrite DEF ShapeInv, f
<1>types. TypesInv'
  BY <1>0, <1>1, <1>disk DEF TypesInv, RunOK
<1>owned. OwnedInv'
  <2>1. disk'.key.st = "whole" => disk'.key.id.dev \in Devices
    BY <1>disk, <1>empty, <1>names DEF IInv, OwnedInv
  <2> QED BY <1>2, <1>files, <2>1 DEF IInv, OwnedInv
<1>stage. StageInv'
  BY <1>0, <1>2, <1>4, <1>6, <1>place DEF IInv, StageInv
<1>loaded. LoadedInv' /\ RegisterInv'
  BY <1>2 DEF LoadedInv, RegisterInv
<1>path. run.loaded => f \in {run.path, "key", "wg"}
  BY <1>0, NextWrite DEF f
<1>key. KeyInv'
  <2>1. SUFFICES ASSUME run.loaded, run.after # "sni"
                 PROVE  KeyInv'
    BY <1>2, <1>4 DEF KeyInv
  <2>2. /\ disk'[run.path].st # "absent"
        /\ disk'[run.path].st = "cut" => run.warned
    BY <2>1, <1>0, <1>disk, <1>empty, <1>names DEF IInv, KeyInv
  <2>3. CASE f = "key"
    BY <2>1, <2>2, <2>3, <1>2, <1>3, <1>6, <1>empty DEF KeyInv, f
  <2>4. CASE f # "key"
    <3>1. disk'.key = disk.key
      BY <2>4, <1>disk, <1>names
    <3>2. disk'[run.path].id = NoIdentity \/ disk'[run.path].id = disk[run.path].id
      BY <1>disk, <1>empty, <1>names
    <3>3. ~(run.after = "mode" /\ Split)
      BY <2>4 DEF Split, Key, f
    <3> QED BY <2>1, <2>2, <2>4, <3>1, <3>2, <3>3, <1>0, <1>2, <1>6 DEF IInv, KeyInv, f
  <2> QED BY <2>3, <2>4
<1>set. SetInv'
  <2>1. SUFFICES ASSUME run.loaded, ~run.warned
                 PROVE  SetInv'
    BY <1>4, <1>6 DEF SetInv
  <2>2. CASE f = run.path
    <3>1. Both \/ PubLeft \/ WGPub
      BY <2>1, <2>2, <1>0, <1>names, NextWrite DEF f
    <3>2. Both' \/ PubLeft' \/ WGPub'
      BY <3>1, <2>2, <1>2, <1>4, <1>5, <1>keep, <1>disk, <1>names DEF Both, PubLeft, WGPub
    <3> QED BY <3>2, <1>2 DEF SetInv
  <2>3. CASE f # run.path
    <3>1. disk'[run.path] = disk[run.path]
      BY <2>3, <1>disk, <1>names
    <3>2. ~(Both \/ PubLeft \/ WGPub)
      BY <2>3 DEF Both, PubLeft, WGPub, Pub, f
    <3>3. Split => Split'
      BY <3>1, <1>2, <1>4, <1>5, <1>keep DEF Split
    <3> QED BY <2>1, <3>1, <3>2, <3>3, <1>0, <1>2 DEF IInv, SetInv
  <2> QED BY <2>2, <2>3
<1>real. RealInv'
  <2>1. Real(run.id)'
    BY <1>0, <1>2 DEF IInv, RealInv, Real
  <2> QED BY <2>1, <1>0, <1>2, <1>files, <1>place DEF IInv, RealInv
<1> QED BY <1>types, <1>shape, <1>owned, <1>stage, <1>loaded, <1>key, <1>set, <1>real DEF IInv

\* A file is written, or a failed save is dropped.
Written(r, w) == [r EXCEPT !.half = FALSE, !.writes = w]

\* A process that has written a file still has its account and the rest of its list.
LEMMA WrittenFacts ==
  ASSUME NEW r \in Processes, NEW w \in Seq([file : Files, content : File]), NEW q,
         q = Written(r, w)
  PROVE  /\ q \in Processes /\ q.pc = r.pc /\ q.after = r.after /\ q.writes = w /\ ~q.half
         /\ KeepsAccount(q, r) /\ q.dev = r.dev /\ (r.strict => q.strict)
<1>1. q \in Processes
  BY DEF Written, Processes
<1>2. /\ q.pc = r.pc /\ q.after = r.after /\ q.writes = w /\ q.dev = r.dev
      /\ q.path = r.path /\ q.set = r.set /\ q.id = r.id
  BY DEF Written, Processes
<1>3. ~q.half
  BY DEF Written, Processes
<1>4. q.loaded = r.loaded
  BY DEF Written, Processes
<1>5. q.warned = r.warned
  BY DEF Written, Processes
<1>6. q.strict = r.strict
  BY DEF Written, Processes
<1> QED BY <1>1, <1>2, <1>3, <1>4, <1>5, <1>6 DEF KeepsAccount

\* What a finished write does to the process: it goes on with the list, or with
\* what comes after the save.
LEMMA FinishFacts ==
  ASSUME IInv, FinishWrite
  PROVE  /\ run' \in Processes /\ KeepsAccount(run', run) /\ ~run'.half
         /\ Both \/ Split => /\ run'.pc = "save" /\ run'.after = run.after
                             /\ run'.writes = Tail(run.writes) /\ (run.strict => run'.strict)
         /\ KeyLeft \/ PubLeft \/ WGPub \/ WGSave \/ Migrate =>
              /\ run'.pc = run.after /\ run'.writes = <<>>
              /\ run.after # "serving" => run'.dev = run.dev
<1>1. /\ run.pc = "save" /\ run \in Processes /\ run.writes \in Seq([file : Files, content : File])
      /\ run.writes # <<>>
  <2>1. run.pc = "save" /\ run \in Processes
    BY DEF FinishWrite, IInv, TypesInv, RunOK
  <2>2. run.writes # <<>>
    BY <2>1, NextWrite DEF Both, KeyLeft, Split, PubLeft, WGPub, WGSave, Migrate
  <2> QED BY <2>1, <2>2 DEF Processes
<1>two. Both \/ Split => Tail(run.writes) # <<>>
  <2>1. Both => Tail(run.writes) # <<>>
    BY DEF Both
  <2>2. Split => Tail(run.writes) # <<>>
    BY DEF Split
  <2> QED BY <2>1, <2>2
<1>one. KeyLeft \/ PubLeft \/ WGPub \/ WGSave \/ Migrate => Tail(run.writes) = <<>>
  <2>1. KeyLeft => Tail(run.writes) = <<>>
    BY DEF KeyLeft
  <2>2. PubLeft => Tail(run.writes) = <<>>
    BY DEF PubLeft
  <2>5. WGPub => Tail(run.writes) = <<>>
    BY DEF WGPub
  <2>3. WGSave => Tail(run.writes) = <<>>
    BY DEF WGSave
  <2>4. Migrate => Tail(run.writes) = <<>>
    BY DEF Migrate
  <2> QED BY <2>1, <2>2, <2>3, <2>4, <2>5
<1> DEFINE w == Tail(run.writes)
<1>2. w \in Seq([file : Files, content : File])
  BY <1>1
<1> HIDE DEF w
<1>r. PICK r : r = Written(run, w)
  OBVIOUS
<1>3. /\ r \in Processes /\ r.pc = "save" /\ r.after = run.after /\ r.writes = w
      /\ ~r.half /\ KeepsAccount(r, run) /\ r.dev = run.dev /\ (run.strict => r.strict)
  <2>0. r \in Processes
    BY <1>1, <1>2, <1>r, WrittenFacts
  <2>1. r.pc = run.pc /\ r.after = run.after /\ r.writes = w
    BY <1>1, <1>2, <1>r DEF Written, Processes
  <2>2. KeepsAccount(r, run) /\ r.dev = run.dev
    BY <1>1, <1>2, <1>r, WrittenFacts
  <2>3. ~r.half
    BY <1>1, <1>2, <1>r, WrittenFacts
  <2>4. r.strict = run.strict
    BY <1>1, <1>2, <1>r DEF Written, Processes
  <2> QED BY <1>1, <2>0, <2>1, <2>2, <2>3, <2>4
<1>4. run' = IF r.writes = <<>> THEN Resume(r) ELSE r
  BY <1>r DEF FinishWrite, Written, w
<1>5. CASE Both \/ Split
  BY <1>3, <1>4, <1>5, <1>one, <1>two DEF w
<1>6. CASE KeyLeft \/ PubLeft \/ WGPub \/ WGSave \/ Migrate
  <2>1. w = <<>> /\ ~(Both \/ Split)
    BY <1>6, <1>one, <1>two DEF w
  <2>3. /\ run' \in Processes /\ run'.pc = run.after /\ KeepsAccount(run', r)
        /\ run.after # "serving" => run'.writes = <<>> /\ Keeps(run', r)
        /\ run.after = "serving" => run'.writes = <<>> /\ ~run'.half
    BY <1>3, <1>4, <2>1, ResumeFacts
  <2>4. KeepsAccount(run', run)
    BY <2>3, <1>3 DEF KeepsAccount
  <2>5. ~run'.half /\ (run.after # "serving" => run'.dev = run.dev)
    BY <2>3, <1>3 DEF Keeps
  <2> QED BY <2>1, <2>3, <2>4, <2>5
<1> QED BY <1>1, <1>5, <1>6, NextWrite

\* A file that is written whole holds what the list said, and the list gets shorter.
LEMMA FinishWriteKeeps ==
  ASSUME IInv, FinishWrite
  PROVE  IInv'
<1> DEFINE f == Head(run.writes).file
<1>0. /\ run.pc = "save" /\ run.half /\ remote' = remote /\ RemoteOK' /\ RemoteGrows
      /\ disk' = [disk EXCEPT ![f] = Head(run.writes).content]
      /\ run \in Processes /\ run.path \in Paths /\ f \in Files
  BY SameRemote, NextWrite DEF FinishWrite
<1>names. /\ "key" \in Files /\ "json" \in Files /\ "wg" \in Files /\ run.path \in Files
          /\ "yaml" \in Files /\ run.path # "key" /\ run.path # "wg"
  BY <1>0 DEF Files, Paths
<1> HIDE DEF f
<1>run. run' \in Processes /\ ~run'.half
  BY FinishFacts
<1>fields. run'.path = run.path /\ run'.set = run.set /\ run'.id = run.id
  BY FinishFacts DEF KeepsAccount
<1>flags. run'.loaded = run.loaded /\ run'.warned = run.warned
  BY FinishFacts DEF KeepsAccount
<1>content. Head(run.writes).content \in File
  BY <1>0, <1>names, FileTypes, NextWrite
     DEF Both, KeyLeft, Split, PubLeft, WGPub, WGSave, Migrate, Pub, Key, Processes, IInv,
         TypesInv, DiskOK
<1>disk. /\ disk'[f] = Head(run.writes).content
         /\ \A g \in Files : g # f => disk'[g] = disk[g]
         /\ DiskOK'
  BY <1>0, <1>content DEF IInv, TypesInv, DiskOK
<1>real. Real(run.id)' /\ RealNext(run.id)
  BY <1>0, <1>fields DEF IInv, RealInv, Real, RealNext
<1>types. TypesInv'
  BY <1>0, <1>run, <1>disk DEF TypesInv, RunOK

\* The invariant holds after a write of x, when the parts that depend on the
\* list do.
<1>rest. ASSUME NEW x, disk'[f] = x, GoodFile(x), f = "key" => x.id.dev \in Devices,
                ShapeInv', StageInv', LoadedInv', KeyInv', SetInv',
                Place' \in {"wgRebind", "wgName"} => run'.dev = run.dev /\ Place = Place',
                run'.pc \notin {"register", "rebind", "enroll"}
         PROVE  IInv'
  <2>files. /\ \A g \in Files : disk'[g].st # "whole" => disk'[g].id = NoIdentity
            /\ \A g \in Files : disk'[g].id = NoIdentity \/ disk'[g].id.dev \in Devices
            /\ \A g \in Files : Real(disk[g].id)'
    BY <1>0, <1>disk, <1>rest, FilesStep
  <2>owned. OwnedInv'
    <3>1. disk'.key.st = "whole" => disk'.key.id.dev \in Devices
      BY <1>disk, <1>rest, <1>names DEF IInv, OwnedInv
    <3> QED BY <1>fields, <2>files, <3>1 DEF IInv, OwnedInv
  <2>real. RealInv'
    BY <1>0, <1>real, <1>rest, <2>files DEF IInv, RealInv
  <2>register. RegisterInv'
    BY <1>rest DEF RegisterInv
  <2> QED BY <1>types, <1>rest, <2>owned, <2>real, <2>register DEF IInv

<1>1. CASE run.after \in {"sni", "reset", "overrides", "serving"} /\ Both /\ f = run.path
  <2> DEFINE x == PublicFile(run.set)
  <2>1. disk'[f] = x /\ GoodFile(x) /\ x.st = "whole" /\ x.set = run.set /\ x.id = NoIdentity
    <3>1. disk'[f] = x
      BY <1>1, <1>disk DEF Both, Pub
    <3>2. GoodFile(x)
      BY GoodFiles
    <3> QED BY <3>1, <3>2 DEF PublicFile
  <2> HIDE DEF x
  <2>2. /\ run'.pc = "save" /\ run'.after = run.after /\ run'.writes = Tail(run.writes)
        /\ (run.strict => run'.strict)
    BY <1>1, FinishFacts
  <2>3. run'.writes = <<Key>> /\ run.loaded /\ Key' = Key /\ Place' = run.after
    BY <1>1, <2>2, <1>fields DEF Both, Key, Place
  <2>4. KeyLeft'
    BY <1>1, <2>1, <2>3, <1>fields, <1>flags DEF KeyLeft, x
  <2>shape. ShapeInv'
    BY <1>0, <1>1, <2>2, <2>4 DEF IInv, ShapeInv
  <2>id. run.id.dev \in Devices /\ run.id # NoIdentity
    BY <1>0, <1>1, StartupAssumption, FileFacts DEF IInv, StageInv, Place
  <2>stage. StageInv'
    BY <1>1, <2>2, <2>3, <2>id, <1>fields, <1>flags DEF StageInv
  <2>key. KeyInv'
    <3>1. disk'.key = disk.key /\ disk'[run'.path].st = "whole"
      BY <1>1, <2>1, <1>disk, <1>names, <1>fields
    <3>2. ~(run.half /\ f = "key") /\ run.after # "mode"
      BY <1>1, <1>names
    <3> QED BY <1>0, <2>2, <2>id, <3>1, <3>2, <1>fields, <1>flags DEF IInv, KeyInv, f
  <2>set. SetInv'
    BY <1>1, <2>1, <1>fields DEF SetInv
  <2> QED BY <1>1, <1>rest, <2>1, <2>2, <2>3, <2>shape, <2>stage, <2>key, <2>set, <1>names
          DEF LoadedInv
<1>2. CASE run.after \in {"sni", "reset", "overrides", "serving"} /\ KeyLeft /\ f = "key"
  <2> DEFINE x == KeyFile(run.id)
  <2>id. run.id.dev \in Devices /\ run.loaded
    BY <1>0, <1>2 DEF IInv, StageInv, Place
  <2>1. disk'[f] = x /\ GoodFile(x) /\ x.st = "whole" /\ x.id = run.id
    <3>1. disk'[f] = x
      BY <1>2, <1>disk DEF KeyLeft, Key
    <3>2. GoodFile(x)
      BY <2>id, <1>real, GoodFiles
    <3> QED BY <3>1, <3>2 DEF KeyFile
  <2> HIDE DEF x
  <2>2. run'.pc = run.after /\ run'.writes = <<>> /\ Place' = run.after
    BY <1>2, FinishFacts DEF Place
  <2>3. disk'[run'.path] = PublicFile(run.set) /\ PublicFile(run.set).st = "whole"
        /\ PublicFile(run.set).set = run.set
    BY ZenonT(60), <1>2, <1>disk, <1>names, <1>fields, FileFacts DEF KeyLeft
  <2>shape. ShapeInv'
    BY <1>2, <2>2, <1>run DEF ShapeInv
  <2>stage. StageInv'
    BY <1>2, <2>2, <2>id, <1>fields, <1>flags DEF StageInv
  <2>key. KeyInv'
    BY <1>2, <2>1, <2>3, <1>fields, <1>flags DEF KeyInv
  <2>set. SetInv'
    BY <2>3, <1>fields DEF SetInv
  <2> QED BY <1>2, <1>rest, <2>id, <2>1, <2>2, <2>shape, <2>stage, <2>key, <2>set DEF LoadedInv
<1>3. CASE run.after = "mode" /\ Split /\ f = "key"
  <2> DEFINE x == KeyFile(run.id)
  <2>id. run.id.dev \in Devices /\ run.loaded
    BY <1>3 DEF Split
  <2>1. disk'[f] = x /\ GoodFile(x) /\ x.st = "whole" /\ x.id = run.id
    <3>1. disk'[f] = x
      BY <1>3, <1>disk DEF Split, Key
    <3>2. GoodFile(x)
      BY <2>id, <1>real, GoodFiles
    <3> QED BY <3>1, <3>2 DEF KeyFile
  <2> HIDE DEF x
  <2>2. /\ run'.pc = "save" /\ run'.after = run.after /\ run'.writes = Tail(run.writes)
        /\ (run.strict => run'.strict)
    BY <1>3, FinishFacts
  <2>3. run'.writes = <<Pub>> /\ Pub' = Pub /\ Place' = "mode" /\ run'.strict
    BY <1>3, <2>2, <1>fields DEF Split, Pub, Place
  <2>4. PubLeft'
    BY <1>3, <2>1, <2>3, <2>id, <1>fields, <1>flags DEF PubLeft, x
  <2>shape. ShapeInv'
    BY <1>3, <2>2, <2>4 DEF ShapeInv
  <2>stage. StageInv'
    BY <1>0, <1>3, <2>2, <2>3, <2>id, <1>fields, <1>flags DEF IInv, StageInv, Place
  <2>key. KeyInv'
    <3>1. disk'[run'.path] = disk[run.path]
      BY <1>3, <1>disk, <1>names, <1>fields
    <3> QED BY <1>0, <1>3, <2>1, <2>2, <2>id, <3>1, <1>fields, <1>flags DEF IInv, KeyInv
  <2>set. SetInv'
    BY <2>2, <2>4 DEF SetInv
  <2> QED BY <1>3, <1>rest, <2>id, <2>1, <2>2, <2>3, <2>shape, <2>stage, <2>key, <2>set
          DEF LoadedInv
<1>4. CASE run.after = "mode" /\ PubLeft /\ f = run.path
  <2> DEFINE x == PublicFile(run.set)
  <2>1. disk'[f] = x /\ GoodFile(x) /\ x.st = "whole" /\ x.set = run.set /\ x.id = NoIdentity
    <3>1. disk'[f] = x
      BY <1>4, <1>disk DEF PubLeft, Pub
    <3>2. GoodFile(x)
      BY GoodFiles
    <3> QED BY <3>1, <3>2 DEF PublicFile
  <2> HIDE DEF x
  <2>2. run'.pc = "mode" /\ run'.writes = <<>> /\ Place' = "mode" /\ run.loaded
    BY <1>4, FinishFacts DEF Place, PubLeft
  <2>3. disk'.key.st = "whole" /\ disk'.key.id = run.id
    BY <1>4, <1>disk, <1>names DEF PubLeft, KeyFile
  <2>shape. ShapeInv'
    BY <2>2, <1>run DEF ShapeInv
  <2>stage. StageInv'
    BY <1>0, <1>4, <2>2, <1>fields, <1>flags DEF IInv, StageInv, Place
  <2>loaded. LoadedInv'
    BY <2>3, <1>fields DEF LoadedInv
  <2>key. KeyInv'
    BY <1>4, <2>1, <2>3, <1>fields DEF KeyInv
  <2>set. SetInv'
    BY <1>4, <2>1, <1>fields DEF SetInv
  <2> QED BY <1>4, <1>rest, <1>names, <2>1, <2>2, <2>shape, <2>stage, <2>loaded, <2>key, <2>set
<1>5. CASE run.after = "wgAccount" /\ WGPub /\ f = run.path
  <2> DEFINE x == PublicFile(run.set)
  <2>1. disk'[f] = x /\ GoodFile(x) /\ x.st = "whole" /\ x.set = run.set /\ x.id = NoIdentity
    <3>1. disk'[f] = x
      BY <1>5, <1>disk DEF WGPub, Pub
    <3>2. GoodFile(x)
      BY GoodFiles
    <3> QED BY <3>1, <3>2 DEF PublicFile
  <2> HIDE DEF x
  <2>2. run'.pc = "wgAccount" /\ run'.writes = <<>> /\ Place' = "wgAccount"
    BY <1>5, FinishFacts DEF Place
  <2>shape. ShapeInv'
    BY <2>2, <1>run DEF ShapeInv
  <2>stage. StageInv'
    BY <1>0, <2>2, <1>fields, <1>flags DEF IInv, StageInv
  <2>key. KeyInv'
    <3>1. disk'.key = disk.key /\ disk'[run'.path] = x
      BY <1>5, <2>1, <1>disk, <1>names, <1>fields
    <3>2. ~(run.half /\ f = "key")
      BY <1>5, <1>names
    <3> QED BY <1>0, <1>5, <2>1, <2>2, <3>1, <3>2, <1>fields, <1>flags DEF IInv, KeyInv, f
  <2>set. SetInv'
    BY <1>5, <2>1, <1>fields DEF SetInv
  <2> QED BY <1>5, <1>rest, <1>names, <2>1, <2>2, <2>shape, <2>stage, <2>key, <2>set DEF LoadedInv
<1>6. CASE run.after = "wgName" /\ WGSave /\ f = "wg"
  <2> DEFINE x == WGAccount(run.dev)
  <2>dev. run.dev \in Devices /\ remote[run.dev].enrolled
    BY <1>0, <1>6 DEF IInv, RealInv, Place
  <2>1. disk'[f] = x /\ x.st = "whole" /\ x.id.dev = run.dev /\ x.id.mode = ""
        /\ x.id.license = "own"
    <3>1. disk'[f] = x
      BY <1>6, <1>disk DEF WGSave
    <3> QED BY <3>1, FileFacts
  <2> HIDE DEF x
  <2>good. GoodFile(x)
    BY <1>0, <2>dev, <2>1 DEF GoodFile, RealNext
  <2>2. /\ run'.pc = "wgName" /\ run'.writes = <<>> /\ Place' = "wgName" /\ run'.dev = run.dev
        /\ Place = "wgName"
    BY <1>0, <1>6, FinishFacts DEF Place
  <2>3. disk'.key = disk.key /\ disk'[run'.path] = disk[run.path]
    BY <1>6, <1>disk, <1>names, <1>fields
  <2>shape. ShapeInv'
    BY <2>2, <1>run DEF ShapeInv
  <2>stage. StageInv'
    BY <1>0, <2>2, <1>fields, <1>flags DEF IInv, StageInv
  <2>key. KeyInv'
    <3>1. ~(run.half /\ f = "key")
      BY <1>6
    <3> QED BY <1>0, <1>6, <2>2, <2>3, <3>1, <1>fields, <1>flags DEF IInv, KeyInv, f
  <2>set. SetInv'
    <3>1. ~(Both \/ PubLeft \/ WGPub)
      BY <1>6, <1>names DEF Both, PubLeft, WGPub, Pub, f
    <3>2. ~Split
      BY <1>6 DEF Split, Key, f
    <3> QED BY <1>0, <2>3, <3>1, <3>2, <1>fields, <1>flags DEF IInv, SetInv
  <2> QED BY <1>6, <1>rest, <2>good, <2>1, <2>2, <2>shape, <2>stage, <2>key, <2>set DEF LoadedInv
<1>7. CASE run.after = "rename" /\ Migrate /\ f = "yaml" /\ ~run.loaded
  <2> DEFINE x == disk.json
  <2>1. disk'[f] = x
    BY <1>7, <1>disk DEF Migrate
  <2> HIDE DEF x
  <2>good. GoodFile(x)
    BY <1>0, <1>names DEF IInv, OwnedInv, RealInv, Real, GoodFile, RealNext, x
  <2>2. run'.pc = "rename" /\ run'.writes = <<>> /\ Place' = "rename" /\ Place = "rename"
    BY <1>0, <1>7, FinishFacts DEF Place
  <2>shape. ShapeInv'
    BY <2>2, <1>run DEF ShapeInv
  <2>stage. StageInv'
    BY <1>0, <1>7, <2>2, <1>fields, <1>flags DEF IInv, StageInv
  <2>loaded. LoadedInv' /\ KeyInv' /\ SetInv'
    BY <1>7, <1>flags DEF LoadedInv, KeyInv, SetInv
  <2> QED BY <1>7, <1>rest, <2>good, <2>1, <2>2, <2>shape, <2>stage, <2>loaded
<1> QED BY <1>0, <1>1, <1>2, <1>3, <1>4, <1>5, <1>6, <1>7, NextWrite DEF f

\* A save that failed is given up, and the process goes on.
Dropped(r) == [r EXCEPT !.writes = <<>>, !.half = FALSE, !.warned = TRUE]

\* A process that gives a save up keeps its account and has warned.
LEMMA DroppedFacts ==
  ASSUME NEW r \in Processes, NEW q, q = Dropped(r)
  PROVE  /\ q \in Processes /\ q.after = r.after /\ q.writes = <<>> /\ ~q.half /\ q.warned
         /\ q.path = r.path /\ q.set = r.set /\ q.id = r.id
<1> DEFINE none == <<>>
<1>0. none \in Seq([file : Files, content : File])
  OBVIOUS
<1>w. q = [r EXCEPT !.writes = none, !.half = FALSE, !.warned = TRUE]
  BY DEF Dropped
<1> HIDE DEF none
<1>1. q \in Processes
  BY <1>0, <1>w DEF Processes
<1>2. q.after = r.after /\ q.writes = <<>> /\ q.path = r.path /\ q.set = r.set /\ q.id = r.id
  BY DEF Dropped, Processes
<1>3. ~q.half
  BY DEF Dropped, Processes
<1>4. q.warned
  BY DEF Dropped, Processes
<1> QED BY <1>1, <1>2, <1>3, <1>4

\* A failed write ends the process, or a save that only warns is given up.
LEMMA WriteFailsKeeps ==
  ASSUME IInv, WriteFails
  PROVE  IInv'
<1> DEFINE f == Head(run.writes).file
<1>0. /\ run.pc = "save" /\ remote' = remote /\ RemoteOK' /\ RemoteGrows
      /\ disk' = disk \/ disk' = [disk EXCEPT ![f] = Broken("cut")]
      /\ run \in Processes /\ run.path \in Paths /\ f \in Files
  BY SameRemote, NextWrite DEF WriteFails
<1> HIDE DEF f
<1>names. "key" \in Files /\ run.path \in Files /\ run.path # "key"
  BY <1>0 DEF Files, Paths
<1>cut. Broken("cut").st = "cut" /\ Broken("cut").id = NoIdentity /\ GoodFile(Broken("cut"))
  <2>1. GoodFile(Broken("cut"))
    BY GoodFiles
  <2> QED BY <2>1 DEF Broken
<1>disk. /\ \A g \in Files : disk'[g] = disk[g] \/ (g = f /\ disk'[g] = Broken("cut"))
         /\ DiskOK'
  <2>1. CASE disk' = disk
    BY <2>1 DEF IInv, TypesInv, DiskOK
  <2>2. CASE disk' = [disk EXCEPT ![f] = Broken("cut")]
    BY <1>0, <2>2, FileTypes DEF IInv, TypesInv, DiskOK
  <2> QED BY <1>0, <2>1, <2>2
<1>good. \A g \in Files : disk'[g] = disk[g] \/ GoodFile(disk'[g])
  BY <1>cut, <1>disk
<1>whole. disk'.key.st = "whole" => disk'.key.id.dev \in Devices
  BY <1>cut, <1>disk, <1>names DEF IInv, OwnedInv
<1>1. CASE run.strict
  <2>1. run' = Down
    BY <1>1 DEF WriteFails
  <2> QED BY <1>0, <1>disk, <1>good, <1>whole, <2>1, FreshStep, DownFacts
<1>2. CASE ~run.strict
  <2>r. PICK r : r = Dropped(run)
    OBVIOUS
  <2>1. /\ r \in Processes /\ r.after = run.after /\ r.writes = <<>> /\ ~r.half /\ r.warned
        /\ r.path = run.path /\ r.set = run.set /\ r.id = run.id
    BY <1>0, <2>r, DroppedFacts
  <2>2. r.loaded = run.loaded
    BY <1>0, <2>r DEF Dropped, Processes
  <2>3. run' = Resume(r)
    BY <1>2, <2>r DEF WriteFails, Dropped
  <2>4. /\ run' \in Processes /\ run'.pc = r.after /\ KeepsAccount(run', r)
        /\ r.after # "serving" => run'.writes = r.writes /\ Keeps(run', r)
        /\ r.after = "serving" => run'.writes = <<>> /\ ~run'.half
    BY <2>1, <2>3, ResumeFacts
  <2>5. run'.writes = <<>> /\ ~run'.half
    BY <2>1, <2>4 DEF Keeps
  <2>6. run'.path = run.path /\ run'.set = run.set /\ run'.id = run.id /\ run'.warned
    BY <2>1, <2>4 DEF KeepsAccount
  <2>7. run'.loaded = run.loaded
    BY <2>2, <2>4 DEF KeepsAccount
  <2>after. run.after \in {"reset", "overrides", "serving", "wgAccount"} /\ run.after = Place
    BY <1>0, <1>2, NextWrite DEF IInv, ShapeInv, Split, PubLeft, WGSave, Migrate, Place
  <2>place. Place' = run.after /\ run'.pc = run.after
    BY <2>1, <2>4, <2>after DEF Place
  <2>files. /\ \A g \in Files : disk'[g].st # "whole" => disk'[g].id = NoIdentity
            /\ \A g \in Files : disk'[g].id = NoIdentity \/ disk'[g].id.dev \in Devices
            /\ \A g \in Files : Real(disk[g].id)'
    BY <1>0, <1>good, FilesStep
  <2>types. TypesInv'
    BY <1>0, <1>disk, <2>4 DEF TypesInv, RunOK
  <2>shape. ShapeInv'
    BY <2>5, <2>after, <2>place DEF ShapeInv
  <2>owned. OwnedInv'
    BY <1>whole, <2>files, <2>6 DEF IInv, OwnedInv
  <2>stage. StageInv'
    BY <1>0, <2>after, <2>place, <2>6, <2>7 DEF IInv, StageInv
  <2>loaded. LoadedInv' /\ RegisterInv' /\ SetInv'
    BY <2>after, <2>place, <2>6 DEF LoadedInv, RegisterInv, SetInv
  <2>key. KeyInv'
    <3>1. SUFFICES ASSUME run.loaded
                   PROVE  KeyInv'
      BY <2>7 DEF KeyInv
    <3>2. disk'[run.path].st # "absent"
      BY <3>1, <1>0, <1>cut, <1>disk, <1>names, <2>after DEF IInv, KeyInv
    <3>3. disk'[run.path].id = NoIdentity \/ disk'[run.path].id = disk[run.path].id
      BY <1>cut, <1>disk, <1>names
    <3>4. disk'.key = disk.key \/ disk'.key.st = "cut"
      BY <1>cut, <1>disk, <1>names
    <3> QED BY <3>1, <3>2, <3>3, <3>4, <1>0, <2>after, <2>6 DEF IInv, KeyInv
  <2>real. RealInv'
    <3>1. Real(run.id)'
      BY <1>0, <2>6 DEF IInv, RealInv, Real
    <3> QED BY <3>1, <1>0, <2>files, <2>after, <2>place DEF IInv, RealInv
  <2> QED BY <2>types, <2>shape, <2>owned, <2>stage, <2>loaded, <2>key, <2>real DEF IInv
<1> QED BY <1>1, <1>2

-----------------------------------------------------------------------------
(* runProxyWGMode *)

\* The flags change settings to settings, and nothing when none is given.
LEMMA OverriddenFacts ==
  ASSUME IInv
  PROVE  Overridden \in Settings /\ (~ConfigChanged => Overridden = run.set)
<1>1. run.set \in Settings /\ run.cmd \in CommandLine
  <2>1. Down.cmd \in CommandLine
    BY DEF CommandLine, Down
  <2> QED BY <2>1 DEF IInv, TypesInv, RunOK, Processes
<1> DEFINE c == run.set.custom \/ run.cmd.port
           g == IF run.cmd.wg = "unset" THEN run.set.wg ELSE run.cmd.wg = "on"
           l == run.set.l4 \/ run.cmd.l4
<1>2. c \in BOOLEAN /\ l \in BOOLEAN
  BY <1>1
<1>3. g \in BOOLEAN
  BY <1>1 DEF Settings
<1>4. Overridden = [custom |-> c, wg |-> g, l4 |-> l]
  BY DEF Overridden
<1>5. ASSUME ~ConfigChanged
      PROVE  c = run.set.custom /\ g = run.set.wg /\ l = run.set.l4
  <2>1. ~run.cmd.port /\ ~run.cmd.l4 /\ run.cmd.wg = "unset"
    BY <1>5 DEF ConfigChanged
  <2>2. run.set.custom \in BOOLEAN /\ run.set.l4 \in BOOLEAN
    BY <1>1 DEF Settings
  <2> QED BY <2>1, <2>2
<1> HIDE DEF c, g, l
<1>6. Overridden \in Settings
  BY <1>2, <1>3, <1>4 DEF Settings
<1>7. ~ConfigChanged => Overridden = run.set
  BY <1>1, <1>4, <1>5 DEF Settings
<1> QED BY <1>6, <1>7

\* A step outside a save that keeps the account, to a place without claims of
\* its own.
LEMMA QuietMove ==
  ASSUME IInv, disk' = disk, RemoteOK', RemoteGrows, run' \in Processes,
         run.pc # "save", run.pc # "down", run'.pc \in {"wgAccount", "serving"},
         run'.writes = <<>>, ~run'.half, KeepsAccount(run', run)
  PROVE  IInv'
<1>1. run'.path = run.path /\ run'.set = run.set /\ run'.id = run.id
  BY DEF KeepsAccount
<1>2. run'.loaded = run.loaded /\ run'.warned = run.warned
  BY DEF KeepsAccount
<1>q. /\ TypesInv' /\ ShapeInv' /\ OwnedInv' /\ KeyInv' /\ SetInv' /\ Place' = run'.pc
      /\ \A f \in Files : Real(disk[f].id)'
      /\ Real(run.id)'
  BY <1>1, <1>2, QuietStep
<1>3. StageInv'
  BY <1>q, <1>1, <1>2 DEF IInv, StageInv
<1>4. LoadedInv' /\ RegisterInv'
  BY DEF LoadedInv, RegisterInv
<1>5. RealInv'
  BY <1>q DEF RealInv, RemoteGrows
<1> QED BY <1>q, <1>3, <1>4, <1>5 DEF IInv

\* Choosing WG mode saves the public config alone.
LEMMA WGModeKeeps ==
  ASSUME IInv, RunProxyWGMode
  PROVE  IInv'
<1>0. /\ run.pc = "mode" /\ disk' = disk /\ remote' = remote /\ RemoteOK' /\ RemoteGrows
      /\ run \in Processes /\ run.writes = <<>> /\ ~run.half
  BY SameRemote DEF RunProxyWGMode, IInv, TypesInv, RunOK, ShapeInv
<1>r. PICK r : r = [run EXCEPT !.set = Overridden, !.pc = "wgAccount"]
  OBVIOUS
<1>1. /\ r \in Processes /\ r.pc = "wgAccount" /\ r.set = Overridden
      /\ r.path = run.path /\ r.id = run.id /\ r.writes = <<>>
  <2>1. r \in Processes
    BY <1>0, <1>r, OverriddenFacts DEF Processes, Places
  <2> QED BY <1>0, <1>r, <2>1 DEF Processes
<1>2. r.loaded = run.loaded
  BY <1>0, <1>r DEF Processes
<1>3. ~r.half
  BY <1>0, <1>r DEF Processes
<1>4. r.warned = run.warned
  BY <1>0, <1>r DEF Processes
<1>5. CASE Exit
  BY <1>0, <1>5, ExitStep
<1>6. CASE ~ConfigChanged /\ run' = r
  <2>1. KeepsAccount(r, run)
    BY <1>1, <1>2, <1>4, <1>6, OverriddenFacts DEF KeepsAccount
  <2> QED BY <1>0, <1>1, <1>3, <1>6, <2>1, QuietMove
<1>7. CASE run' = SavePublicConfig(r, "wgAccount")
  <2>0. "wgAccount" \in Places
    BY DEF Places
  <2>1. /\ run' \in Processes /\ run'.pc = "save" /\ run'.after = "wgAccount" /\ ~run'.strict
        /\ run'.writes = << [file |-> r.path, content |-> PublicFile(r.set)] >>
        /\ Keeps(run', r)
    BY <1>1, <1>7, <2>0, SavePublicFacts
  <2>2. run'.path = run.path /\ run'.set = r.set /\ run'.id = run.id
    BY <1>1, <2>1 DEF Keeps, KeepsAccount
  <2>3. run'.loaded = run.loaded
    BY <1>2, <2>1 DEF Keeps, KeepsAccount
  <2>4. run'.warned = run.warned
    BY <1>4, <2>1 DEF Keeps, KeepsAccount
  <2>pub. WGPub' /\ Place' = "wgAccount"
    BY <1>1, <2>1, <2>2 DEF WGPub, Pub, Place
  <2>types. TypesInv'
    BY <1>0, <2>1 DEF IInv, TypesInv, RunOK, DiskOK
  <2>shape. ShapeInv'
    BY <2>1, <2>pub DEF ShapeInv
  <2>owned. OwnedInv'
    BY <1>0, <2>2 DEF IInv, OwnedInv
  <2>stage. StageInv'
    BY <2>1, <2>2, <2>3, <2>pub DEF IInv, StageInv
  <2>loaded. LoadedInv' /\ RegisterInv'
    BY <2>1 DEF LoadedInv, RegisterInv
  <2>key. KeyInv'
    BY <1>0, <2>1, <2>2, <2>3, <2>4 DEF IInv, KeyInv
  <2>set. SetInv'
    BY <2>1, <2>pub DEF SetInv
  <2>real. RealInv'
    <3>1. Real(run.id)'
      BY <1>0, <2>2 DEF IInv, RealInv, Real
    <3>2. \A f \in Files : Real(disk[f].id)'
      BY <1>0 DEF IInv, RealInv, Real
    <3> QED BY <3>1, <3>2, <1>0, <2>1, <2>pub DEF IInv, RealInv
  <2> QED BY <2>types, <2>shape, <2>owned, <2>stage, <2>loaded, <2>key, <2>set, <2>real DEF IInv
<1> QED BY <1>r, <1>5, <1>6, <1>7 DEF RunProxyWGMode

\* Looking for wg-account.json changes no file.
LEMMA EnsureWGAccountKeeps ==
  ASSUME IInv, EnsureWGAccount
  PROVE  IInv'
<1>0. /\ run.pc = "wgAccount" /\ disk' = disk /\ remote' = remote /\ RemoteOK' /\ RemoteGrows
      /\ run \in Processes /\ run.writes = <<>> /\ ~run.half
  BY SameRemote DEF EnsureWGAccount, IInv, TypesInv, RunOK, ShapeInv
<1>1. CASE run' = Serving(run)
  BY <1>0, <1>1, ServingFacts, QuietMove
<1>2. CASE ~WGAccountIsValid /\ run' = [run EXCEPT !.pc = "wgTerms"]
  <2>0. "wgTerms" \in Places
    BY DEF Places
  <2>1. run' \in Processes /\ run'.pc = "wgTerms" /\ run'.writes = run.writes /\ Keeps(run', run)
    BY <1>0, <1>2, <2>0, MoveFacts
  <2>2. run'.path = run.path /\ run'.set = run.set /\ run'.id = run.id
    BY <2>1 DEF Keeps, KeepsAccount
  <2>3. run'.loaded = run.loaded /\ run'.warned = run.warned /\ ~run'.half
    BY <1>0, <2>1 DEF Keeps, KeepsAccount
  <2>q. /\ TypesInv' /\ ShapeInv' /\ OwnedInv' /\ KeyInv' /\ SetInv' /\ Place' = run'.pc
        /\ \A f \in Files : Real(disk[f].id)'
        /\ Real(run.id)'
    BY <1>0, <2>1, <2>2, <2>3, QuietStep
  <2>4. StageInv'
    BY <1>0, <1>2, <2>q, <2>1, <2>2, <2>3 DEF IInv, StageInv, WGAccountIsValid
  <2>5. LoadedInv' /\ RegisterInv'
    BY <2>1 DEF LoadedInv, RegisterInv
  <2>6. RealInv'
    BY <1>0, <2>q, <2>1 DEF RealInv, RemoteGrows
  <2> QED BY <2>q, <2>4, <2>5, <2>6 DEF IInv
<1> QED BY <1>1, <1>2 DEF EnsureWGAccount

\* Accepting the terms changes no file.
LEMMA WGTermsKeeps ==
  ASSUME IInv, EnsureWGAcceptedTOS
  PROVE  IInv'
<1>0. /\ run.pc = "wgTerms" /\ disk' = disk /\ remote' = remote /\ RemoteOK' /\ RemoteGrows
      /\ run \in Processes /\ run.writes = <<>> /\ ~run.half
  BY SameRemote DEF EnsureWGAcceptedTOS, IInv, TypesInv, RunOK, ShapeInv
<1>1. CASE Exit
  BY <1>0, <1>1, ExitStep
<1>2. CASE run' = [run EXCEPT !.pc = "wgRegister"]
  <2>0. "wgRegister" \in Places
    BY DEF Places
  <2>1. /\ run' \in Processes /\ run'.pc = "wgRegister" /\ run'.writes = run.writes
        /\ Keeps(run', run)
    BY <1>0, <1>2, <2>0, MoveFacts
  <2>2. run'.path = run.path /\ run'.set = run.set /\ run'.id = run.id
    BY <2>1 DEF Keeps, KeepsAccount
  <2>3. run'.loaded = run.loaded /\ run'.warned = run.warned /\ ~run'.half
    BY <1>0, <2>1 DEF Keeps, KeepsAccount
  <2>q. /\ TypesInv' /\ ShapeInv' /\ OwnedInv' /\ KeyInv' /\ SetInv' /\ Place' = run'.pc
        /\ \A f \in Files : Real(disk[f].id)'
        /\ Real(run.id)'
    BY <1>0, <2>1, <2>2, <2>3, QuietStep
  <2>4. StageInv'
    BY <1>0, <2>q, <2>1, <2>2, <2>3 DEF IInv, StageInv
  <2>5. LoadedInv' /\ RegisterInv'
    BY <2>1 DEF LoadedInv, RegisterInv
  <2>6. RealInv'
    BY <1>0, <2>q, <2>1 DEF RealInv, RemoteGrows
  <2> QED BY <2>q, <2>4, <2>5, <2>6 DEF IInv
<1> QED BY <1>1, <1>2 DEF EnsureWGAcceptedTOS, Goto

\* Naming the WG device changes no file.
LEMMA WGNameKeeps ==
  ASSUME IInv, WGSetDeviceName
  PROVE  IInv'
<1>0. /\ run.pc = "wgName" /\ disk' = disk /\ remote' = remote /\ RemoteOK' /\ RemoteGrows
      /\ run \in Processes /\ run.writes = <<>> /\ ~run.half
  BY SameRemote DEF WGSetDeviceName, IInv, TypesInv, RunOK, ShapeInv
<1>1. CASE Exit
  BY <1>0, <1>1, ExitStep
<1>2. CASE run' = Serving(run)
  BY <1>0, <1>2, ServingFacts, QuietMove
<1> QED BY <1>1, <1>2 DEF WGSetDeviceName

-----------------------------------------------------------------------------
(* The registration API *)

\* A device that was not there is registered.
LEMMA RemoteRegisters ==
  ASSUME IInv, NEW d \in Devices, remote[d].kind = "none", NEW team \in BOOLEAN,
         NEW enrolled \in BOOLEAN, remote' = [remote EXCEPT ![d] = NewRecord(team, enrolled)]
  PROVE  /\ RemoteOK' /\ RemoteGrows
         /\ remote'[d].kind # "none" /\ (team => remote'[d].kind = "team")
         /\ enrolled => remote'[d].enrolled
<1> DEFINE x == NewRecord(team, enrolled)
<1>1. x \in Records /\ x.kind # "none" /\ (team => x.kind = "team") /\ x.enrolled = enrolled
  BY DEF NewRecord, Records
<1>2. remote \in [Devices -> Records] /\ ~remote[d].enrolled
  BY DEF IInv, TypesInv, RemoteOK, RealInv
<1> HIDE DEF x
<1>3. remote' \in [Devices -> Records] /\ remote'[d] = x
  BY <1>1, <1>2 DEF x
<1>4. \A e \in Devices : e # d => remote'[e] = remote[e]
  BY <1>2
<1>5. RemoteGrows
  <2> SUFFICES ASSUME NEW e \in Devices
               PROVE  /\ remote[e].enrolled =>
                           /\ remote'[e].enrolled
                           /\ remote[e].license = "warp" => remote'[e].license = "warp"
                           /\ remote[e].kind = "team" => remote'[e].kind = "team"
                      /\ remote'[e].kind = "none" => ~remote'[e].enrolled
    BY DEF RemoteGrows
  <2>1. CASE e = d
    BY <2>1, <1>1, <1>2, <1>3
  <2>2. CASE e # d
    BY <2>2, <1>4 DEF IInv, RealInv
  <2> QED BY <2>1, <2>2
<1> QED BY <1>1, <1>3, <1>5 DEF RemoteOK

\* A license is bound.
LEMMA RemoteRebinds ==
  ASSUME IInv, NEW d \in Devices, remote' = [remote EXCEPT ![d].license = "warp"]
  PROVE  /\ RemoteOK' /\ RemoteGrows
         /\ remote'[d].license = "warp" /\ remote'[d].kind = remote[d].kind
         /\ remote[d].enrolled => remote'[d].enrolled
<1>1. remote \in [Devices -> Records]
  BY DEF IInv, TypesInv, RemoteOK
<1> DEFINE x == [remote[d] EXCEPT !.license = "warp"]
<1>2. x \in Records /\ x.license = "warp" /\ x.kind = remote[d].kind
  BY <1>1 DEF Records
<1>3. x.enrolled = remote[d].enrolled
  BY <1>1 DEF Records
<1>4. remote' = [remote EXCEPT ![d] = x]
  BY <1>1
<1> HIDE DEF x
<1>5. remote' \in [Devices -> Records] /\ remote'[d] = x
  BY <1>1, <1>2, <1>4
<1>6. \A e \in Devices : e # d => remote'[e] = remote[e]
  BY <1>1, <1>4
<1>7. RemoteGrows
  <2> SUFFICES ASSUME NEW e \in Devices
               PROVE  /\ remote[e].enrolled =>
                           /\ remote'[e].enrolled
                           /\ remote[e].license = "warp" => remote'[e].license = "warp"
                           /\ remote[e].kind = "team" => remote'[e].kind = "team"
                      /\ remote'[e].kind = "none" => ~remote'[e].enrolled
    BY DEF RemoteGrows
  <2>1. CASE e = d
    BY <2>1, <1>2, <1>3, <1>5 DEF IInv, RealInv
  <2>2. CASE e # d
    BY <2>2, <1>6 DEF IInv, RealInv
  <2> QED BY <2>1, <2>2
<1> QED BY <1>2, <1>3, <1>5, <1>7 DEF RemoteOK

\* A key is enrolled, for a device that is there.
LEMMA RemoteEnrolls ==
  ASSUME IInv, NEW d \in Devices, remote[d].kind # "none",
         remote' = [remote EXCEPT ![d].enrolled = TRUE]
  PROVE  /\ RemoteOK' /\ RemoteGrows
         /\ remote'[d].enrolled /\ remote'[d].kind = remote[d].kind
         /\ remote'[d].license = remote[d].license
<1>1. remote \in [Devices -> Records]
  BY DEF IInv, TypesInv, RemoteOK
<1> DEFINE x == [remote[d] EXCEPT !.enrolled = TRUE]
<1>2. x \in Records /\ x.license = remote[d].license /\ x.kind = remote[d].kind
  BY <1>1 DEF Records
<1>3. x.enrolled
  BY <1>1 DEF Records
<1>4. remote' = [remote EXCEPT ![d] = x]
  BY <1>1
<1> HIDE DEF x
<1>5. remote' \in [Devices -> Records] /\ remote'[d] = x
  BY <1>1, <1>2, <1>4
<1>6. \A e \in Devices : e # d => remote'[e] = remote[e]
  BY <1>1, <1>4
<1>7. RemoteGrows
  <2> SUFFICES ASSUME NEW e \in Devices
               PROVE  /\ remote[e].enrolled =>
                           /\ remote'[e].enrolled
                           /\ remote[e].license = "warp" => remote'[e].license = "warp"
                           /\ remote[e].kind = "team" => remote'[e].kind = "team"
                      /\ remote'[e].kind = "none" => ~remote'[e].enrolled
    BY DEF RemoteGrows
  <2>1. CASE e = d
    BY <2>1, <1>2, <1>3, <1>5 DEF IInv, RealInv
  <2>2. CASE e # d
    BY <2>2, <1>6 DEF IInv, RealInv
  <2> QED BY <2>1, <2>2
<1> QED BY <1>2, <1>3, <1>5, <1>7 DEF RemoteOK

\* A refused registration ends the process.
LEMMA RefusedKeeps ==
  ASSUME IInv, RegisterRefused
  PROVE  IInv'
  BY ExitStep, SameRemote DEF RegisterRefused

\* A new device is known to the API before the process works with it.
LEMMA RegisterKeeps ==
  ASSUME IInv, NEW d \in Devices, Register(d)
  PROVE  IInv'
<1>0. /\ run.pc = "register" /\ disk' = disk /\ remote[d].kind = "none"
      /\ run \in Processes /\ run.writes = <<>> /\ ~run.half
      /\ remote' = [remote EXCEPT ![d] = NewRecord(run.mode = "team", FALSE)]
  BY DEF Register, IInv, TypesInv, RunOK, ShapeInv
<1>remote. /\ RemoteOK' /\ RemoteGrows /\ remote'[d].kind # "none"
           /\ run.mode = "team" => remote'[d].kind = "team"
  <2> DEFINE team == run.mode = "team"
  <2>1. team \in BOOLEAN /\ remote' = [remote EXCEPT ![d] = NewRecord(team, FALSE)]
    BY <1>0
  <2> HIDE DEF team
  <2>2. /\ RemoteOK' /\ RemoteGrows /\ remote'[d].kind # "none"
        /\ team => remote'[d].kind = "team"
    BY <1>0, <2>1, RemoteRegisters
  <2> QED BY <2>2 DEF team
<1>1. CASE Exit
  BY <1>0, <1>1, <1>remote, ExitStep
<1>2. CASE run' = Registered(run, d)
  <2> DEFINE p == IF run.mode = "premium" THEN "rebind" ELSE "enroll"
  <2>1. run' = [run EXCEPT !.dev = d, !.pc = p] /\ p \in {"rebind", "enroll"}
    BY <1>2 DEF Registered
  <2>p. p = "enroll" => run.mode # "premium"
    OBVIOUS
  <2> HIDE DEF p
  <2>2. run' \in Processes
    BY <1>0, <2>1 DEF Processes, Places
  <2>3. /\ run'.pc = p /\ run'.dev = d /\ run'.mode = run.mode /\ run'.id = run.id
        /\ run'.path = run.path /\ run'.set = run.set /\ run'.writes = <<>>
    BY <1>0, <2>1 DEF Processes
  <2>4. run'.loaded = run.loaded
    BY <1>0, <2>1 DEF Processes
  <2>5. run'.warned = run.warned
    BY <1>0, <2>1 DEF Processes
  <2>6. ~run'.half
    BY <1>0, <2>1 DEF Processes
  <2>q. /\ TypesInv' /\ ShapeInv' /\ OwnedInv' /\ KeyInv' /\ SetInv' /\ Place' = run'.pc
        /\ \A f \in Files : Real(disk[f].id)'
        /\ Real(run.id)'
    BY <1>0, <1>remote, <2>1, <2>2, <2>3, <2>4, <2>5, <2>6, QuietStep
  <2>stage. StageInv'
    BY <2>q, <2>1, <2>3, <2>4 DEF IInv, StageInv
  <2>loaded. LoadedInv' /\ RegisterInv'
    BY <2>1, <2>3 DEF LoadedInv, RegisterInv
  <2>real. RealInv'
    BY <1>remote, <2>p, <2>q, <2>1, <2>3 DEF RealInv, RemoteGrows
  <2> QED BY <2>q, <2>stage, <2>loaded, <2>real DEF IInv
<1> QED BY <1>1, <1>2 DEF Register

\* A step that starts the save of a WG account.
LEMMA SaveWGStep ==
  ASSUME IInv, disk' = disk, RemoteOK', RemoteGrows, NEW r \in Processes,
         run' = SaveWGAccount(r), run.pc \in {"wgRegister", "wgRebind"}, ~r.half,
         KeepsAccount(r, run), r.dev \in Devices, remote'[r.dev].enrolled
  PROVE  IInv'
<1>1. /\ run' \in Processes /\ run'.pc = "save" /\ run'.after = "wgName" /\ run'.strict
      /\ run'.writes = << [file |-> "wg", content |-> WGAccount(r.dev)] >> /\ Keeps(run', r)
  BY SaveWGFacts
<1>2. run'.path = run.path /\ run'.set = run.set /\ run'.id = run.id /\ run'.dev = r.dev
  BY <1>1 DEF Keeps, KeepsAccount
<1>3. run'.loaded = run.loaded
  BY <1>1 DEF Keeps, KeepsAccount
<1>4. run'.warned = run.warned
  BY <1>1 DEF Keeps, KeepsAccount
<1>wg. WGSave' /\ Place' = "wgName"
  BY <1>1, <1>2 DEF WGSave, Place
<1>types. TypesInv'
  BY <1>1 DEF IInv, TypesInv, RunOK, DiskOK
<1>shape. ShapeInv'
  BY <1>1, <1>wg DEF ShapeInv
<1>owned. OwnedInv'
  BY <1>2 DEF IInv, OwnedInv
<1>stage. StageInv'
  BY <1>1, <1>2, <1>3, <1>wg DEF IInv, StageInv
<1>loaded. LoadedInv' /\ RegisterInv'
  BY <1>1 DEF LoadedInv, RegisterInv
<1>key. KeyInv'
  BY <1>1, <1>2, <1>3, <1>4 DEF IInv, KeyInv, ShapeInv
<1>set. SetInv'
  BY <1>1, <1>2, <1>3, <1>4 DEF IInv, SetInv
<1>real. RealInv'
  <2>1. \A f \in Files : Real(disk[f].id)'
    BY IdTypes, RealGrows DEF IInv, RealInv, Real, RealNext
  <2>2. Real(run.id)'
    BY <1>2, IdTypes, RealGrows DEF IInv, RealInv, Real, RealNext
  <2> QED BY <1>1, <1>2, <1>wg, <2>1, <2>2 DEF RealInv, RemoteGrows
<1> QED BY <1>types, <1>shape, <1>owned, <1>stage, <1>loaded, <1>key, <1>set, <1>real DEF IInv

\* A new WG device is enrolled by its registration.
LEMMA RegisterWGKeeps ==
  ASSUME IInv, NEW d \in Devices, RegisterWireGuardDevice(d)
  PROVE  IInv'
<1>0. /\ run.pc = "wgRegister" /\ disk' = disk /\ remote[d].kind = "none"
      /\ run \in Processes /\ run.writes = <<>> /\ ~run.half
      /\ remote' = [remote EXCEPT ![d] = NewRecord(run.cmd.jwt, TRUE)]
  BY DEF RegisterWireGuardDevice, IInv, TypesInv, RunOK, ShapeInv
<1>remote. RemoteOK' /\ RemoteGrows /\ remote'[d].enrolled
  <2>1. Down.cmd \in CommandLine
    BY DEF CommandLine, Down
  <2>2. run.cmd \in CommandLine
    BY <1>0, <2>1 DEF Processes
  <2> DEFINE team == run.cmd.jwt
             enrolled == TRUE
  <2>3. team \in BOOLEAN
    BY <2>2 DEF CommandLine
  <2>4. enrolled \in BOOLEAN /\ remote' = [remote EXCEPT ![d] = NewRecord(team, enrolled)]
    BY <1>0
  <2> HIDE DEF team, enrolled
  <2>5. RemoteOK' /\ RemoteGrows /\ (enrolled => remote'[d].enrolled)
    BY <1>0, <2>3, <2>4, RemoteRegisters
  <2> QED BY <2>5 DEF enrolled
<1>r. PICK r : r = [run EXCEPT !.dev = d]
  OBVIOUS
<1>1. r \in Processes /\ r.dev = d /\ ~r.half
  <2>1. r \in Processes /\ r.dev = d
    BY <1>0, <1>r DEF Processes
  <2>2. ~r.half
    BY <1>0, <1>r DEF Processes
  <2> QED BY <2>1, <2>2
<1>keeps. KeepsAccount(r, run) /\ r.writes = <<>>
  <2>1. r.path = run.path /\ r.set = run.set /\ r.id = run.id /\ r.writes = <<>>
    BY <1>0, <1>r DEF Processes
  <2>2. r.loaded = run.loaded
    BY <1>0, <1>r DEF Processes
  <2>3. r.warned = run.warned
    BY <1>0, <1>r DEF Processes
  <2> QED BY <2>1, <2>2, <2>3 DEF KeepsAccount
<1>2. CASE Exit
  BY <1>0, <1>2, <1>remote, ExitStep
<1>3. CASE run' = SaveWGAccount(r)
  BY <1>0, <1>1, <1>3, <1>keeps, <1>remote, SaveWGStep
<1>4. CASE run' = [r EXCEPT !.pc = "wgRebind"]
  <2>0. "wgRebind" \in Places
    BY DEF Places
  <2>1. run' \in Processes /\ run'.pc = "wgRebind" /\ run'.writes = r.writes /\ Keeps(run', r)
    BY <1>1, <1>4, <2>0, MoveFacts
  <2>2. run'.path = run.path /\ run'.set = run.set /\ run'.id = run.id /\ run'.dev = d
    BY <1>1, <1>keeps, <2>1 DEF Keeps, KeepsAccount
  <2>3. run'.loaded = run.loaded
    BY <1>keeps, <2>1 DEF Keeps, KeepsAccount
  <2>4. run'.warned = run.warned
    BY <1>keeps, <2>1 DEF Keeps, KeepsAccount
  <2>5. ~run'.half /\ run'.writes = <<>>
    BY <1>1, <1>keeps, <2>1 DEF Keeps
  <2>q. /\ TypesInv' /\ ShapeInv' /\ OwnedInv' /\ KeyInv' /\ SetInv' /\ Place' = run'.pc
        /\ \A f \in Files : Real(disk[f].id)'
        /\ Real(run.id)'
    BY <1>0, <1>remote, <2>1, <2>2, <2>3, <2>4, <2>5, QuietStep
  <2>stage. StageInv'
    BY <2>q, <2>1, <2>2, <2>3 DEF IInv, StageInv
  <2>loaded. LoadedInv' /\ RegisterInv'
    BY <2>1 DEF LoadedInv, RegisterInv
  <2>real. RealInv'
    BY <1>remote, <2>q, <2>1, <2>2 DEF RealInv, RemoteGrows
  <2> QED BY <2>q, <2>stage, <2>loaded, <2>real DEF IInv
<1> QED BY <1>r, <1>2, <1>3, <1>4 DEF RegisterWireGuardDevice

\* A bound licence is known to the API before the process goes on.
LEMMA RebindKeeps ==
  ASSUME IInv, RebindLicense
  PROVE  IInv'
<1>0. /\ run.pc \in {"rebind", "wgRebind"} /\ disk' = disk
      /\ run \in Processes /\ run.writes = <<>> /\ ~run.half /\ run.dev \in Devices
  BY DEF RebindLicense, IInv, TypesInv, RunOK, ShapeInv, RealInv, Place
<1>1. CASE Exit /\ UNCHANGED remote
  BY <1>0, <1>1, ExitStep, SameRemote
<1>2. CASE remote' = [remote EXCEPT ![run.dev].license = "warp"]
  <2>remote. /\ RemoteOK' /\ RemoteGrows /\ remote'[run.dev].license = "warp"
             /\ remote'[run.dev].kind = remote[run.dev].kind
             /\ remote[run.dev].enrolled => remote'[run.dev].enrolled
    BY <1>0, <1>2, RemoteRebinds
  <2>1. CASE Exit
    BY <1>0, <2>1, <2>remote, ExitStep
  <2>2. CASE run.pc = "wgRebind" /\ run' = SaveWGAccount(run)
    <3>1. remote[run.dev].enrolled
      BY <2>2 DEF IInv, RealInv, Place
    <3>2. KeepsAccount(run, run)
      BY DEF KeepsAccount
    <3> QED BY <1>0, <2>2, <2>remote, <3>1, <3>2, SaveWGStep
  <2>3. CASE run.pc = "rebind" /\ run' = [run EXCEPT !.pc = "enroll"]
    <3>0. "enroll" \in Places
      BY DEF Places
    <3>1. /\ run' \in Processes /\ run'.pc = "enroll" /\ run'.writes = run.writes
          /\ Keeps(run', run)
      BY <1>0, <2>3, <3>0, MoveFacts
    <3>2. /\ run'.path = run.path /\ run'.set = run.set /\ run'.id = run.id
          /\ run'.dev = run.dev /\ run'.mode = run.mode
      BY <3>1 DEF Keeps, KeepsAccount
    <3>3. run'.loaded = run.loaded /\ run'.warned = run.warned /\ ~run'.half
      BY <1>0, <3>1 DEF Keeps, KeepsAccount
    <3>q. /\ TypesInv' /\ ShapeInv' /\ OwnedInv' /\ KeyInv' /\ SetInv' /\ Place' = run'.pc
          /\ \A f \in Files : Real(disk[f].id)'
          /\ Real(run.id)'
      BY <1>0, <2>3, <2>remote, <3>1, <3>2, <3>3, QuietStep
    <3>stage. StageInv'
      BY <3>q, <3>1, <3>2, <3>3 DEF IInv, StageInv
    <3>loaded. LoadedInv' /\ RegisterInv'
      BY <3>1 DEF LoadedInv, RegisterInv
    <3>real. RealInv'
      BY <1>0, <2>3, <2>remote, <3>q, <3>1, <3>2 DEF IInv, RealInv, RemoteGrows
    <3> QED BY <3>q, <3>stage, <3>loaded, <3>real DEF IInv
  <2> QED BY <1>0, <1>2, <2>1, <2>2, <2>3 DEF RebindLicense
<1> QED BY <1>1, <1>2 DEF RebindLicense

\* The identity of an enrolled device is real when the save is set up.
LEMMA EnrollKeeps ==
  ASSUME IInv, EnrollKey
  PROVE  IInv'
<1>0. /\ run.pc = "enroll" /\ disk' = disk /\ run \in Processes /\ ~run.half
      /\ run.dev \in Devices /\ remote[run.dev].kind # "none"
      /\ run.mode = "team" => remote[run.dev].kind = "team"
      /\ run.mode = "premium" => remote[run.dev].license = "warp"
  BY DEF EnrollKey, IInv, TypesInv, RunOK, ShapeInv, RealInv
<1>1. CASE Exit /\ UNCHANGED remote
  BY <1>0, <1>1, ExitStep, SameRemote
<1>2. CASE remote' = [remote EXCEPT ![run.dev].enrolled = TRUE]
  <2>remote. /\ RemoteOK' /\ RemoteGrows /\ remote'[run.dev].enrolled
             /\ remote'[run.dev].kind = remote[run.dev].kind
             /\ remote'[run.dev].license = remote[run.dev].license
    BY <1>0, <1>2, RemoteEnrolls
  <2>1. CASE Exit
    BY <1>0, <2>1, <2>remote, ExitStep
  <2>2. CASE run' = SaveConfig(InitNewConfig(run), "sni", TRUE)
    <3> DEFINE id == [dev |-> run.dev, mode |-> run.mode, license |-> remote[run.dev].license]
    <3>1. id \in Identity /\ id.dev = run.dev /\ id.mode = run.mode
          /\ id.license = remote[run.dev].license
      BY <1>0 DEF Identity, Processes, IInv, TypesInv, RemoteOK, Records
    <3>r. PICK r : r = InitNewConfig(run)
      OBVIOUS
    <3>2. r = [run EXCEPT !.loaded = TRUE, !.set = DefaultSettings, !.id = id]
      BY <3>r DEF InitNewConfig
    <3> HIDE DEF id
    <3>3. r \in Processes
      BY <1>0, <3>1, <3>2, FileTypes DEF Processes
    <3>4. r.id = id /\ r.path = run.path
      BY <1>0, <3>2 DEF Processes
    <3>5. r.loaded
      BY <1>0, <3>2 DEF Processes
    <3>6. ~r.half
      BY <1>0, <3>2 DEF Processes
    <3>7. r.warned = run.warned
      BY <1>0, <3>2 DEF Processes
    <3>8. RealNext(r.id) /\ r.id.dev \in Devices
      BY <1>0, <2>remote, <3>1, <3>4 DEF RealNext
    <3> DEFINE strict == TRUE
    <3>9. strict \in BOOLEAN /\ run' = SaveConfig(r, "sni", strict) /\ strict
      BY <2>2, <3>r
    <3> HIDE DEF strict
    <3> QED BY <1>0, <2>remote, <3>3, <3>4, <3>5, <3>6, <3>7, <3>8, <3>9, SaveConfigStep
  <2> QED BY <1>0, <1>2, <2>1, <2>2 DEF EnrollKey, FinishRegistration
<1> QED BY <1>1, <1>2 DEF EnrollKey

-----------------------------------------------------------------------------
(* runProxyCmd *)

\* The mode an account is taken for is free only when it is not paid, and is
\* one that the API confirms.
LEMMA ModeFacts ==
  ASSUME IInv, HasIdentity
  PROVE  /\ CurrentMode \in {"free", "premium", "team"}
         /\ CurrentMode = "free" => ~Paid(run.id)
         /\ CurrentMode = "premium" => remote[run.id.dev].license = "warp"
         /\ CurrentMode = "team" => remote[run.id.dev].kind = "team"
         /\ run.id.dev \in Devices /\ run.id.dev # NoDevice
<1>1. run.id.dev \in Devices /\ run.id.dev # NoDevice /\ run.id \in Identity
  BY StartupAssumption, IdTypes DEF IInv, OwnedInv, HasIdentity
<1>2. /\ run.id.mode = "premium" => remote[run.id.dev].license = "warp"
      /\ run.id.license = "warp" => remote[run.id.dev].license = "warp"
      /\ run.id.mode = "team" => remote[run.id.dev].kind = "team"
  BY <1>1 DEF IInv, RealInv, Real
<1>3. CurrentMode = ResolveAccountMode
  BY DEF CurrentMode
<1> QED BY <1>1, <1>2, <1>3 DEF ResolveAccountMode, Paid

\* Looking for a token changes neither files nor records.
LEMMA ResolveJWTKeeps ==
  ASSUME IInv, ResolveJWT
  PROVE  IInv'
<1>0. /\ run.pc = "mode" /\ disk' = disk /\ remote' = remote /\ RemoteOK' /\ RemoteGrows
      /\ run \in Processes /\ run.writes = <<>> /\ ~run.half
  BY SameRemote DEF ResolveJWT, IInv, TypesInv, RunOK, ShapeInv
<1> DEFINE take == token /\ ~run.cmd.license /\ ~run.cmd.jwt /\ CurrentMode = "free"
<1>1. run' = [run EXCEPT !.pc = "decide", !.took = take] /\ take \in BOOLEAN
  BY DEF ResolveJWT
<1> HIDE DEF take
<1>2. run' \in Processes
  BY <1>0, <1>1 DEF Processes, Places
<1>3. /\ run'.pc = "decide" /\ run'.id = run.id
      /\ run'.path = run.path /\ run'.set = run.set /\ run'.writes = <<>>
  BY <1>0, <1>1 DEF Processes
<1>4. run'.loaded = run.loaded
  BY <1>0, <1>1 DEF Processes
<1>5. run'.warned = run.warned
  BY <1>0, <1>1 DEF Processes
<1>6. ~run'.half
  BY <1>0, <1>1 DEF Processes
<1>q. /\ TypesInv' /\ ShapeInv' /\ OwnedInv' /\ KeyInv' /\ SetInv' /\ Place' = run'.pc
      /\ \A f \in Files : Real(disk[f].id)'
      /\ Real(run.id)'
  BY <1>0, <1>2, <1>3, <1>4, <1>5, <1>6, QuietStep
<1>stage. StageInv'
  BY <1>0, <1>q, <1>3, <1>4, <1>5 DEF IInv, StageInv, Place
<1>loaded. LoadedInv' /\ RegisterInv'
  BY <1>0, <1>3, <1>4 DEF IInv, LoadedInv, RegisterInv
<1>real. RealInv'
  BY <1>0, <1>q, <1>3 DEF RealInv, RemoteGrows
<1> QED BY <1>q, <1>stage, <1>loaded, <1>real DEF IInv

\* A process goes on to register only over an account that may be replaced.
LEMMA DecideKeeps ==
  ASSUME IInv, Decide
  PROVE  IInv'
<1> DEFINE jwt == run.cmd.jwt \/ run.took
           r == [run EXCEPT !.pc = "reset", !.id.mode = CurrentMode]
<1>0. /\ run.pc = "decide" /\ disk' = disk /\ remote' = remote /\ RemoteOK' /\ RemoteGrows
      /\ run \in Processes /\ run.writes = <<>> /\ ~run.half
  BY SameRemote DEF Decide, IInv, TypesInv, RunOK, ShapeInv
<1>cases. \/ Exit
          \/ \E m \in {"free", "premium", "team"} :
               /\ run' = [run EXCEPT !.pc = "register", !.mode = m]
               /\ HasIdentity => CurrentMode = "free" /\ UpgradeAsked
          \/ /\ HasIdentity
             /\ run' = IF run.id.mode = CurrentMode THEN r ELSE SaveConfig(r, "reset", FALSE)
  BY DEF Decide, UpgradeAsked
<1>1. CASE Exit
  BY <1>0, <1>1, ExitStep
<1>2. ASSUME NEW m \in {"free", "premium", "team"},
             run' = [run EXCEPT !.pc = "register", !.mode = m],
             HasIdentity => CurrentMode = "free" /\ UpgradeAsked
      PROVE  IInv'
  <2>1. run' \in Processes
    BY <1>0, <1>2 DEF Processes, Places
  <2>2. /\ run'.pc = "register" /\ run'.id = run.id /\ run'.cmd = run.cmd
        /\ run'.path = run.path /\ run'.set = run.set /\ run'.writes = <<>>
    BY <1>0, <1>2 DEF Processes
  <2>3. run'.loaded = run.loaded
    BY <1>0, <1>2 DEF Processes
  <2>4. run'.warned = run.warned
    BY <1>0, <1>2 DEF Processes
  <2>5. ~run'.half
    BY <1>0, <1>2 DEF Processes
  <2>6. run'.took = run.took
    BY <1>0, <1>2 DEF Processes
  <2>q. /\ TypesInv' /\ ShapeInv' /\ OwnedInv' /\ KeyInv' /\ SetInv' /\ Place' = run'.pc
        /\ \A f \in Files : Real(disk[f].id)'
        /\ Real(run.id)'
    BY <1>0, <2>1, <2>2, <2>3, <2>4, <2>5, QuietStep
  <2>stage. StageInv'
    BY <1>0, <2>q, <2>2, <2>3, <2>4 DEF IInv, StageInv, Place
  <2>loaded. LoadedInv'
    BY <1>0, <2>2, <2>3 DEF IInv, LoadedInv
  <2>register. RegisterInv'
    <3>1. CASE HasIdentity
      <4>1. ~Paid(run.id) /\ UpgradeAsked
        BY <1>2, <3>1, ModeFacts
      <4> QED BY <4>1, <2>2, <2>6 DEF RegisterInv, UpgradeAsked, Paid
    <3>2. CASE ~HasIdentity
      <4>1. run.loaded => run.id = NoIdentity
        BY <3>2 DEF HasIdentity
      <4> QED BY <4>1, <2>2, <2>3, FileFacts DEF RegisterInv, Paid
    <3> QED BY <3>1, <3>2
  <2>real. RealInv'
    BY <1>0, <2>q, <2>2 DEF RealInv, RemoteGrows
  <2> QED BY <2>q, <2>stage, <2>loaded, <2>register, <2>real DEF IInv
<1>3. ASSUME HasIdentity,
             run' = IF run.id.mode = CurrentMode THEN r ELSE SaveConfig(r, "reset", FALSE)
      PROVE  IInv'
  <2>mode. /\ CurrentMode \in {"free", "premium", "team"}
           /\ CurrentMode = "premium" => remote[run.id.dev].license = "warp"
           /\ CurrentMode = "team" => remote[run.id.dev].kind = "team"
           /\ run.id.dev \in Devices /\ run.id.dev # NoDevice /\ run.loaded
    BY <1>3, ModeFacts DEF HasIdentity
  <2> DEFINE id == [run.id EXCEPT !.mode = CurrentMode]
  <2>1. run.id \in Identity
    BY <1>0 DEF Processes
  <2>2. id \in Identity /\ id.dev = run.id.dev /\ id.mode = CurrentMode
        /\ id.license = run.id.license
    BY <2>1, <2>mode DEF Identity
  <2>same. run.id.mode = CurrentMode => id = run.id
    BY <2>1 DEF Identity
  <2>r. PICK q : q = r
    OBVIOUS
  <2>3. q = [run EXCEPT !.pc = "reset", !.id = id]
    BY <1>0, <2>r DEF Processes
  <2> HIDE DEF id, r
  <2>4. q \in Processes
    BY <1>0, <2>2, <2>3 DEF Processes, Places
  <2>5. /\ q.pc = "reset" /\ q.id = id /\ q.path = run.path /\ q.set = run.set
        /\ q.writes = <<>>
    BY <1>0, <2>3 DEF Processes
  <2>6. q.loaded
    BY <1>0, <2>3, <2>mode DEF Processes
  <2>7. q.warned = run.warned
    BY <1>0, <2>3 DEF Processes
  <2>8. ~q.half
    BY <1>0, <2>3 DEF Processes
  <2>9. CASE run.id.mode # CurrentMode
    <3>1. Real(run.id)
      BY DEF IInv, RealInv
    <3>2. RealNext(q.id) /\ q.id.dev = run.id.dev
      BY <1>0, <2>mode, <2>2, <2>5, <3>1 DEF RealNext, Real
    <3> DEFINE strict == FALSE
    <3>3. strict \in BOOLEAN /\ run' = SaveConfig(q, "reset", strict)
      BY <1>3, <2>9, <2>r
    <3> HIDE DEF strict
    <3> QED BY <1>0, <2>mode, <2>4, <2>5, <2>6, <2>7, <2>8, <3>2, <3>3, SaveConfigStep
  <2>10. CASE run.id.mode = CurrentMode
    <3>1. run' = q /\ q.id = run.id
      BY <1>3, <2>10, <2>r, <2>same, <2>5
    <3>q. /\ TypesInv' /\ ShapeInv' /\ OwnedInv' /\ KeyInv' /\ SetInv' /\ Place' = run'.pc
          /\ \A f \in Files : Real(disk[f].id)'
          /\ Real(run.id)'
      <4>1. /\ run' \in Processes /\ run'.pc = "reset" /\ run'.writes = <<>> /\ ~run'.half
            /\ run'.id = run.id /\ run'.path = run.path /\ run'.set = run.set
        BY <3>1, <2>4, <2>5, <2>8
      <4>2. run'.loaded = run.loaded
        BY <1>0, <2>3, <3>1 DEF Processes
      <4>3. run'.warned = run.warned
        BY <2>7, <3>1
      <4> QED BY <1>0, <4>1, <4>2, <4>3, QuietStep
    <3>stage. StageInv'
      BY <2>mode, <2>5, <2>6, <3>1, <3>q DEF StageInv
    <3>loaded. LoadedInv' /\ RegisterInv'
      BY <2>5, <3>1 DEF LoadedInv, RegisterInv
    <3>real. RealInv'
      BY <1>0, <2>5, <3>1, <3>q DEF RealInv, RemoteGrows
    <3> QED BY <3>q, <3>stage, <3>loaded, <3>real DEF IInv
  <2> QED BY <2>9, <2>10
<1> QED BY <1>cases, <1>1, <1>2, <1>3

\* Where the process works with an account.
LEMMA AccountFacts ==
  ASSUME IInv, run.pc \in {"sni", "reset", "overrides"}
  PROVE  /\ run \in Processes /\ run.loaded /\ run.id.dev \in Devices
         /\ run.writes = <<>> /\ ~run.half /\ (remote' = remote => RealNext(run.id))
<1>1. run \in Processes /\ run.writes = <<>> /\ ~run.half
  BY DEF IInv, TypesInv, RunOK, ShapeInv
<1>2. run.loaded /\ run.id.dev \in Devices
  BY DEF IInv, StageInv, Place
<1>3. remote' = remote => RealNext(run.id)
  BY DEF IInv, RealInv, Real, RealNext
<1> QED BY <1>1, <1>2, <1>3

\* A step that saves the account with other settings.
LEMMA SettingsStep ==
  ASSUME IInv, disk' = disk, remote' = remote, run.pc \in {"sni", "reset", "overrides"},
         NEW set \in Settings, NEW after \in {"overrides", "serving"}, NEW strict \in BOOLEAN,
         NEW r, r = [run EXCEPT !.set = set], run' = SaveConfig(r, after, strict)
  PROVE  IInv'
<1>0. /\ run \in Processes /\ run.loaded /\ run.id.dev \in Devices
      /\ run.writes = <<>> /\ ~run.half /\ RealNext(run.id) /\ RemoteOK' /\ RemoteGrows
  BY AccountFacts, SameRemote
<1>1. r \in Processes
  BY <1>0 DEF Processes
<1>2. r.id = run.id /\ r.path = run.path
  BY <1>0 DEF Processes
<1>3. r.loaded
  BY <1>0 DEF Processes
<1>4. ~r.half
  BY <1>0 DEF Processes
<1>5. r.warned = run.warned
  BY <1>0 DEF Processes
<1> QED BY <1>0, <1>1, <1>2, <1>3, <1>4, <1>5, SaveConfigStep

\* A reset changes settings, never the identity.
LEMMA ResetKeeps ==
  ASSUME IInv, ResetConfig
  PROVE  IInv'
<1>0. /\ run.pc = "reset" /\ disk' = disk /\ remote' = remote /\ RemoteOK' /\ RemoteGrows
      /\ run \in Processes /\ run.loaded /\ run.id.dev \in Devices
      /\ run.writes = <<>> /\ ~run.half
  BY AccountFacts, SameRemote DEF ResetConfig
<1>1. CASE run' = SaveConfig([run EXCEPT !.set = DefaultSettings], "overrides", TRUE)
  <2> DEFINE strict == TRUE
  <2>r. PICK r : r = [run EXCEPT !.set = DefaultSettings]
    OBVIOUS
  <2>1. strict \in BOOLEAN /\ run' = SaveConfig(r, "overrides", strict)
    BY <1>1, <2>r
  <2> HIDE DEF strict
  <2> QED BY <1>0, <2>r, <2>1, FileTypes, SettingsStep
<1>2. CASE run' = [run EXCEPT !.pc = "overrides"]
  <2>0. "overrides" \in Places
    BY DEF Places
  <2>1. /\ run' \in Processes /\ run'.pc = "overrides" /\ run'.writes = run.writes
        /\ Keeps(run', run)
    BY <1>0, <1>2, <2>0, MoveFacts
  <2>2. run'.path = run.path /\ run'.set = run.set /\ run'.id = run.id
    BY <2>1 DEF Keeps, KeepsAccount
  <2>3. run'.loaded = run.loaded /\ run'.warned = run.warned /\ ~run'.half
    BY <1>0, <2>1 DEF Keeps, KeepsAccount
  <2>q. /\ TypesInv' /\ ShapeInv' /\ OwnedInv' /\ KeyInv' /\ SetInv' /\ Place' = run'.pc
        /\ \A f \in Files : Real(disk[f].id)'
        /\ Real(run.id)'
    BY <1>0, <2>1, <2>2, <2>3, QuietStep
  <2>4. StageInv'
    BY <1>0, <2>q, <2>1, <2>2, <2>3 DEF StageInv
  <2>5. LoadedInv' /\ RegisterInv'
    BY <2>1 DEF LoadedInv, RegisterInv
  <2>6. RealInv'
    BY <1>0, <2>q, <2>1 DEF RealInv, RemoteGrows
  <2> QED BY <2>q, <2>4, <2>5, <2>6 DEF IInv
<1> QED BY <1>1, <1>2 DEF ResetConfig

\* The new SNI is saved with the identity it goes with.
LEMMA SaveSNIKeeps ==
  ASSUME IInv, SaveSNI
  PROVE  IInv'
<1>0. run.pc = "sni" /\ disk' = disk /\ remote' = remote /\ run \in Processes
  BY AccountFacts DEF SaveSNI
<1>1. run.set \in Settings /\ run = [run EXCEPT !.set = run.set]
  BY <1>0 DEF Processes
<1> DEFINE strict == FALSE
<1>2. strict \in BOOLEAN /\ run' = SaveConfig(run, "overrides", strict)
  BY DEF SaveSNI
<1> HIDE DEF strict
<1> QED BY <1>0, <1>1, <1>2, SettingsStep

\* The overrides of the command line change settings, never the identity.
LEMMA OverridesKeeps ==
  ASSUME IInv, ApplyOverrides
  PROVE  IInv'
<1>0. /\ run.pc = "overrides" /\ disk' = disk /\ remote' = remote /\ RemoteOK' /\ RemoteGrows
      /\ run \in Processes
  BY AccountFacts, SameRemote DEF ApplyOverrides
<1>r. PICK r : r = [run EXCEPT !.set = Overridden]
  OBVIOUS
<1>1. CASE run' = SaveConfig(r, "serving", FALSE)
  <2> DEFINE strict == FALSE
  <2>1. strict \in BOOLEAN /\ run' = SaveConfig(r, "serving", strict)
    BY <1>1
  <2> HIDE DEF strict
  <2> QED BY <1>0, <1>r, <2>1, OverriddenFacts, SettingsStep
<1>2. CASE ~ConfigChanged /\ run' = Serving(r)
  <2>1. r = run
    BY <1>0, <1>2, <1>r, OverriddenFacts DEF Processes
  <2> QED BY <1>0, <1>2, <2>1, ServingFacts, QuietMove
<1> QED BY <1>r, <1>1, <1>2 DEF ApplyOverrides

-----------------------------------------------------------------------------
(* The operator *)

\* While the process is down, only the files change.
LEMMA OperatorStep ==
  ASSUME IInv, run.pc = "down", run' = run, remote' = remote, DiskOK',
         \A f \in Files : disk'[f] = disk[f] \/ GoodFile(disk'[f]),
         disk'.key.st = "whole" => disk'.key.id.dev \in Devices
  PROVE  IInv'
<1>1. /\ run \in Processes /\ run.id = NoIdentity /\ ~run.loaded /\ ~run.warned
      /\ run.writes = <<>> /\ ~run.half
  BY DEF IInv, TypesInv, RunOK, StageInv, ShapeInv
<1> QED BY <1>1, FreshStep, SameRemote

\* The operator edits the file of a process that is down.
LEMMA EditKeeps ==
  ASSUME IInv, EditModeToFree
  PROVE  IInv'
<1>0. /\ run.pc = "down" /\ run' = run /\ remote' = remote /\ disk.key.st = "whole"
      /\ disk' = [disk EXCEPT !.key.id.mode = "free"] /\ RemoteGrows
      /\ disk \in [Files -> File] /\ "key" \in Files
  BY SameRemote DEF EditModeToFree, IInv, TypesInv, DiskOK, Files
<1> DEFINE id == [disk.key.id EXCEPT !.mode = "free"]
           x == [disk.key EXCEPT !.id = id]
<1>1. disk.key \in File /\ disk.key.id \in Identity /\ disk.key.id.dev \in Devices
  BY <1>0 DEF IInv, OwnedInv, File
<1>2. id \in Identity /\ id.dev = disk.key.id.dev /\ id.mode = "free"
      /\ id.license = disk.key.id.license
  BY <1>1 DEF Identity
<1>3. disk' = [disk EXCEPT !.key = x]
  BY <1>0, <1>1 DEF File, Identity
<1> HIDE DEF id
<1>4. x \in File /\ x.st = "whole" /\ x.id = id
  BY <1>0, <1>1, <1>2 DEF File
<1> HIDE DEF x
<1>5. DiskOK' /\ disk'.key = x /\ \A f \in Files : f # "key" => disk'[f] = disk[f]
  BY <1>0, <1>3, <1>4 DEF DiskOK
<1>6. RealNext(disk.key.id)
  BY <1>0, RealGrows, IdTypes DEF IInv, RealInv
<1>7. RealNext(id)
  BY <1>2, <1>6 DEF RealNext
<1>8. GoodFile(x)
  BY <1>1, <1>2, <1>4, <1>7 DEF GoodFile
<1>9. \A f \in Files : disk'[f] = disk[f] \/ GoodFile(disk'[f])
  BY <1>5, <1>8
<1> QED BY <1>0, <1>1, <1>2, <1>4, <1>5, <1>9, OperatorStep

\* The operator deletes the file of a process that is down.
LEMMA DeleteKeeps ==
  ASSUME IInv, DeleteConfig
  PROVE  IInv'
<1> DEFINE x == Broken("absent")
<1>1. x \in File /\ x.st = "absent" /\ GoodFile(x)
  <2>1. x \in File
    BY FileTypes
  <2>2. GoodFile(x)
    BY GoodFiles
  <2> QED BY <2>1, <2>2 DEF Broken
<1>2. /\ run.pc = "down" /\ run' = run /\ remote' = remote
      /\ disk' = [disk EXCEPT !.json = x, !.yaml = x, !.key = x]
      /\ disk \in [Files -> File]
  BY DEF DeleteConfig, IInv, TypesInv, DiskOK
<1> HIDE DEF x
<1>3. DiskOK' /\ disk'.key = x /\ \A f \in Files : disk'[f] = disk[f] \/ disk'[f] = x
  BY <1>1, <1>2 DEF DiskOK, Files
<1> QED BY <1>1, <1>2, <1>3, OperatorStep

-----------------------------------------------------------------------------
(* The inductive invariant *)

\* Every step, of the process, the API or the operator, keeps the invariant.
LEMMA IInvNext ==
  ASSUME IInv, [Next]_vars
  PROVE  IInv'
<1>1. CASE UNCHANGED vars
  BY <1>1 DEF vars, IInv, TypesInv, RunOK, DiskOK, RemoteOK, ShapeInv, OwnedInv, StageInv,
              LoadedInv, RegisterInv, KeyInv, SetInv, RealInv, Real, Place, Both, KeyLeft, Split,
              PubLeft, WGPub, WGSave, Migrate, Pub, Key, UpgradeAsked
<1>2. CASE PutToken
  BY <1>2 DEF PutToken, IInv, TypesInv, RunOK, DiskOK, RemoteOK, ShapeInv, OwnedInv, StageInv,
              LoadedInv, RegisterInv, KeyInv, SetInv, RealInv, Real, Place, Both, KeyLeft, Split,
              PubLeft, WGPub, WGSave, Migrate, Pub, Key, UpgradeAsked
<1>3. CASE Stop
  BY <1>3, ExitStep, SameRemote DEF Stop
<1>4. CASE \E c \in Commands : Start(c)
  BY <1>4, StartKeeps
<1>5. CASE MigrateLegacyJSONConfigPath \/ RenameLegacy \/ LoadConfig
  BY <1>5, MigrateKeeps, RenameKeeps, LoadKeeps
<1>6. CASE Truncate \/ FinishWrite \/ WriteFails
  BY <1>6, TruncateKeeps, FinishWriteKeeps, WriteFailsKeeps
<1>7. CASE RunProxyWGMode \/ EnsureWGAccount \/ EnsureWGAcceptedTOS \/ WGSetDeviceName
  BY <1>7, WGModeKeeps, EnsureWGAccountKeeps, WGTermsKeeps, WGNameKeeps
<1>8. CASE ResolveJWT \/ Decide \/ ResetConfig \/ SaveSNI \/ ApplyOverrides
  BY <1>8, ResolveJWTKeeps, DecideKeeps, ResetKeeps, SaveSNIKeeps, OverridesKeeps
<1>9. CASE RegisterRefused \/ RebindLicense \/ EnrollKey
  BY <1>9, RefusedKeeps, RebindKeeps, EnrollKeeps
<1>10. CASE \E d \in Devices : Register(d) \/ RegisterWireGuardDevice(d)
  BY <1>10, RegisterKeeps, RegisterWGKeeps
<1>11. CASE EditModeToFree \/ DeleteConfig
  BY <1>11, EditKeeps, DeleteKeeps
<1> QED BY <1>1, <1>2, <1>3, <1>4, <1>5, <1>6, <1>7, <1>8, <1>9, <1>10, <1>11 DEF Next

\* The four files of an installation.
LEMMA DiskRecord ==
  ASSUME NEW a \in File, NEW b \in File, NEW c \in File, NEW e \in File,
         NEW x, x = [json |-> a, yaml |-> b, key |-> c, wg |-> e]
  PROVE  x \in [Files -> File] /\ x.json = a /\ x.yaml = b /\ x.key = c /\ x.wg = e
  BY DEF Files

\* The installations that Init allows hold no account, or one that the API knows.
LEMMA InitDisk ==
  ASSUME Init
  PROVE  /\ DiskOK /\ RemoteOK
         /\ \A f \in Files : disk[f].st # "whole" => disk[f].id = NoIdentity
         /\ \A f \in Files : disk[f].id = NoIdentity \/ disk[f].id.dev \in Devices
         /\ disk.key.st = "whole" => disk.key.id.dev \in Devices
         /\ \A f \in Files : Real(disk[f].id)
         /\ \A d \in Devices : remote[d].kind = "none" => ~remote[d].enrolled
<1> DEFINE none == Broken("absent")
           set == [DefaultSettings EXCEPT !.custom = TRUE]
           pub == PublicFile(set)
<1>0. set \in Settings
  BY DEF DefaultSettings, Settings
<1> HIDE DEF set
<1>1. none \in File /\ none.st = "absent" /\ none.id = NoIdentity
  <2>1. none \in File
    BY FileTypes
  <2> QED BY <2>1 DEF Broken
<1>2. pub \in File /\ pub.st = "whole" /\ pub.id = NoIdentity
  <2>1. pub \in File
    BY <1>0, FileTypes
  <2> QED BY <2>1 DEF PublicFile
<1>3. Unknown \in Records /\ Unknown.kind = "none" /\ ~Unknown.enrolled
  BY DEF Unknown, Records
<1>no. NoIdentity.dev = NoDevice
  BY DEF NoIdentity
<1> HIDE DEF none, pub
<1>record. ASSUME NEW a \in File, NEW c \in File,
                  disk = [json |-> a, yaml |-> none, key |-> c, wg |-> none]
           PROVE  DiskOK /\ disk.json = a /\ disk.yaml = none /\ disk.key = c /\ disk.wg = none
  BY <1>1, <1>record, DiskRecord DEF DiskOK
<1>4. ASSUME remote = [d \in Devices |-> Unknown],
             NEW json \in BOOLEAN, NEW cfg \in {none, pub},
             disk = [json |-> IF json THEN cfg ELSE none, yaml |-> IF json THEN none ELSE cfg,
                     key |-> none, wg |-> none]
      PROVE  /\ DiskOK /\ RemoteOK
             /\ \A f \in Files : disk[f].st # "whole" => disk[f].id = NoIdentity
             /\ \A f \in Files : disk[f].id = NoIdentity \/ disk[f].id.dev \in Devices
             /\ disk.key.st = "whole" => disk.key.id.dev \in Devices
             /\ \A f \in Files : Real(disk[f].id)
             /\ \A d \in Devices : remote[d].kind = "none" => ~remote[d].enrolled
  <2>1. RemoteOK /\ \A d \in Devices : remote[d].kind = "none" => ~remote[d].enrolled
    BY <1>3, <1>4 DEF RemoteOK
  <2> DEFINE a == IF json THEN cfg ELSE none
             b == IF json THEN none ELSE cfg
  <2>2. a \in {none, pub} /\ b \in {none, pub}
    BY <1>4
  <2>3. disk = [json |-> a, yaml |-> b, key |-> none, wg |-> none]
    BY <1>4
  <2> HIDE DEF a, b
  <2>4. DiskOK /\ disk.json = a /\ disk.yaml = b /\ disk.key = none /\ disk.wg = none
    BY <1>1, <1>2, <2>2, <2>3, DiskRecord DEF DiskOK
  <2>5. \A f \in Files : disk[f] \in {none, pub}
    BY <2>2, <2>4 DEF Files
  <2>6. \A f \in Files : disk[f].id = NoIdentity
    BY <1>1, <1>2, <2>5
  <2> QED BY <1>1, <1>no, <2>1, <2>4, <2>6 DEF Real
<1>5. ASSUME NEW d \in Devices, NEW kind \in {"plain", "team"}, NEW lic \in {"own", "warp"},
             NEW mode \in {"", "free", "premium", "team", "bad"}, NEW split \in BOOLEAN,
             mode = "premium" => kind = "plain" /\ lic = "warp",
             mode = "team" => kind = "team",
             remote = [e \in Devices |-> IF e = d THEN [kind |-> kind, license |-> lic,
                                                        enrolled |-> TRUE]
                                         ELSE Unknown],
             LET id == [dev |-> d, mode |-> mode, license |-> lic]
             IN disk = [json |-> IF split THEN pub ELSE [st |-> "whole", set |-> set, id |-> id],
                        yaml |-> none, key |-> IF split THEN KeyFile(id) ELSE none, wg |-> none]
      PROVE  /\ DiskOK /\ RemoteOK
             /\ \A f \in Files : disk[f].st # "whole" => disk[f].id = NoIdentity
             /\ \A f \in Files : disk[f].id = NoIdentity \/ disk[f].id.dev \in Devices
             /\ disk.key.st = "whole" => disk.key.id.dev \in Devices
             /\ \A f \in Files : Real(disk[f].id)
             /\ \A e \in Devices : remote[e].kind = "none" => ~remote[e].enrolled
  <2> DEFINE id == [dev |-> d, mode |-> mode, license |-> lic]
             rec == [kind |-> kind, license |-> lic, enrolled |-> TRUE]
             full == [st |-> "whole", set |-> set, id |-> id]
             key == KeyFile(id)
             a == IF split THEN pub ELSE full
             c == IF split THEN key ELSE none
  <2>1. id \in Identity /\ id.dev = d /\ id.mode = mode /\ id.license = lic
    BY DEF Identity
  <2>2. rec \in Records /\ rec.kind = kind /\ rec.license = lic /\ rec.enrolled
    BY DEF Records
  <2> HIDE DEF id, rec
  <2>3. full \in File /\ full.st = "whole" /\ full.id = id
    BY <1>0, <2>1 DEF File
  <2>4. key \in File /\ key.st = "whole" /\ key.id = id
    <3>1. key \in File
      BY <2>1, FileTypes
    <3> QED BY <3>1 DEF KeyFile
  <2> HIDE DEF full, key
  <2>5. a \in {pub, full} /\ c \in {key, none}
    OBVIOUS
  <2>6. disk = [json |-> a, yaml |-> none, key |-> c, wg |-> none]
    BY <1>5 DEF full, key, id
  <2> HIDE DEF a, c
  <2>types. a \in File /\ c \in File
    BY <1>1, <1>2, <2>3, <2>4, <2>5
  <2>7. DiskOK /\ disk.json = a /\ disk.yaml = none /\ disk.key = c /\ disk.wg = none
    BY <2>types, <2>6, <1>record
  <2>8. \A f \in Files : disk[f] \in {none, pub, full, key}
    BY <2>5, <2>7 DEF Files
  <2>9. remote = [e \in Devices |-> IF e = d THEN rec ELSE Unknown]
    BY <1>5 DEF rec
  <2>10. RemoteOK /\ remote[d] = rec
    BY <1>3, <2>2, <2>9 DEF RemoteOK
  <2>11. \A e \in Devices : remote[e].kind = "none" => ~remote[e].enrolled
    BY <1>3, <2>2, <2>9
  <2>12. Real(id) /\ Real(NoIdentity)
    BY <1>5, <1>no, <2>1, <2>2, <2>10 DEF Real
  <2>13. \A f \in Files : disk[f].id \in {id, NoIdentity}
                          /\ (disk[f].st # "whole" => disk[f].id = NoIdentity)
    BY <1>1, <1>2, <2>3, <2>4, <2>8
  <2>14. disk.key.st = "whole" => disk.key.id = id
    BY <1>1, <2>4, <2>5, <2>7
  <2> QED BY <2>1, <2>7, <2>10, <2>11, <2>12, <2>13, <2>14
<1> DEFINE New ==
             /\ remote = [d \in Devices |-> Unknown]
             /\ \E json \in BOOLEAN, cfg \in {none, pub} :
                  disk = [json |-> IF json THEN cfg ELSE none,
                          yaml |-> IF json THEN none ELSE cfg,
                          key |-> none, wg |-> none]
           Old ==
             \E d \in Devices, kind \in {"plain", "team"}, lic \in {"own", "warp"},
                mode \in {"", "free", "premium", "team", "bad"}, split \in BOOLEAN :
               /\ mode = "premium" => kind = "plain" /\ lic = "warp"
               /\ mode = "team" => kind = "team"
               /\ lic = "warp" => kind = "plain"
               /\ remote = [e \in Devices |-> IF e = d THEN [kind |-> kind, license |-> lic,
                                                             enrolled |-> TRUE]
                                              ELSE Unknown]
               /\ LET id  == [dev |-> d, mode |-> mode, license |-> lic]
                  IN disk = [json |-> IF split THEN pub
                                      ELSE [st |-> "whole", set |-> set, id |-> id],
                             yaml |-> none, key |-> IF split THEN KeyFile(id) ELSE none,
                             wg |-> none]
<1>init. New \/ Old
  BY Zenon DEF Init, none, pub, set
<1>6. CASE New
  <2>1. PICK json \in BOOLEAN, cfg \in {none, pub} :
               disk = [json |-> IF json THEN cfg ELSE none, yaml |-> IF json THEN none ELSE cfg,
                       key |-> none, wg |-> none]
    BY <1>6
  <2> QED BY <1>4, <1>6, <2>1
<1>7. CASE Old
  <2>1. PICK d \in Devices, kind \in {"plain", "team"}, lic \in {"own", "warp"},
             mode \in {"", "free", "premium", "team", "bad"}, split \in BOOLEAN :
            /\ mode = "premium" => kind = "plain" /\ lic = "warp"
            /\ mode = "team" => kind = "team"
            /\ lic = "warp" => kind = "plain"
            /\ remote = [e \in Devices |-> IF e = d THEN [kind |-> kind, license |-> lic,
                                                          enrolled |-> TRUE]
                                           ELSE Unknown]
            /\ LET id == [dev |-> d, mode |-> mode, license |-> lic]
               IN disk = [json |-> IF split THEN pub ELSE [st |-> "whole", set |-> set, id |-> id],
                          yaml |-> none, key |-> IF split THEN KeyFile(id) ELSE none,
                          wg |-> none]
    BY <1>7, Zenon
  <2> QED BY <1>5, <2>1
<1> QED BY <1>init, <1>6, <1>7

\* The files that the first start finds hold no account that the API does not know.
LEMMA IInvInit == Init => IInv
<1> SUFFICES ASSUME Init PROVE IInv
  OBVIOUS
<1>0. run = Down
  BY DEF Init
<1>1. /\ run \in Processes /\ run.pc = "down" /\ ~run.loaded /\ run.id = NoIdentity
      /\ run.writes = <<>> /\ ~run.half /\ ~run.warned /\ Place = "down"
  BY <1>0, DownFacts DEF Place
<1>2. TypesInv /\ OwnedInv
  BY <1>1, InitDisk DEF TypesInv, RunOK, OwnedInv
<1>3. ShapeInv /\ StageInv /\ LoadedInv /\ RegisterInv /\ KeyInv /\ SetInv
  BY <1>1 DEF ShapeInv, StageInv, LoadedInv, RegisterInv, KeyInv, SetInv
<1>4. RealInv
  BY <1>1, InitDisk, FileFacts DEF RealInv, Real
<1> QED BY <1>2, <1>3, <1>4 DEF IInv

\* The inductive invariant.
THEOREM StartupInvariant == Spec => []IInv
  BY IInvInit, IInvNext, PTL DEF Spec

-----------------------------------------------------------------------------
(* What the invariant gives *)

\* jwt.txt holds a token or none.
TokenOK == token \in BOOLEAN

\* The token file is there or not; no other part of the types depends on it.
LEMMA TokenType == Spec => []TokenOK
<1>1. Init => TokenOK
  BY DEF Init, TokenOK
<1>2. ASSUME TokenOK, [Next]_vars
      PROVE  TokenOK'
  <2>1. CASE UNCHANGED token
    BY <1>2, <2>1 DEF TokenOK
  <2>2. CASE ResolveJWT
    BY <1>2, <2>2 DEF ResolveJWT, TokenOK
  <2>3. CASE PutToken
    BY <2>3 DEF PutToken, TokenOK
  <2>4. UNCHANGED token \/ ResolveJWT \/ PutToken
    BY <1>2 DEF Next, vars, Start, MigrateLegacyJSONConfigPath, RenameLegacy, LoadConfig, Truncate,
                FinishWrite, WriteFails, RunProxyWGMode, EnsureWGAccount, EnsureWGAcceptedTOS,
                WGSetDeviceName, Decide, ResetConfig, SaveSNI, ApplyOverrides, RegisterRefused,
                RebindLicense, EnrollKey, Register, RegisterWireGuardDevice, Stop, EditModeToFree,
                DeleteConfig
  <2> QED BY <2>1, <2>2, <2>3, <2>4
<1> QED BY <1>1, <1>2, PTL DEF Spec

\* Type correctness: files, records and process have their types, and a list of
\* writes is there exactly while a save goes on.
THEOREM TypeCorrect == Spec => []TypeOK
<1>1. ASSUME IInv, TokenOK
      PROVE  TypeOK
  <2>1. /\ disk \in [{"json", "yaml", "key", "wg"} -> File]
        /\ remote \in [Devices -> [kind : {"none", "plain", "team"}, license : {"own", "warp"},
                                   enrolled : BOOLEAN]]
    BY <1>1 DEF IInv, TypesInv, DiskOK, RemoteOK, Files, Records
  <2>2. run.set \in Settings /\ run.id \in Identity /\ run.dev \in Devices \cup {NoDevice}
    BY <1>1 DEF IInv, TypesInv, RunOK, Processes
  <2>3. run.pc # "save" => run.writes = <<>> /\ ~run.half
    BY <1>1 DEF IInv, ShapeInv
  <2>4. run.pc = "save" => run.writes # <<>>
    BY <1>1, NextWrite DEF Both, KeyLeft, Split, PubLeft, WGPub, WGSave, Migrate
  <2> QED BY <1>1, <2>1, <2>2, <2>3, <2>4 DEF TypeOK, TokenOK
<1> QED BY <1>1, StartupInvariant, TokenType, PTL

\* An identity in any file is one the registration API knows, with its key
\* enrolled, whatever was killed or lost on the way.
THEOREM IdentityIsReal == Spec => []SavedIdentityIsReal
<1>1. IInv => SavedIdentityIsReal
  BY DEF IInv, RealInv, Real, SavedIdentityIsReal, Files
<1> QED BY <1>1, StartupInvariant, PTL

\* The next start finds the account this process works with, or is refused
\* because a save was cut short; a process that serves has its settings on disk.
THEOREM AccountOnDisk == Spec => []DiskCarriesTheAccount
<1>1. ASSUME IInv, run.loaded, run.pc # "down"
      PROVE  /\ \/ KeyDue
                \/ LoadsTo.dev = run.id.dev /\ LoadsTo # Refused
                \/ LoadsTo = Refused /\ (run.half \/ run.warned)
             /\ (run.pc = "serving" /\ ~run.warned) => disk[run.path].set = run.set
  <2>set. (run.pc = "serving" /\ ~run.warned) => disk[run.path].set = run.set
    BY <1>1 DEF IInv, SetInv
  <2>1. CASE run.pc = "save" /\ run.after = "sni"
    <3>1. Both \/ KeyLeft
      BY <1>1, <2>1 DEF IInv, ShapeInv
    <3>2. \E i \in 1..Len(run.writes) : run.writes[i].file = "key"
      <4>1. CASE Both
        <5>1. Len(run.writes) = 2 /\ run.writes[2] = Key
          BY <4>1 DEF Both
        <5>2. 2 \in 1..Len(run.writes) /\ run.writes[2].file = "key"
          BY <5>1 DEF Key
        <5> QED BY <5>2
      <4>2. CASE KeyLeft
        <5>1. Len(run.writes) = 1 /\ run.writes[1] = Key
          BY <4>2 DEF KeyLeft
        <5>2. 1 \in 1..Len(run.writes) /\ run.writes[1].file = "key"
          BY <5>1 DEF Key
        <5> QED BY <5>2
      <4> QED BY <3>1, <4>1, <4>2
    <3> QED BY <2>1, <2>set, <3>2 DEF KeyDue
  <2>2. CASE ~(run.pc = "save" /\ run.after = "sni")
    <3> DEFINE cfg == disk[run.path]
    <3>key. /\ cfg.st # "absent" /\ (cfg.st = "cut" => run.warned)
            /\ \/ disk.key.st = "whole" /\ disk.key.id.dev = run.id.dev
               \/ disk.key.st = "absent" /\ run.id = NoIdentity /\ cfg.id = NoIdentity
               \/ disk.key.st = "absent" /\ Split
               \/ disk.key.st \in {"empty", "cut"} /\ (run.warned \/ run.half)
      BY <1>1, <2>2 DEF IInv, KeyInv
    <3>refused. /\ Refused.dev = NoDevice /\ NoIdentity # Refused
                /\ disk.key.st = "whole" => disk.key.id.dev \in Devices
                /\ Split => cfg.id = run.id /\ run.id.dev \in Devices
      <4>1. Refused.dev = NoDevice /\ Refused.mode = "bad" /\ NoIdentity.mode = ""
        BY DEF Refused, NoIdentity
      <4> QED BY <1>1, <4>1 DEF IInv, OwnedInv, Split
    <3>1. CASE cfg.st = "cut" \/ disk.key.st \in {"empty", "cut"}
      <4>1. LoadsTo = Refused
        BY <3>1, <3>key DEF LoadsTo
      <4> QED BY <3>1, <3>key, <4>1, <2>set
    <3>2. CASE cfg.st # "cut" /\ disk.key.st = "whole"
      <4>1. LoadsTo = disk.key.id
        BY <3>2, <3>key DEF LoadsTo
      <4> QED BY <3>2, <3>key, <3>refused, <4>1, <2>set, StartupAssumption
    <3>3. CASE cfg.st # "cut" /\ disk.key.st = "absent"
      <4>1. LoadsTo = cfg.id
        BY <3>3, <3>key DEF LoadsTo
      <4>2. cfg.id = run.id /\ cfg.id # Refused
        BY <3>3, <3>key, <3>refused, StartupAssumption
      <4> QED BY <4>1, <4>2, <2>set
    <3> QED BY <3>key, <3>1, <3>2, <3>3
  <2> QED BY <2>1, <2>2
<1>2. IInv => DiskCarriesTheAccount
  BY SMTT(30), <1>1 DEF DiskCarriesTheAccount
<1> QED BY <1>2, StartupInvariant, PTL

\* Only the steps that write, and the operator's, change a file.
LEMMA WhoWrites ==
  ASSUME [Next]_vars
  PROVE  \/ disk' = disk
         \/ Truncate \/ FinishWrite \/ WriteFails \/ RenameLegacy
         \/ EditModeToFree \/ DeleteConfig
  BY DEF Next, vars, Start, MigrateLegacyJSONConfigPath, LoadConfig, RunProxyWGMode,
         EnsureWGAccount, EnsureWGAcceptedTOS, WGSetDeviceName, ResolveJWT, Decide, ResetConfig,
         SaveSNI, ApplyOverrides, RegisterRefused, RebindLicense, EnrollKey, Register,
         RegisterWireGuardDevice, Stop, PutToken

\* A run in WG mode never writes key.json: its saves hold the public config or
\* the WG account.
THEOREM WGLeavesKey == Spec => WGSparesKey
<1>1. ASSUME IInv, [Next]_vars, WGRun
      PROVE  disk'.key = disk.key
  <2>0. disk \in [Files -> File] /\ "key" \in Files
    BY <1>1 DEF IInv, TypesInv, DiskOK, Files
  <2>1. CASE RenameLegacy
    BY <1>1, <2>1 DEF RenameLegacy, WGRun, Place
  <2>2. CASE EditModeToFree \/ DeleteConfig
    BY <1>1, <2>2 DEF EditModeToFree, DeleteConfig, WGRun, Place
  <2>3. CASE Truncate \/ FinishWrite \/ WriteFails
    <3> DEFINE f == Head(run.writes).file
    <3>1. run.pc = "save" /\ run.after \in {"wgAccount", "wgTerms", "wgRegister", "wgRebind", "wgName"}
      BY <1>1, <2>3 DEF Truncate, FinishWrite, WriteFails, WGRun, Place
    <3>2. f \in Files /\ f # "key"
      BY <1>1, <3>1, NextWrite DEF Paths
    <3>3. \E x : disk' = disk \/ disk' = [disk EXCEPT ![f] = x]
      BY <2>3 DEF Truncate, FinishWrite, WriteFails
    <3> HIDE DEF f
    <3> QED BY <2>0, <3>2, <3>3
  <2> QED BY <1>1, <2>1, <2>2, <2>3, WhoWrites
<1>2. IInv /\ [Next]_vars => [WGRun => disk'.key = disk.key]_vars
  BY <1>1
<1> QED BY <1>2, StartupInvariant, PTL DEF Spec, WGSparesKey

\* No other step than resolveJWTFromFlagOrFile takes a token.
LEMMA TookKept ==
  ASSUME IInv, [Next]_vars, ~ResolveJWT, run'.took
  PROVE  run.took
<1>0. run \in Processes
  BY DEF IInv, TypesInv, RunOK
<1>down. Exit => FALSE
  BY DEF Exit, Down
<1>serving. \A r : Serving(r).took = FALSE
  BY DEF Serving, Down
<1>serve. \A r : run' # Serving(r)
  BY <1>serving
<1>move. ASSUME NEW p, run' = [run EXCEPT !.pc = p] PROVE run.took
  BY <1>0, <1>move DEF Processes
<1>resume. ASSUME NEW r \in Processes, r.took => run.took, run' = Resume(r)
           PROVE  run.took
  BY <1>resume, <1>serve DEF Resume, Processes
<1>1. CASE UNCHANGED vars
  BY <1>1 DEF vars
<1>2. ASSUME NEW c \in Commands, Start(c) PROVE run.took
  BY <1>2 DEF Start, Down
<1>3. CASE MigrateLegacyJSONConfigPath
  BY <1>0, <1>3, <1>down DEF MigrateLegacyJSONConfigPath, Saving, Processes
<1>4. CASE RenameLegacy
  BY <1>4, <1>down, <1>move DEF RenameLegacy, Goto
<1>5. CASE LoadConfig
  BY ZenonT(60), <1>0, <1>5, <1>down DEF LoadConfig, Goto, Saving, Processes
<1>6. CASE Truncate
  BY <1>0, <1>6 DEF Truncate, Processes
<1>7. CASE FinishWrite
  <2>r. PICK r : r = Written(run, Tail(run.writes))
    OBVIOUS
  <2>1. run.writes \in Seq([file : Files, content : File]) /\ run.writes # <<>>
    <3>1. run.pc = "save"
      BY <1>7 DEF FinishWrite
    <3>2. run.writes # <<>>
      BY <3>1, NextWrite DEF Both, KeyLeft, Split, PubLeft, WGPub, WGSave, Migrate
    <3> QED BY <1>0, <3>2 DEF Processes
  <2>2. Tail(run.writes) \in Seq([file : Files, content : File])
    BY <2>1
  <2>3. r \in Processes
    BY <1>0, <2>r, <2>2, WrittenFacts
  <2>4. r.took = run.took
    BY <1>0, <2>r DEF Written, Processes
  <2>5. run' = r \/ run' = Resume(r)
    BY <1>7, <2>r DEF FinishWrite, Written
  <2> QED BY <2>3, <2>4, <2>5, <1>resume
<1>8. CASE WriteFails
  <2>r. PICK r : r = Dropped(run)
    OBVIOUS
  <2>1. r \in Processes
    BY <1>0, <2>r, DroppedFacts
  <2>2. r.took = run.took
    BY <1>0, <2>r DEF Dropped, Processes
  <2>3. run' = Down \/ run' = Resume(r)
    BY <1>8, <2>r DEF WriteFails, Dropped
  <2> QED BY <2>1, <2>2, <2>3, <1>resume, <1>down DEF Exit
<1>9. CASE RunProxyWGMode
  BY <1>0, <1>9, <1>down DEF RunProxyWGMode, SavePublicConfig, Saving, Processes
<1>10. CASE EnsureWGAccount \/ EnsureWGAcceptedTOS \/ WGSetDeviceName
  BY <1>10, <1>down, <1>move, <1>serve DEF EnsureWGAccount, EnsureWGAcceptedTOS, WGSetDeviceName, Goto
<1>11. CASE Decide
  BY ZenonT(60), <1>0, <1>11, <1>down DEF Decide, SaveConfig, Saving, Processes
<1>12. CASE ResetConfig
  BY <1>0, <1>12 DEF ResetConfig, SaveConfig, Saving, Processes
<1>13. CASE SaveSNI
  BY <1>0, <1>13 DEF SaveSNI, SaveConfig, Saving, Processes
<1>14. CASE ApplyOverrides
  BY <1>0, <1>14, <1>serve DEF ApplyOverrides, SaveConfig, Saving, Processes
<1>15. CASE RegisterRefused \/ Stop
  BY <1>15, <1>down DEF RegisterRefused, Stop
<1>16. CASE RebindLicense
  BY <1>0, <1>16, <1>down DEF RebindLicense, SaveWGAccount, Saving, Processes
<1>17. CASE EnrollKey
  BY <1>0, <1>17, <1>down
     DEF EnrollKey, FinishRegistration, InitNewConfig, SaveConfig, Saving, Processes
<1>18. ASSUME NEW d \in Devices, Register(d) PROVE run.took
  BY <1>0, <1>18, <1>down DEF Register, Registered, Processes
<1>19. ASSUME NEW d \in Devices, RegisterWireGuardDevice(d) PROVE run.took
  BY <1>0, <1>19, <1>down DEF RegisterWireGuardDevice, SaveWGAccount, Saving, Processes
<1>20. CASE PutToken \/ EditModeToFree \/ DeleteConfig
  BY SMTT(30), <1>20 DEF PutToken, EditModeToFree, DeleteConfig
<1> QED BY <1>1, <1>2, <1>3, <1>4, <1>5, <1>6, <1>7, <1>8, <1>9, <1>10, <1>11, <1>12, <1>13,
           <1>14, <1>15, <1>16, <1>17, <1>18, <1>19, <1>20 DEF Next

\* A device comes into being in a registration and nowhere else.
LEMMA WhoRegisters ==
  ASSUME IInv, [Next]_vars, NEW d \in Devices, NewDevice(d)
  PROVE  run.pc \in {"register", "wgRegister"}
<1>0. remote \in [Devices -> Records]
  BY DEF IInv, TypesInv, RemoteOK
<1>1. CASE remote' = remote
  BY <1>1 DEF NewDevice
<1>2. CASE RebindLicense
  <2>1. run.dev \in Devices
    BY <1>2 DEF RebindLicense, IInv, RealInv, Place
  <2>2. CASE remote' = [remote EXCEPT ![run.dev].license = "warp"]
    BY <1>0, <2>1, <2>2 DEF NewDevice, Records
  <2> QED BY <1>1, <1>2, <2>2 DEF RebindLicense
<1>3. CASE EnrollKey
  <2>1. run.dev \in Devices
    BY <1>3 DEF EnrollKey, IInv, RealInv
  <2>2. CASE remote' = [remote EXCEPT ![run.dev].enrolled = TRUE]
    BY <1>0, <2>1, <2>2 DEF NewDevice, Records
  <2> QED BY <1>1, <1>3, <2>2 DEF EnrollKey
<1>4. CASE \E e \in Devices : Register(e) \/ RegisterWireGuardDevice(e)
  BY <1>4 DEF Register, RegisterWireGuardDevice
<1> QED
  BY <1>1, <1>2, <1>3, <1>4
  DEF Next, vars, Start, MigrateLegacyJSONConfigPath, RenameLegacy, LoadConfig, Truncate,
      FinishWrite, WriteFails, RunProxyWGMode, EnsureWGAccount, EnsureWGAcceptedTOS,
      WGSetDeviceName, ResolveJWT, Decide, ResetConfig, SaveSNI, ApplyOverrides,
      RegisterRefused, Stop, PutToken, EditModeToFree, DeleteConfig

\* What LoadedInv says of key.json where a registration or a token is decided on.
LEMMA NothingPaidIsThere ==
  ASSUME IInv, run.pc \in {"mode", "decide", "register"}, ~Paid(run.id)
  PROVE  /\ ~WGRun
         /\ \/ disk[run.path].st = "absent"
            \/ /\ disk.key.st \in {"absent", "whole"} /\ ~Paid(disk.key.id)
               /\ disk.key.st = "absent" => disk[run.path].id = NoIdentity
               /\ run.loaded /\ (disk.key.id # NoIdentity => run.id # NoIdentity)
<1>1. ~WGRun
  BY DEF WGRun, Place
<1>2. CASE ~run.loaded
  BY <1>1, <1>2 DEF IInv, StageInv
<1>3. CASE run.loaded
  <2>1. disk.key.st # "whole" => disk.key.id = NoIdentity
    BY DEF IInv, OwnedInv, Files
  <2>2. ~Paid(NoIdentity)
    BY FileFacts DEF Paid
  <2> QED BY <1>1, <1>3, <2>1, <2>2 DEF IInv, LoadedInv
<1> QED BY <1>2, <1>3

\* No registration and no token over a paid account, or over one that does not
\* decode; a free one is replaced on request only.
THEOREM PaidIsLeftAlone == Spec => PaidAccountIsLeftAlone
<1> DEFINE Act ==
      ((\E d \in Devices : NewDevice(d)) \/ TokenTaken) =>
         IF WGRun THEN disk.wg.st # "whole"
         ELSE \/ disk[run.path].st = "absent"
              \/ /\ disk.key.st \in {"absent", "whole"}
                 /\ ~Paid(disk.key.id)
                 /\ disk.key.st = "absent" => disk[run.path].id = NoIdentity
                 /\ (disk.key.id # NoIdentity /\ ~TokenTaken) => UpgradeAsked
<1>1. ASSUME IInv, [Next]_vars, \E d \in Devices : NewDevice(d)
      PROVE  Act
  <2>1. run.pc \in {"register", "wgRegister"}
    BY <1>1, WhoRegisters
  <2>2. CASE run.pc = "wgRegister"
    <3>1. WGRun /\ disk.wg.st # "whole"
      BY <1>1, <2>2 DEF WGRun, Place, IInv, StageInv
    <3> QED BY <3>1
  <2>3. CASE run.pc = "register"
    <3>1. /\ run.loaded => ~Paid(run.id) /\ (run.id # NoIdentity => UpgradeAsked)
          /\ ~run.loaded => run.id = NoIdentity
      BY <1>1, <2>3 DEF IInv, RegisterInv, StageInv
    <3>2. ~Paid(run.id)
      BY <3>1, FileFacts DEF Paid
    <3> QED BY <1>1, <2>3, <3>1, <3>2, NothingPaidIsThere
  <2> QED BY <2>1, <2>2, <2>3
<1>2. ASSUME IInv, [Next]_vars, TokenTaken
      PROVE  Act
  <2>1. ResolveJWT
    BY <1>2, TookKept DEF TokenTaken
  <2>2. run.pc = "mode" /\ run \in Processes
    BY <1>2, <2>1 DEF ResolveJWT, IInv, TypesInv, RunOK
  <2> DEFINE take == token /\ ~run.cmd.license /\ ~run.cmd.jwt /\ CurrentMode = "free"
  <2>3. run' = [run EXCEPT !.pc = "decide", !.took = take]
    BY <2>1 DEF ResolveJWT
  <2>4. run'.took = take
    BY <2>2, <2>3 DEF Processes
  <2>5. CurrentMode = "free"
    BY <1>2, <2>4 DEF TokenTaken
  <2>6. ~Paid(run.id)
    <3>1. CASE HasIdentity
      BY <1>2, <2>5, <3>1, ModeFacts
    <3>2. CASE ~HasIdentity
      <4>1. run.id = NoIdentity
        BY <1>2, <3>2 DEF HasIdentity, IInv, StageInv
      <4> QED BY <4>1, FileFacts DEF Paid
    <3> QED BY <3>1, <3>2
  <2> QED BY <1>2, <2>2, <2>6, NothingPaidIsThere
<1>3. IInv /\ [Next]_vars => [Act]_vars
  BY <1>1, <1>2
<1> QED BY <1>3, StartupInvariant, PTL DEF Spec, PaidAccountIsLeftAlone

=============================================================================
