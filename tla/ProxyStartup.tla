---------------------------- MODULE ProxyStartup ----------------------------
(***************************************************************************)
(* How `uscf proxy` finds, migrates, creates and saves its account: the    *)
(* root command's loader, runProxyCmd and runProxyWGMode, the registration *)
(* flow and the files it leaves behind.                                    *)
(*                                                                         *)
(* One process runs at a time and may be killed between any two steps.     *)
(* Every file is written in place: it is truncated first, so a kill or a   *)
(* full disk leaves it empty or cut off.  The registration API answers,    *)
(* refuses, or carries out a request whose answer is lost.                 *)
(***************************************************************************)
EXTENDS Integers, Sequences

CONSTANTS
    Devices,    \* devices the registration API can create
    NoDevice,   \* no device
    Commands    \* command lines the operator uses

CommandLine ==
    [explicit : BOOLEAN,                 \* -c config.json is given
     license : BOOLEAN, jwt : BOOLEAN,   \* --license, --jwt
     wg : {"unset", "on", "off"},        \* --wg, --wg=false
     experimental : BOOLEAN,
     l4 : BOOLEAN,                       \* --l4 (--http2 conflicts in the same way)
     port : BOOLEAN,                     \* any of the listener flags
     reset : BOOLEAN]                    \* --reset-config

ASSUME StartupAssumption ==
    /\ NoDevice \notin Devices
    /\ Commands \subseteq CommandLine

VARIABLES
    disk,       \* config.json, config.yaml, key.json, wg-account.json
    token,      \* jwt.txt holds a token
    remote,     \* what the registration API knows of a device
    run         \* the process

vars == <<disk, token, remote, run>>

\* Settings: whether the operator's own listener settings are among them, and
\* the two transport switches.
Settings == [custom : BOOLEAN, wg : BOOLEAN, l4 : BOOLEAN]
DefaultSettings == [custom |-> FALSE, wg |-> FALSE, l4 |-> FALSE]

\* The key fields.  "" is a file from before account modes.
Identity == [dev : Devices \cup {NoDevice}, mode : {"", "free", "premium", "team", "bad"},
             license : {"own", "warp"}]
NoIdentity == [dev |-> NoDevice, mode |-> "", license |-> "own"]

\* A file is absent, whole, truncated to nothing, or cut off so that it does
\* not decode.
File == [st : {"absent", "whole", "empty", "cut"}, set : Settings, id : Identity]
Broken(st)      == [st |-> st, set |-> DefaultSettings, id |-> NoIdentity]
PublicFile(set) == [st |-> "whole", set |-> set, id |-> NoIdentity]
KeyFile(id)     == [st |-> "whole", set |-> DefaultSettings, id |-> id]

Down ==
    [pc |-> "down", cmd |-> [explicit |-> FALSE, license |-> FALSE, jwt |-> FALSE, wg |-> "unset",
                             experimental |-> FALSE, l4 |-> FALSE, port |-> FALSE, reset |-> FALSE],
     path |-> "yaml",                       \* the config path the flag resolves to
     loaded |-> FALSE,                      \* ConfigLoaded
     set |-> DefaultSettings, id |-> NoIdentity,   \* AppConfig
     took |-> FALSE,                        \* the jwt comes from jwt.txt
     mode |-> "free",                       \* the mode being registered
     dev |-> NoDevice,                      \* the device being registered
     writes |-> <<>>, half |-> FALSE,       \* files to write; the first is truncated
     after |-> "down", strict |-> FALSE,    \* where to go on; a failure is fatal
     warned |-> FALSE]                      \* a save failed and was only logged

Exit == run' = Down

\* The proxy runs: the flags are spent.
Serving(r) == [Down EXCEPT !.pc = "serving", !.path = r.path, !.loaded = r.loaded,
                           !.set = r.set, !.id = r.id, !.warned = r.warned]
Goto(p) == run' = [run EXCEPT !.pc = p]

\* What a save puts on the process's list.
Saving(r, writes, after, strict) ==
    [r EXCEPT !.pc = "save", !.writes = writes, !.after = after, !.strict = strict]

\* SaveConfig: the public config, then key.json.
SaveConfig(r, after, strict) ==
    Saving(r, << [file |-> r.path, content |-> PublicFile(r.set)],
                 [file |-> "key", content |-> KeyFile(r.id)] >>, after, strict)

\* Mutant: WG mode saves with SaveConfig.
BugSavesKeyToo(r, after) == SaveConfig(r, after, FALSE)

\* SavePublicConfig: key.json is not written.
SavePublicConfig(r, after) ==
    Saving(r, << [file |-> r.path, content |-> PublicFile(r.set)] >>, after, FALSE)

\* The save is over.
Resume(r) ==
    IF r.after = "serving" THEN Serving(r)
    ELSE [r EXCEPT !.pc = r.after, !.after = "down", !.strict = FALSE]

-----------------------------------------------------------------------------
(* Writing: os.WriteFile or os.Create and Encode, in place *)

Truncate ==
    /\ run.pc = "save" /\ ~run.half
    /\ disk' = [disk EXCEPT ![Head(run.writes).file] = Broken("empty")]
    /\ run' = [run EXCEPT !.half = TRUE]
    /\ UNCHANGED <<token, remote>>

FinishWrite ==
    /\ run.pc = "save" /\ run.half
    /\ disk' = [disk EXCEPT ![Head(run.writes).file] = Head(run.writes).content]
    /\ LET r == [run EXCEPT !.half = FALSE, !.writes = Tail(@)]
       IN run' = IF r.writes = <<>> THEN Resume(r) ELSE r
    /\ UNCHANGED <<token, remote>>

\* The file cannot be opened, or the disk is full.  The rest of the list is
\* dropped; the caller returns the error or logs it and goes on.
WriteFails ==
    /\ run.pc = "save"
    /\ \/ UNCHANGED disk
       \/ run.half /\ disk' = [disk EXCEPT ![Head(run.writes).file] = Broken("cut")]
    /\ run' = IF run.strict THEN Down
              ELSE Resume([run EXCEPT !.writes = <<>>, !.half = FALSE, !.warned = TRUE])
    /\ UNCHANGED <<token, remote>>

-----------------------------------------------------------------------------
(* PersistentPreRunE *)

Start(c) ==
    /\ run.pc = "down"
    /\ run' = [Down EXCEPT !.pc = "migrate", !.cmd = c]
    /\ UNCHANGED <<disk, token, remote>>

\* MigrateLegacyJSONConfigPath: a lone config.json is transcoded unless a path
\* was given.  (config.yml is treated like config.yaml.)
MigrateLegacyJSONConfigPath ==
    /\ run.pc = "migrate"
    /\ IF run.cmd.explicit \/ disk.yaml.st # "absent" \/ disk.json.st = "absent"
       THEN run' = [run EXCEPT !.pc = "load", !.path = IF run.cmd.explicit THEN "json" ELSE "yaml"]
       ELSE IF disk.json.st = "cut" THEN Exit
       ELSE run' = Saving(run, << [file |-> "yaml", content |-> disk.json] >>, "rename", TRUE)
    /\ UNCHANGED <<disk, token, remote>>

\* os.Rename: nothing reads config.json.bak again.
RenameLegacy ==
    /\ run.pc = "rename"
    /\ \/ /\ disk' = [disk EXCEPT !.json = Broken("absent")]
          /\ Goto("load")
       \/ Exit /\ UNCHANGED disk
    /\ UNCHANGED <<token, remote>>

\* Mutant: the split rewrites the config before the key file is written.
BugConfigFirst ==
    /\ run.pc = "load"
    /\ LET cfg    == disk[run.path]
           keyed  == [run EXCEPT !.pc = "mode", !.loaded = TRUE, !.set = cfg.set, !.id = disk.key.id]
           legacy == [keyed EXCEPT !.id = cfg.id]
       IN \/ cfg.st = "absent" /\ Goto("mode")
          \/ cfg.st = "cut" /\ Exit
          \/ cfg.st \in {"whole", "empty"} /\ disk.key.st = "whole" /\ run' = keyed
          \/ cfg.st \in {"whole", "empty"} /\ disk.key.st \in {"empty", "cut"} /\ Exit
          \/ /\ cfg.st \in {"whole", "empty"} /\ disk.key.st = "absent"
             /\ run' = IF cfg.id = NoIdentity THEN legacy
                       ELSE Saving(legacy, << [file |-> run.path, content |-> PublicFile(cfg.set)],
                                              [file |-> "key", content |-> KeyFile(cfg.id)] >>,
                                   "mode", TRUE)
    /\ UNCHANGED <<disk, token, remote>>

\* LoadConfig.  A missing config file is not an error to the root command, and
\* key.json is then not looked at.  An empty file decodes to the defaults.  Key
\* fields of a legacy config are split off into key.json.
LoadConfig ==
    /\ run.pc = "load"
    /\ LET cfg    == disk[run.path]
           keyed  == [run EXCEPT !.pc = "mode", !.loaded = TRUE, !.set = cfg.set, !.id = disk.key.id]
           legacy == [keyed EXCEPT !.id = cfg.id]
       IN \/ cfg.st = "absent" /\ Goto("mode")
          \/ cfg.st = "cut" /\ Exit
          \/ cfg.st \in {"whole", "empty"} /\ disk.key.st = "whole" /\ run' = keyed
          \/ cfg.st \in {"whole", "empty"} /\ disk.key.st \in {"empty", "cut"} /\ Exit
          \/ /\ cfg.st \in {"whole", "empty"} /\ disk.key.st = "absent"
             /\ run' = IF cfg.id = NoIdentity THEN legacy
                       ELSE Saving(legacy, << [file |-> "key", content |-> KeyFile(cfg.id)],
                                              [file |-> run.path, content |-> PublicFile(cfg.set)] >>,
                                   "mode", TRUE)
    /\ UNCHANGED <<disk, token, remote>>

-----------------------------------------------------------------------------
(* runProxyWGMode *)

WGModeSelected == run.cmd.wg = "on" \/ (run.cmd.wg = "unset" /\ run.set.wg)

\* applySocksFlagOverrides
ConfigChanged == run.cmd.port \/ run.cmd.l4 \/ run.cmd.wg # "unset"
Overridden ==
    [custom |-> run.set.custom \/ run.cmd.port,
     wg |-> IF run.cmd.wg = "unset" THEN run.set.wg ELSE run.cmd.wg = "on",
     l4 |-> run.set.l4 \/ run.cmd.l4]

RunProxyWGMode ==
    /\ run.pc = "mode" /\ WGModeSelected
    /\ IF ~run.cmd.experimental \/ Overridden.l4 THEN Exit
       ELSE LET r == [run EXCEPT !.set = Overridden, !.pc = "wgAccount"]
            IN run' = IF ConfigChanged THEN SavePublicConfig(r, "wgAccount") ELSE r
    /\ UNCHANGED <<disk, token, remote>>

\* LoadWGAccount and Validate
WGAccountIsValid == disk.wg.st = "whole"

\* ensureWGAccount: a valid account is reused.
EnsureWGAccount ==
    /\ run.pc = "wgAccount"
    /\ run' = IF WGAccountIsValid THEN Serving(run) ELSE [run EXCEPT !.pc = "wgTerms"]
    /\ UNCHANGED <<disk, token, remote>>

\* ensureWGAcceptedTOS: the terms are declined, or accepted.
EnsureWGAcceptedTOS ==
    /\ run.pc = "wgTerms"
    /\ \/ Exit
       \/ ~(run.cmd.license /\ run.cmd.jwt) /\ Goto("wgRegister")
    /\ UNCHANGED <<disk, token, remote>>

\* buildWGAccount
WGAccount(d) == KeyFile([NoIdentity EXCEPT !.dev = d])

\* registerWGAccount saves the account before it sets the device's name.
SaveWGAccount(r) == Saving(r, << [file |-> "wg", content |-> WGAccount(r.dev)] >>, "wgName", TRUE)

WGSetDeviceName ==
    /\ run.pc = "wgName"
    /\ run' = Serving(run) \/ Exit
    /\ UNCHANGED <<disk, token, remote>>

-----------------------------------------------------------------------------
(* The registration API, as the client uses it *)

\* A registration is refused or the API cannot be reached; nothing happens.
RegisterRefused ==
    /\ run.pc \in {"register", "wgRegister"}
    /\ Exit
    /\ UNCHANGED <<disk, token, remote>>

NewRecord(team, enrolled) ==
    [kind |-> IF team THEN "team" ELSE "plain", license |-> "own", enrolled |-> enrolled]

\* A premium account has its license bound before its key is enrolled.
Registered(r, d) ==
    [r EXCEPT !.dev = d, !.pc = IF r.mode = "premium" THEN "rebind" ELSE "enroll"]

\* Register: the device is created, and the answer arrives or is lost.
Register(d) ==
    /\ run.pc = "register" /\ remote[d].kind = "none"
    /\ remote' = [remote EXCEPT ![d] = NewRecord(run.mode = "team", FALSE)]
    /\ Exit \/ run' = Registered(run, d)
    /\ UNCHANGED <<disk, token>>

\* RegisterWireGuardDevice: the same, with the WireGuard key in the request.
RegisterWireGuardDevice(d) ==
    /\ run.pc = "wgRegister" /\ remote[d].kind = "none"
    /\ remote' = [remote EXCEPT ![d] = NewRecord(run.cmd.jwt, TRUE)]
    /\ \/ Exit
       \/ LET r == [run EXCEPT !.dev = d]
          IN run' = IF run.cmd.license THEN [r EXCEPT !.pc = "wgRebind"] ELSE SaveWGAccount(r)
    /\ UNCHANGED <<disk, token>>

\* Mutant: a failed rebind is only logged.
BugRebindIsOptional ==
    /\ run.pc \in {"rebind", "wgRebind"}
    /\ run' = IF run.pc = "wgRebind" THEN SaveWGAccount(run) ELSE [run EXCEPT !.pc = "enroll"]
    /\ UNCHANGED <<disk, token, remote>>

\* RebindLicense: GET, PUT, GET.  It fails before the PUT, or after it.
RebindLicense ==
    /\ run.pc \in {"rebind", "wgRebind"}
    /\ \/ Exit /\ UNCHANGED remote
       \/ /\ remote' = [remote EXCEPT ![run.dev].license = "warp"]
          /\ \/ Exit
             \/ run' = IF run.pc = "wgRebind" THEN SaveWGAccount(run) ELSE [run EXCEPT !.pc = "enroll"]
    /\ UNCHANGED <<disk, token>>

\* InitNewConfig: the new identity, and the default settings.
InitNewConfig(r) ==
    [r EXCEPT !.loaded = TRUE, !.set = DefaultSettings,
              !.id = [dev |-> r.dev, mode |-> r.mode, license |-> remote[r.dev].license]]

\* The end of handleRegistration: the answer names no peer or no endpoint that
\* parses, or the new config is saved.
FinishRegistration == Exit \/ run' = SaveConfig(InitNewConfig(run), "sni", TRUE)

\* EnrollKey: the request fails, or the key is enrolled and the answer is lost
\* or arrives.
EnrollKey ==
    /\ run.pc = "enroll"
    /\ \/ Exit /\ UNCHANGED remote
       \/ /\ remote' = [remote EXCEPT ![run.dev].enrolled = TRUE]
          /\ Exit \/ FinishRegistration
    /\ UNCHANGED <<disk, token>>

-----------------------------------------------------------------------------
(* runProxyCmd *)

\* isStartupConfigValid of a loaded config.
HasIdentity == run.loaded /\ run.id # NoIdentity

\* resolveAccountMode.  A Team device has an id that starts with "t.".
ResolveAccountMode ==
    IF run.id.mode \in {"free", "premium", "team"} THEN run.id.mode
    ELSE IF run.id.mode = "" /\ remote[run.id.dev].kind = "team" THEN "team"
    ELSE IF run.id.mode = "" /\ run.cmd.license /\ run.id.license = "warp" THEN "premium"
    ELSE "free"

\* Mutant: only a premium account is protected.
BugTeamIsFree == IF HasIdentity /\ ResolveAccountMode = "premium" THEN "premium" ELSE "free"

CurrentMode == IF HasIdentity THEN ResolveAccountMode ELSE "free"

\* resolveJWTFromFlagOrFile: jwt.txt is read and cleared (which may fail) when
\* no flag asks for an upgrade and the account is free.
ResolveJWT ==
    /\ run.pc = "mode" /\ ~WGModeSelected
    /\ LET take == token /\ ~run.cmd.license /\ ~run.cmd.jwt /\ CurrentMode = "free"
       IN /\ run' = [run EXCEPT !.pc = "decide", !.took = take]
          /\ token' \in IF take THEN {FALSE, TRUE} ELSE {token}
    /\ UNCHANGED <<disk, remote>>

\* decideStartupAction
Decide ==
    /\ run.pc = "decide"
    /\ LET jwt  == run.cmd.jwt \/ run.took
           free == CurrentMode = "free"
           r    == [run EXCEPT !.pc = "reset", !.id.mode = CurrentMode]
           RegisterAs(m) == run' = [run EXCEPT !.pc = "register", !.mode = m]
       IN \/ run.cmd.license /\ jwt /\ Exit
          \/ run.cmd.license /\ ~jwt /\ free /\ RegisterAs("premium")
          \/ ~run.cmd.license /\ jwt /\ free /\ RegisterAs("team")
          \/ ~run.cmd.license /\ ~jwt /\ ~HasIdentity /\ RegisterAs("free")
          \/ /\ ~(run.cmd.license /\ jwt) /\ HasIdentity
             /\ free => ~run.cmd.license /\ ~jwt
             /\ run' = IF run.id.mode = CurrentMode THEN r ELSE SaveConfig(r, "reset", FALSE)
    /\ UNCHANGED <<disk, token, remote>>

ResetConfig ==
    /\ run.pc = "reset"
    /\ run' = IF run.cmd.reset
              THEN SaveConfig([run EXCEPT !.set = DefaultSettings], "overrides", TRUE)
              ELSE [run EXCEPT !.pc = "overrides"]
    /\ UNCHANGED <<disk, token, remote>>

\* After a registration the SNI is filled in and everything is saved again.
SaveSNI ==
    /\ run.pc = "sni"
    /\ run' = SaveConfig(run, "overrides", FALSE)
    /\ UNCHANGED <<disk, token, remote>>

ApplyOverrides ==
    /\ run.pc = "overrides"
    /\ LET r == [run EXCEPT !.set = Overridden]
       IN run' = IF ConfigChanged THEN SaveConfig(r, "serving", FALSE) ELSE Serving(r)
    /\ UNCHANGED <<disk, token, remote>>

\* The process ends, or is killed, wherever it is.
Stop ==
    /\ run.pc # "down"
    /\ Exit
    /\ UNCHANGED <<disk, token, remote>>

-----------------------------------------------------------------------------
(* The operator, while the process is down *)

PutToken ==
    /\ run.pc = "down" /\ ~token
    /\ token' = TRUE
    /\ UNCHANGED <<disk, remote, run>>

\* "Edit key.json and set account_mode to free", to switch accounts.
EditModeToFree ==
    /\ run.pc = "down"
    /\ disk.key.st = "whole" /\ disk.key.id.mode # "free"
    /\ disk' = [disk EXCEPT !.key.id.mode = "free"]
    /\ UNCHANGED <<token, remote, run>>

\* "delete config and reinitialize"
DeleteConfig ==
    /\ run.pc = "down"
    /\ disk.key.st # "absent"
    /\ disk' = [disk EXCEPT !.json = Broken("absent"), !.yaml = Broken("absent"),
                            !.key = Broken("absent")]
    /\ UNCHANGED <<token, remote, run>>

-----------------------------------------------------------------------------
(* A new installation, one whose listener was configured beforehand, one with
   a split config, and a legacy one whose config.json holds everything. *)
Unknown == [kind |-> "none", license |-> "own", enrolled |-> FALSE]

Init ==
    /\ token = FALSE
    /\ run = Down
    /\ \/ /\ remote = [d \in Devices |-> Unknown]
          /\ \E json \in BOOLEAN, cfg \in {Broken("absent"),
                                           PublicFile([DefaultSettings EXCEPT !.custom = TRUE])} :
               disk = [json |-> IF json THEN cfg ELSE Broken("absent"),
                       yaml |-> IF json THEN Broken("absent") ELSE cfg,
                       key |-> Broken("absent"), wg |-> Broken("absent")]
       \/ \E d \in Devices, kind \in {"plain", "team"}, lic \in {"own", "warp"},
             mode \in {"", "free", "premium", "team", "bad"}, split \in BOOLEAN :
            /\ mode = "premium" => kind = "plain" /\ lic = "warp"
            /\ mode = "team" => kind = "team"
            /\ lic = "warp" => kind = "plain"
            /\ remote = [e \in Devices |-> IF e = d THEN [kind |-> kind, license |-> lic,
                                                          enrolled |-> TRUE]
                                           ELSE Unknown]
            /\ LET set == [DefaultSettings EXCEPT !.custom = TRUE]
                   id  == [dev |-> d, mode |-> mode, license |-> lic]
               IN disk = [json |-> IF split THEN PublicFile(set)
                                   ELSE [st |-> "whole", set |-> set, id |-> id],
                          yaml |-> Broken("absent"),
                          key |-> IF split THEN KeyFile(id) ELSE Broken("absent"),
                          wg |-> Broken("absent")]

Next ==
    \/ \E c \in Commands : Start(c)
    \/ MigrateLegacyJSONConfigPath \/ RenameLegacy \/ LoadConfig
    \/ Truncate \/ FinishWrite \/ WriteFails
    \/ RunProxyWGMode \/ EnsureWGAccount \/ EnsureWGAcceptedTOS \/ WGSetDeviceName
    \/ ResolveJWT \/ Decide \/ ResetConfig \/ SaveSNI \/ ApplyOverrides
    \/ RegisterRefused \/ RebindLicense \/ EnrollKey
    \/ \E d \in Devices : Register(d) \/ RegisterWireGuardDevice(d)
    \/ Stop
    \/ PutToken \/ EditModeToFree \/ DeleteConfig

Spec == Init /\ [][Next]_vars

-----------------------------------------------------------------------------
(* Properties *)

TypeOK ==
    /\ disk \in [{"json", "yaml", "key", "wg"} -> File]
    /\ token \in BOOLEAN
    /\ remote \in [Devices -> [kind : {"none", "plain", "team"}, license : {"own", "warp"},
                               enrolled : BOOLEAN]]
    /\ run.set \in Settings /\ run.id \in Identity /\ run.dev \in Devices \cup {NoDevice}
    /\ run.half => run.pc = "save"
    /\ run.pc = "save" <=> run.writes # <<>>

\* The place of the process, seen through a save.
Place == IF run.pc = "save" THEN run.after ELSE run.pc
WGRun == Place \in {"wgAccount", "wgTerms", "wgRegister", "wgRebind", "wgName"}

Paid(id) == id.mode \in {"premium", "team"}
UpgradeAsked == run.cmd.license \/ run.cmd.jwt \/ run.took
NewDevice(d) == remote[d].kind = "none" /\ remote'[d].kind # "none"
TokenTaken == run'.took /\ ~run.took

\* With a config file in place, no device is registered and no token is taken
\* over an account that key.json holds as paid or holds in a state that does not
\* decode, whatever was interrupted before; a free one is only replaced when an
\* upgrade was asked for.  A WG run registers only when it has no account.
PaidAccountIsLeftAlone ==
    [][((\E d \in Devices : NewDevice(d)) \/ TokenTaken) =>
         IF WGRun THEN disk.wg.st # "whole"
         ELSE \/ disk[run.path].st = "absent"
              \/ /\ disk.key.st \in {"absent", "whole"}
                 /\ ~Paid(disk.key.id)
                 /\ disk.key.st = "absent" => disk[run.path].id = NoIdentity
                 /\ (disk.key.id # NoIdentity /\ ~TokenTaken) => UpgradeAsked]_vars

\* An identity on disk is one the API knows, with its key enrolled; one saved
\* as premium has the license bound, one saved as team is a Team device.
SavedIdentityIsReal ==
    \A f \in {"json", "yaml", "key", "wg"} :
        LET id == disk[f].id
        IN id.dev # NoDevice =>
             /\ remote[id.dev].enrolled
             /\ id.mode = "premium" => remote[id.dev].license = "warp"
             /\ id.mode = "team" => remote[id.dev].kind = "team"

\* What LoadConfig would find at the path of this run.
Refused == [NoIdentity EXCEPT !.mode = "bad"]
LoadsTo ==
    LET cfg == disk[run.path]
    IN IF cfg.st = "absent" THEN NoIdentity
       ELSE IF cfg.st = "cut" \/ disk.key.st \in {"empty", "cut"} THEN Refused
       ELSE IF disk.key.st = "whole" THEN disk.key.id
       ELSE cfg.id

\* A registration has not yet replaced the key file.
KeyDue ==
    run.after = "sni" /\ \E i \in 1..Len(run.writes) : run.writes[i].file = "key"

\* Killed at any moment, the process leaves the account it works with to the
\* next start, also while it splits a legacy config: what is on disk loads as
\* that account, or is refused because a save was cut short.  When it serves, the
\* settings it serves with are on disk as well.
DiskCarriesTheAccount ==
    (run.loaded /\ run.pc # "down") =>
        /\ \/ KeyDue
           \/ LoadsTo.dev = run.id.dev /\ LoadsTo # Refused
           \/ LoadsTo = Refused /\ (run.half \/ run.warned)
        /\ (run.pc = "serving" /\ ~run.warned) => disk[run.path].set = run.set

\* A run in WG mode, once it has loaded its config, leaves key.json alone.
WGSparesKey == [][WGRun => disk'.key = disk.key]_vars

-----------------------------------------------------------------------------
(* What comments and documents say and the code does not do (see the README).  *)

\* "If key.json already has account_mode premium or team, USCF ignores new
\* --license and --jwt flags to avoid accidental re-registration": no device is
\* registered by a MASQUE run while key.json holds a paid account.
PaidKeyIsNeverReplaced ==
    [][(\E d \in Devices : NewDevice(d)) => WGRun \/ ~Paid(disk.key.id)]_vars

\* "A legacy config.json is still read transparently, so existing deployments
\* keep working": no run registers while a legacy config.json holds an account.
LegacyAccountIsKept ==
    [][(\E d \in Devices : NewDevice(d)) => WGRun \/ UpgradeAsked \/ disk.json.id = NoIdentity]_vars

\* "To preconfigure the SOCKS listener before first run", put a config in
\* place: a run that reads it without --reset-config does not replace it by the
\* defaults.
SettingsAreKept ==
    [][\A f \in {"json", "yaml"} :
         (run.pc = "save" /\ disk[f].set.custom /\ disk'[f].st = "empty") =>
           (run.cmd.reset \/ Head(run.writes).content.set.custom)]_vars

\* "it never reads or writes key.json": a run with --wg leaves it as it is.
WGNeverWritesKey == [][run.cmd.wg = "on" => disk'.key = disk.key]_vars

=============================================================================
