----------------------------- MODULE CliProfiles -----------------------------
(***************************************************************************)
(* bsvibe-cli-base: the profiles of a user's config.yaml, the commands     *)
(* that change them, and what the keyring has for them.  ProfileStore      *)
(* keeps nothing in memory: every operation loads the whole file, changes  *)
(* it and replaces it, without a lock, so of two processes at work the     *)
(* second to save undoes what the first did since the second's load.       *)
(* `profile add --default` and `login` take several operations; a process  *)
(* can be killed between any two, or fail to write.                        *)
(***************************************************************************)
EXTENDS Integers, Sequences, SequencesExt, FiniteSetsExt

CONSTANTS
    Procs,      \* CLI processes
    Names,      \* profile names
    Urls,       \* control-plane URLs, as _normalize_url leaves them
    DefaultName,\* the name a login takes when there is no profile: "default"
    Nothing,    \* no profile, no URL, no option, no token
    StoredToken,\* a token of the keyring
    MaxCommands \* bound: commands that are started

ASSUME NamesAssumption ==
    /\ DefaultName \in Names /\ StoredToken \notin Names
    /\ Nothing \notin Names \cup Urls \cup {StoredToken}
ASSUME BoundAssumption == MaxCommands \in Nat

Profile == [name : Names, url : Urls, default : BOOLEAN, token_ref : Names \cup {Nothing}]

Commands ==
    [do : {"use", "remove"}, name : Names]
    \cup [do : {"add"}, name : Names, url : Urls, default : BOOLEAN]
    \cup [do : {"login"}, name : Names \cup {Nothing}, url : Urls \cup {Nothing}]

VARIABLES
    file,    \* the profiles of config.yaml, in their order
    keyring, \* the access token stored per profile name
    unlocked, \* whether the keyring's backend answers
    started, \* how many commands were started
    place,   \* where a process is; "idle" between commands
    cmd,     \* its command
    entry,   \* the profile it is adding or updating
    loaded,  \* the file as its operation loaded it
    draft,   \* what its operation is about to save
    disturbed \* history: a process died at work, or saved over another's change

profileVars == <<file, keyring, unlocked, started, place, cmd, entry, loaded, draft, disturbed>>
disk == <<file, keyring, unlocked, disturbed>>

(***************************************************************************)
(* Reading a file                                                          *)
(***************************************************************************)
Has(cfg, n) == \E i \in DOMAIN cfg : cfg[i].name = n

\* The first profile of a name, and what get_profile returns.
IndexOf(cfg, n) == Min({i \in DOMAIN cfg : cfg[i].name = n})
Find(cfg, n) == cfg[IndexOf(cfg, n)]

\* get_active: the first default.
Defaults(cfg) == {i \in DOMAIN cfg : cfg[i].default}
Active(cfg) == IF Defaults(cfg) = {} THEN Nothing ELSE cfg[Min(Defaults(cfg))]

(***************************************************************************)
(* The four changes                                                        *)
(***************************************************************************)
Replaced(cfg, e) == [cfg EXCEPT ![IndexOf(cfg, e.name)] = e]

\* Mutant of Without: the filter is the wrong way round.
WithoutOthers(cfg, n) == << Find(cfg, n) >>

\* The profiles of other names: all but one, since no file has a name twice.
Without(cfg, n) == RemoveAt(cfg, IndexOf(cfg, n))

\* Mutant of Activated: the profile that was the default stays one.
ActivatedToo(cfg, n) ==
    [i \in DOMAIN cfg |-> IF cfg[i].name = n THEN [cfg[i] EXCEPT !.default = TRUE] ELSE cfg[i]]

Activated(cfg, n) == [i \in DOMAIN cfg |-> [cfg[i] EXCEPT !.default = cfg[i].name = n]]

ProfilesInit ==
    /\ file = <<>>
    /\ keyring = [n \in Names |-> Nothing]
    /\ unlocked = TRUE /\ started = 0 /\ disturbed = FALSE
    /\ place = [p \in Procs |-> "idle"]
    /\ cmd = [p \in Procs |-> Nothing] /\ entry = cmd
    /\ loaded = [p \in Procs |-> <<>>] /\ draft = loaded

Goto(p, to) == place' = [place EXCEPT ![p] = to]

\* The command ends, and with it what the process held.
Done(p) ==
    /\ Goto(p, "idle")
    /\ cmd' = [cmd EXCEPT ![p] = Nothing]
    /\ entry' = [entry EXCEPT ![p] = Nothing]
    /\ loaded' = [loaded EXCEPT ![p] = <<>>]
    /\ draft' = [draft EXCEPT ![p] = <<>>]

(***************************************************************************)
(* The start of a command: _root and the command's own options             *)
(***************************************************************************)
\* resolve_token: what the requests of a product's command, which changes
\* nothing, carry when they run with the profile now.  First the keyring, then the
\* profile's token_ref as it stands.  (A token given by --token or BSVIBE_TOKEN is
\* taken before this is asked.)
Resolved(profile) ==
    IF unlocked /\ keyring[profile.name] # Nothing THEN keyring[profile.name] ELSE profile.token_ref

\* _resolve_profile: the one that --profile names, or the active one.
Context(given) == IF given # Nothing THEN Find(file, given) ELSE Active(file)

Begin(p, c) ==
    /\ place[p] = "idle" /\ started < MaxCommands
    /\ started' = started + 1
    /\ cmd' = [cmd EXCEPT ![p] = c]
    /\ UNCHANGED disk

Use(p, n) ==
    /\ Begin(p, [do |-> "use", name |-> n])
    /\ Goto(p, "activate")
    /\ UNCHANGED <<entry, loaded, draft>>

RemoveCommand(p, n) ==
    /\ Begin(p, [do |-> "remove", name |-> n])
    /\ Goto(p, "remove")
    /\ UNCHANGED <<entry, loaded, draft>>

Add(p, n, url, default) ==
    /\ Begin(p, [do |-> "add", name |-> n, url |-> url, default |-> default])
    /\ Goto(p, "add")
    /\ entry' = [entry EXCEPT ![p] =
                   [name |-> n, url |-> url, default |-> default, token_ref |-> Nothing]]
    /\ UNCHANGED <<loaded, draft>>

\* login: name and URL default to those of the profile the command runs under,
\* each on its own, so that a login under another name takes that profile's URL
\* with it.  Without any URL it exits.
LoginAs(p, given, n, url) ==
    LET active == Context(given)
        name == IF n # Nothing THEN n ELSE IF active # Nothing THEN active.name ELSE DefaultName
        bound == IF url # Nothing THEN url ELSE IF active # Nothing THEN active.url ELSE Nothing
    IN /\ given # Nothing => Has(file, given)
       /\ bound # Nothing
       /\ Begin(p, [do |-> "login", name |-> n, url |-> url])
       /\ Goto(p, "handshake")
       /\ entry' = [entry EXCEPT ![p] =
                      [name |-> name, url |-> bound, default |-> TRUE, token_ref |-> name]]
       /\ UNCHANGED <<loaded, draft>>

(***************************************************************************)
(* do_login                                                                *)
(***************************************************************************)
\* Mutant of SaveToken: the profile is updated all the same.
SaveTokenAnyway(p) ==
    /\ place[p] = "handshake"
    /\ keyring' = IF unlocked THEN [keyring EXCEPT ![entry[p].name] = StoredToken] ELSE keyring
    /\ Goto(p, "update")
    /\ UNCHANGED <<file, unlocked, started, disturbed, cmd, entry, loaded, draft>>

\* The handshake is over and the token goes to the keyring; when that refuses,
\* the login fails before it touches the profiles.
SaveToken(p) ==
    /\ place[p] = "handshake"
    /\ IF unlocked THEN /\ keyring' = [keyring EXCEPT ![entry[p].name] = StoredToken]
                  /\ Goto(p, "get")
                  /\ UNCHANGED <<cmd, entry, loaded, draft>>
             ELSE Done(p) /\ UNCHANGED keyring
    /\ UNCHANGED <<file, unlocked, started, disturbed>>

\* get_profile: an existing profile is merged with what the login knows (the
\* tenant, which is left out here), another is added.
GetProfile(p) ==
    /\ place[p] = "get"
    /\ Goto(p, IF Has(file, entry[p].name) THEN "update" ELSE "add")
    /\ UNCHANGED <<disk, started, cmd, entry, loaded, draft>>

(***************************************************************************)
(* ProfileStore: each operation loads and checks, then saves               *)
(***************************************************************************)
Load(p, cfg) ==
    /\ loaded' = [loaded EXCEPT ![p] = file]
    /\ draft' = [draft EXCEPT ![p] = cfg]
    /\ UNCHANGED <<disk, started, cmd, entry>>

\* The operation raises, and with it the command.
Fail(p) == Done(p) /\ UNCHANGED <<disk, started>>

Activating(p) == IF cmd[p].do = "use" THEN cmd[p].name ELSE entry[p].name

\* Mutant of AddProfile: an existing name is not refused.
AddProfileTwice(p) ==
    /\ place[p] = "add"
    /\ Goto(p, "add saving") /\ Load(p, Append(file, entry[p]))

AddProfile(p) ==
    /\ place[p] = "add"
    /\ IF Has(file, entry[p].name) THEN Fail(p)
       ELSE Goto(p, "add saving") /\ Load(p, Append(file, entry[p]))

\* The profile can be gone since get_profile; it is added then.
UpdateProfile(p) ==
    /\ place[p] = "update"
    /\ IF Has(file, entry[p].name)
       THEN Goto(p, "update saving") /\ Load(p, Replaced(file, entry[p]))
       ELSE /\ Goto(p, "add")
            /\ UNCHANGED <<disk, started, cmd, entry, loaded, draft>>

RemoveProfile(p) ==
    /\ place[p] = "remove"
    /\ IF Has(file, cmd[p].name)
       THEN Goto(p, "remove saving") /\ Load(p, Without(file, cmd[p].name))
       ELSE Fail(p)

SetActive(p) ==
    /\ place[p] = "activate"
    /\ IF Has(file, Activating(p))
       THEN Goto(p, "activate saving") /\ Load(p, Activated(file, Activating(p)))
       ELSE Fail(p)

Saving == {"add saving", "update saving", "remove saving", "activate saving"}

\* The file is replaced by the draft; add with --default and login go on to
\* set_active.
Save(p) ==
    /\ place[p] \in Saving
    /\ file' = draft[p]
    /\ IF place[p] \in {"add saving", "update saving"} /\ entry[p].default
       THEN /\ Goto(p, "activate")
            /\ loaded' = [loaded EXCEPT ![p] = <<>>]
            /\ draft' = [draft EXCEPT ![p] = <<>>]
            /\ UNCHANGED <<cmd, entry>>
       ELSE Done(p)
    /\ disturbed' = (disturbed \/ loaded[p] # file)
    /\ UNCHANGED <<keyring, unlocked, started>>

\* The process is killed, or the write of its tempfile fails.
Die(p) ==
    /\ place[p] # "idle"
    /\ Done(p)
    /\ disturbed' = TRUE
    /\ UNCHANGED <<file, keyring, unlocked, started>>

\* The backend is locked or unlocked.
KeyringFlips ==
    /\ unlocked' = ~unlocked
    /\ UNCHANGED <<file, keyring, started, disturbed, place, cmd, entry, loaded, draft>>

Command(p) ==
    \/ \E n \in Names : Use(p, n) \/ RemoveCommand(p, n)
    \/ \E n \in Names, url \in Urls, default \in BOOLEAN : Add(p, n, url, default)
    \/ \E given, n \in Names \cup {Nothing}, url \in Urls \cup {Nothing} : LoginAs(p, given, n, url)

ProfilesNext ==
    \/ KeyringFlips
    \/ \E p \in Procs :
        \/ Command(p) \/ SaveToken(p) \/ GetProfile(p)
        \/ AddProfile(p) \/ UpdateProfile(p) \/ RemoveProfile(p) \/ SetActive(p)
        \/ Save(p) \/ Die(p)

ProfilesSpec == ProfilesInit /\ [][ProfilesNext]_profileVars

(***************************************************************************)
(* Properties                                                              *)
(***************************************************************************)
Places == {"idle", "handshake", "get", "add", "update", "remove", "activate",
           "add saving", "update saving", "remove saving", "activate saving"}

\* The variables have their types, and no name is twice in the file, whatever
\* commands overlap or die: every command that adds one has loaded the file first.
ProfilesTypeOK ==
    /\ file \in Seq(Profile)
    /\ \A i, j \in DOMAIN file : file[i].name = file[j].name => i = j
    /\ keyring \in [Names -> {StoredToken, Nothing}] /\ unlocked \in BOOLEAN
    /\ started \in 0..MaxCommands /\ disturbed \in BOOLEAN
    /\ place \in [Procs -> Places]
    /\ cmd \in [Procs -> Commands \cup {Nothing}]
    /\ entry \in [Procs -> Profile \cup {Nothing}]
    /\ loaded \in [Procs -> Seq(Profile)] /\ draft \in [Procs -> Seq(Profile)]

\* A process saves over a file that another one changed since its load.
Stale(p) == loaded[p] # file
Saves(p) == place[p] \in Saving /\ file' = draft[p] /\ place'[p] # place[p]

\* With all commands at an end there is one default at most, unless one of them
\* died before its set_active or saved over another's change: the second default
\* that add --default and login leave for a while does not outlast them.
OneDefault ==
    (\A p \in Procs : place[p] = "idle") /\ ~disturbed
        => \A i, j \in Defaults(file) : i = j

\* A profile goes only when it is removed, or when a process saves a file that it
\* loaded before another changed it.
NothingVanishes ==
    [][\A n \in Names : Has(file, n) /\ ~Has(file', n)
         => \E p \in Procs : Saves(p) /\ (Stale(p) \/ cmd[p] = [do |-> "remove", name |-> n])]_profileVars

\* While the keyring is up, a call with any profile of the file carries a token or
\* none: do_login writes the token before the token_ref, and no order of saves
\* brings a token_ref without one.
RefsBacked == unlocked => \A i \in DOMAIN file : Resolved(file[i]) \in {StoredToken, Nothing}
=============================================================================
