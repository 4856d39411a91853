---------------------------- MODULE Credentials -----------------------------
(***************************************************************************)
(* The passwords of an installation on their way from the operator to the  *)
(* installer.  encrypt-secrets encrypts some of them with a secrets key    *)
(* and writes them into config.yaml; an installation unlocks them with a   *)
(* key, unless the environment provides both, lets the operator keep or    *)
(* replace them on the screens of the TUI, and refuses to start without    *)
(* them.  Runs are cancelled and die while the file is written, and the    *)
(* operator edits the file by hand between runs.                           *)
(*                                                                         *)
(* A ciphertext is the record of what it was made from: AES-GCM opens it   *)
(* with the same key and the same associated data, or not at all.          *)
(***************************************************************************)
EXTENDS Naturals

CONSTANTS
    Keys,        \* secrets keys the operator uses
    Passwords,   \* passwords the operator uses
    None,        \* the empty password, no key
    Styles,      \* how config.yaml may write its secrets at first
    MaxRuns,     \* bound: runs of encrypt-secrets and of the installer
    MaxCrashes   \* bound: runs that die while the file is written

Secrets == {"luks", "user"}    \* the name bound into the ciphertext

(* Styles of the secrets in config.yaml:                                   *)
(*   none    no section                                                    *)
(*   block   one line for each secret                                      *)
(*   flow    secrets: {...} on one line                                    *)
(*   decoy   as block, and text further up holds a line with the key of    *)
(*           the LUKS password                                             *)
AllStyles == {"none", "block", "flow", "decoy"}

ASSUME CredentialsAssumption ==
    /\ None \notin Keys \union Passwords
    /\ Styles \subseteq AllStyles
    /\ MaxRuns \in Nat /\ MaxCrashes \in Nat

Given == [Secrets -> Passwords \union {None}]
Blob == [fmt: {"none", "old", "v2"}, key: Keys \union {None}, name: Secrets,
         pwd: Passwords \union {None}]
\* "prefix": an interrupted write left less, "broken": what it left is no YAML
File == [content: {"whole", "prefix", "broken"}, style: AllStyles, blob: [Secrets -> Blob]]
Sources == {"none", "environment", "config.yaml", "TUI"}
Value == [pwd: Passwords \union {None}, source: Sources]

VARIABLES
    file,      \* config.yaml
    pc,
    key,       \* secrets key of the run
    given,     \* passwords given to encrypt-secrets
    text,      \* config_text: the edited file before it is written
    inherited, \* passwords from the environment and the file
    used,      \* passwords of the installation
    meant,     \* history: per secret the password stored last, and any stored by a run that died
    runs, crashes

run == <<pc, key, given, text, inherited, used>>
bounds == <<runs, crashes>>
vars == <<file, run, meant, bounds>>

Blank(fmt) == [s \in Secrets |-> [fmt |-> fmt, key |-> None, name |-> s, pwd |-> None]]
NoneGiven == [s \in Secrets |-> None]
NoValues == [s \in Secrets |-> [pwd |-> None, source |-> "none"]]
EmptyFile == [content |-> "prefix", style |-> "none", blob |-> Blank("none")]

\* a config.yaml of one's own, or the one in the repository, whose secrets are in the old format
Start(style, fmt) == [content |-> "whole", style |-> style, blob |-> Blank(fmt)]

Init ==
    /\ \E style \in Styles, fmt \in {"none", "old"} :
          /\ style = "none" => fmt = "none"
          /\ file = Start(style, fmt)
    /\ pc = "idle" /\ key = None
    /\ given = NoneGiven /\ text = EmptyFile
    /\ inherited = NoValues /\ used = NoValues
    /\ meant = [s \in Secrets |-> {}]
    /\ runs = 0 /\ crashes = 0

-----------------------------------------------------------------------------
(* Encryption *)

\* mutant: a new format that decrypt_secret does not read
EncryptNewFormat(pwd, k, s) == [fmt |-> "v3", key |-> k, name |-> s, pwd |-> pwd]

encrypt_secret(pwd, k, s) == [fmt |-> "v2", key |-> k, name |-> s, pwd |-> pwd]

\* mutant: the ciphertext is not bound to its setting
OpensAnywhere(b, k, s) == b.fmt = "v2" /\ b.key = k

\* decrypt_secret returns the password; otherwise it raises
Opens(b, k, s) == b.fmt = "v2" /\ b.key = k /\ b.name = s

\* decrypted_credentials raises at the first stored secret that does not open
AllOpen(blobs, k) == \A s \in Secrets : blobs[s].fmt # "none" => Opens(blobs[s], k, s)

\* the stored secrets with the newly encrypted ones in place of theirs
Merged(blobs) ==
    [s \in Secrets |-> IF given[s] # None THEN encrypt_secret(given[s], key, s) ELSE blobs[s]]

\* the run is over
Finish == pc' = "idle" /\ key' = None /\ given' = NoneGiven /\ text' = EmptyFile
          /\ inherited' = NoValues /\ used' = NoValues

-----------------------------------------------------------------------------
(* encrypt-secrets *)

\* a key and at least one password, from the environment or typed
StartEncrypt ==
    /\ pc = "idle" /\ runs < MaxRuns
    /\ key' \in Keys
    /\ given' \in Given \ {NoneGiven}
    /\ pc' = "check" /\ runs' = runs + 1
    /\ UNCHANGED <<file, text, inherited, used, meant, crashes>>

\* mutant: the passwords kept from the file are not tried with the key
AcceptMixedKeys ==
    /\ pc = "check"
    /\ pc' = IF file.content # "broken" THEN "edit" ELSE "refused"
    /\ UNCHANGED <<file, key, given, text, inherited, used, meant, bounds>>

refuse_mixed_keys ==
    /\ pc = "check"
    /\ pc' = IF file.content # "broken" /\ AllOpen(Merged(file.blob), key)
             THEN "edit" ELSE "refused"
    /\ UNCHANGED <<file, key, given, text, inherited, used, meant, bounds>>

\* The line of each given secret is replaced, or added to the section, or added with a
\* section at the end, which then hides one written as flow.
set_secret_lines ==
    [file EXCEPT !.style = IF @ \in {"none", "flow"} THEN "block" ELSE @,
                 !.blob = Merged(IF file.style = "flow" THEN Blank("none") ELSE @)]

\* verify_stored, which looks at the given secrets only: the first line with the key was not
\* the one in the section
Misplaced == file.style = "decoy" /\ given["luks"] # None

EditText ==
    /\ pc = "edit"
    /\ IF Misplaced
       THEN pc' = "refused" /\ UNCHANGED text
       ELSE pc' = "truncate" /\ text' = set_secret_lines
    /\ UNCHANGED <<file, key, given, inherited, used, meant, bounds>>

Truncate ==
    /\ pc = "truncate"
    /\ file' = EmptyFile
    /\ pc' = "write"
    /\ UNCHANGED <<key, given, text, inherited, used, meant, bounds>>

WriteText ==
    /\ pc = "write"
    /\ file' = text
    /\ meant' = [s \in Secrets |-> IF given[s] # None THEN {given[s]} ELSE meant[s]]
    /\ Finish
    /\ UNCHANGED bounds

\* the run dies; the file holds the start of the text, cut anywhere
WriteCrashes ==
    /\ pc = "write" /\ crashes < MaxCrashes
    /\ crashes' = crashes + 1
    /\ \E content \in {"prefix", "broken"}, there \in SUBSET Secrets :
          file' = [text EXCEPT !.content = content,
                               !.blob = [s \in Secrets |-> IF s \in there THEN text.blob[s]
                                                           ELSE Blank("none")[s]]]
    /\ meant' = [s \in Secrets |-> meant[s] \union ({given[s]} \ {None})]
    /\ Finish
    /\ UNCHANGED runs

Refused ==
    /\ pc = "refused"
    /\ Finish
    /\ UNCHANGED <<file, meant, bounds>>

-----------------------------------------------------------------------------
(* The operator's editor *)

\* NO_WRITE prints both ciphertexts, and the operator puts them into the file
PasteSecrets ==
    /\ pc = "check" /\ file.content = "whole"
    /\ \A s \in Secrets : given[s] # None
    /\ file' = [file EXCEPT !.style = IF @ = "none" THEN "block" ELSE @,
                            !.blob = Merged(@)]
    /\ meant' = [s \in Secrets |-> {given[s]}]
    /\ Finish
    /\ UNCHANGED bounds

\* the two entries change places
SwapSecrets ==
    /\ pc = "idle"
    /\ \A s \in Secrets : file.blob[s].fmt # "none"
    /\ file' = [file EXCEPT !.blob = [s \in Secrets |->
                      IF s = "luks" THEN file.blob["user"] ELSE file.blob["luks"]]]
    /\ UNCHANGED <<run, meant, bounds>>

\* the file of the repository is put back
RestoreFile ==
    /\ pc = "idle" /\ file.content # "whole"
    /\ file' = Start("block", "old")
    /\ meant' = [s \in Secrets |-> {}]
    /\ UNCHANGED <<run, bounds>>

-----------------------------------------------------------------------------
(* The installer: assemble_installer_config, run_setup, validate_for_install *)

Stored == {s \in Secrets : file.blob[s].fmt # "none"}

inherit_setting_values(env, unlocked) ==
    [s \in Secrets |->
        IF env[s] # None THEN [pwd |-> env[s], source |-> "environment"]
        ELSE IF unlocked /\ s \in Stored THEN [pwd |-> file.blob[s].pwd, source |-> "config.yaml"]
        ELSE NoValues[s]]

\* A file cut short may lack settings.  The stored passwords are unlocked unless the
\* environment has both, or there is no key; a key that opens only some is refused.
Assemble ==
    /\ pc = "idle" /\ runs < MaxRuns
    /\ runs' = runs + 1
    /\ \E env \in Given, k \in Keys \union {None}, tui \in BOOLEAN :
          LET unlocks == Stored # {} /\ (\E s \in Secrets : env[s] = None) /\ k # None
              readable == IF file.content = "prefix" THEN {TRUE, FALSE}
                          ELSE {file.content = "whole"}
          IN  \E ok \in readable :
                 IF ok /\ (unlocks => AllOpen(file.blob, k))
                 THEN /\ inherited' = inherit_setting_values(env, unlocks)
                      /\ used' = IF tui THEN NoValues ELSE inherited'
                      /\ pc' = IF tui THEN "ask" ELSE "validate"
                 ELSE pc' = "refused" /\ UNCHANGED <<inherited, used>>
    /\ UNCHANGED <<file, key, given, text, meant, crashes>>

\* the next question: the LUKS password is asked first
Asked == IF used["luks"].pwd = None THEN "luks" ELSE "user"

\* apply_tui_choices: the same value keeps its source
Chosen(s, pwd) ==
    IF pwd = inherited[s].pwd THEN inherited[s] ELSE [pwd |-> pwd, source |-> "TUI"]

\* keep the inherited password, or type one twice
AskSecret ==
    /\ pc = "ask" /\ \E s \in Secrets : used[s].pwd = None
    /\ \E pwd \in Passwords \union ({inherited[Asked].pwd} \ {None}) :
          used' = [used EXCEPT ![Asked] = Chosen(Asked, pwd)]
    /\ UNCHANGED <<file, pc, key, given, text, inherited, meant, bounds>>

\* the summary is confirmed, or the operator cancels here or at a question
Review ==
    /\ pc = "ask"
    /\ \/ pc' = "validate" /\ \A s \in Secrets : used[s].pwd # None
       \/ pc' = "refused"
    /\ UNCHANGED <<file, key, given, text, inherited, used, meant, bounds>>

validate_for_install ==
    /\ pc = "validate"
    /\ pc' = IF \A s \in Secrets : used[s].pwd # None THEN "install" ELSE "refused"
    /\ UNCHANGED <<file, key, given, text, inherited, used, meant, bounds>>

InstallEnds ==
    /\ pc = "install"
    /\ Finish
    /\ UNCHANGED <<file, meant, bounds>>

-----------------------------------------------------------------------------
Encrypt ==
    \/ StartEncrypt \/ refuse_mixed_keys \/ EditText \/ Truncate \/ WriteText
    \/ WriteCrashes \/ Refused

Editor == PasteSecrets \/ SwapSecrets \/ RestoreFile

Install == Assemble \/ AskSecret \/ Review \/ validate_for_install \/ InstallEnds

Next == Encrypt \/ Editor \/ Install

Spec == Init /\ [][Next]_vars

-----------------------------------------------------------------------------
(* Properties *)

Labels == {"idle", "check", "edit", "truncate", "write", "refused", "ask", "validate",
           "install"}

\* Type invariant of the file, the run and the history.
TypeOK ==
    /\ file \in File /\ text \in File
    /\ pc \in Labels /\ key \in Keys \union {None} /\ given \in Given
    /\ inherited \in [Secrets -> Value] /\ used \in [Secrets -> Value]
    /\ meant \in [Secrets -> SUBSET Passwords]
    /\ runs \in Nat /\ crashes \in Nat

\* An unharmed config.yaml holds every password stored last, and one key opens them all,
\* although each run may store only some of them, with another key, and keep the others
\* (write_encrypted_secrets keeps what is not given, refuse_mixed_keys refuses two keys).
StoredTogether ==
    pc = "idle" /\ file.content = "whole" /\ (\A s \in Secrets : file.blob[s].name = s) =>
        \E k \in Keys \union {None} : \A s \in Secrets :
            meant[s] # {} => Opens(file.blob[s], k, s) /\ file.blob[s].pwd \in meant[s]

\* An installation that takes a password from config.yaml takes the one last stored under
\* that name, whatever was cut short, pasted or swapped in the file before, and none begins
\* with a password missing.
InstallAsMeant ==
    pc = "install" => \A s \in Secrets :
        /\ used[s].pwd # None
        /\ used[s].source = "config.yaml" => used[s].pwd \in meant[s]
=============================================================================
