------------------------- MODULE CredentialsProofs --------------------------
(***************************************************************************)
(* Proofs about Credentials, for any keys, passwords and numbers of runs   *)
(* and crashes.                                                            *)
(***************************************************************************)
EXTENDS Credentials, TLAPS

USE DEF Secrets

\* Blank entries, the empty file and the empty values have their types.
LEMMA Blanks ==
    /\ NoneGiven \in Given /\ NoValues \in [Secrets -> Value]
    /\ \A fmt \in {"none", "old", "v2"} : Blank(fmt) \in [Secrets -> Blob]
    /\ EmptyFile \in File
    /\ \A style \in AllStyles : Start(style, "none") \in File /\ Start(style, "old") \in File
  BY DEF NoneGiven, Given, NoValues, Value, Sources, Blank, Blob, EmptyFile, File, AllStyles,
         Start

\* Merging newly encrypted secrets gives entries again.
LEMMA MergedType ==
    ASSUME given \in Given, key \in Keys \union {None}, NEW b \in [Secrets -> Blob]
    PROVE  Merged(b) \in [Secrets -> Blob]
  <1>1. ASSUME NEW s \in Secrets
        PROVE  (IF given[s] # None THEN encrypt_secret(given[s], key, s) ELSE b[s]) \in Blob
    BY <1>1 DEF Given, Blob, encrypt_secret
  <1> QED  BY <1>1 DEF Merged

\* What Finish leaves has its type.
LEMMA FinishType ==
    ASSUME Finish
    PROVE  /\ pc' \in Labels /\ key' \in Keys \union {None} /\ given' \in Given
           /\ text' \in File
           /\ inherited' \in [Secrets -> Value] /\ used' \in [Secrets -> Value]
  BY Blanks DEF Finish, Labels

\* The file with its style and entries replaced is a file.
LEMMA FileUpdate ==
    ASSUME NEW f \in File, NEW b \in [Secrets -> Blob], NEW st \in AllStyles
    PROVE  [f EXCEPT !.style = st, !.blob = b] \in File
  BY DEF File

\* Every step keeps the types.
LEMMA TypeStep == TypeOK /\ [Next]_vars => TypeOK'
  <1> SUFFICES ASSUME TypeOK, [Next]_vars PROVE TypeOK'
    OBVIOUS
  <1> USE CredentialsAssumption
  <1>f. file \in File /\ file.blob \in [Secrets -> Blob] /\ file.style \in AllStyles
    BY DEF TypeOK, File
  <1>t. text \in File /\ text.blob \in [Secrets -> Blob]
    BY DEF TypeOK, File
  <1>m. ASSUME NEW b \in [Secrets -> Blob] PROVE Merged(b) \in [Secrets -> Blob]
    BY <1>m, MergedType DEF TypeOK
  <1>1. CASE StartEncrypt
    BY <1>1 DEF StartEncrypt, TypeOK, Labels
  <1>2. CASE refuse_mixed_keys
    BY <1>2 DEF refuse_mixed_keys, TypeOK, Labels, bounds
  <1>3. CASE EditText
    <2>1. set_secret_lines \in File
      <3> DEFINE b == IF file.style = "flow" THEN Blank("none") ELSE file.blob
                 st == IF file.style \in {"none", "flow"} THEN "block" ELSE file.style
      <3>1. b \in [Secrets -> Blob]
        BY <1>f, Blanks
      <3>2. Merged(b) \in [Secrets -> Blob]
        BY <3>1, <1>m
      <3>3. st \in AllStyles
        BY <1>f DEF AllStyles
      <3>4. [file EXCEPT !.style = st, !.blob = Merged(b)] \in File
        BY <3>2, <3>3, <1>f, FileUpdate
      <3> QED  BY <3>4 DEF set_secret_lines
    <2> QED  BY <2>1, <1>3 DEF EditText, TypeOK, Labels, bounds
  <1>4. CASE Truncate
    BY <1>4, Blanks DEF Truncate, TypeOK, Labels, bounds
  <1>5. CASE WriteText
    <2>1. meant' \in [Secrets -> SUBSET Passwords]
      BY <1>5 DEF WriteText, TypeOK, Given
    <2> QED  BY <2>1, <1>5, FinishType DEF WriteText, TypeOK, bounds
  <1>6. CASE WriteCrashes
    <2>1. meant' \in [Secrets -> SUBSET Passwords]
      BY <1>6 DEF WriteCrashes, TypeOK, Given
    <2>2. PICK c \in {"prefix", "broken"}, there \in SUBSET Secrets :
            file' = [text EXCEPT !.content = c,
                       !.blob = [s \in Secrets |-> IF s \in there THEN text.blob[s]
                                                   ELSE Blank("none")[s]]]
      BY <1>6 DEF WriteCrashes
    <2> DEFINE b == [s \in Secrets |-> IF s \in there THEN text.blob[s] ELSE Blank("none")[s]]
    <2>3. b \in [Secrets -> Blob]
      BY <1>t, Blanks
    <2>4. file' \in File
      <3> HIDE DEF b
      <3>1. [text EXCEPT !.content = c, !.blob = b] \in File
        BY <2>3, <1>t DEF File
      <3> QED  BY <3>1, <2>2 DEF b
    <2> QED  BY <2>1, <2>4, <1>6, FinishType DEF WriteCrashes, TypeOK
  <1>7. CASE Refused
    BY <1>7, FinishType DEF Refused, TypeOK, bounds
  <1>8. CASE PasteSecrets
    <2>1. meant' \in [Secrets -> SUBSET Passwords]
      BY <1>8 DEF PasteSecrets, TypeOK, Given
    <2>2. file' \in File
      <3> DEFINE st == IF file.style = "none" THEN "block" ELSE file.style
      <3>1. st \in AllStyles
        BY <1>f DEF AllStyles
      <3>2. [file EXCEPT !.style = st, !.blob = Merged(file.blob)] \in File
        BY <3>1, <1>f, <1>m, FileUpdate
      <3> QED  BY <3>2, <1>8 DEF PasteSecrets
    <2> QED  BY <2>1, <2>2, <1>8, FinishType DEF PasteSecrets, TypeOK, bounds
  <1>9. CASE SwapSecrets
    <2>1. [s \in Secrets |-> IF s = "luks" THEN file.blob["user"] ELSE file.blob["luks"]]
            \in [Secrets -> Blob]
      BY <1>f
    <2>2. file' \in File
      BY <2>1, <1>f, <1>9 DEF SwapSecrets, File
    <2> QED  BY <2>2, <1>9 DEF SwapSecrets, TypeOK, run, bounds
  <1>10. CASE RestoreFile
    BY <1>10, Blanks DEF RestoreFile, TypeOK, run, bounds, AllStyles
  <1>11. CASE Assemble
    <2>1. ASSUME NEW env \in Given, NEW u \in BOOLEAN
          PROVE  inherit_setting_values(env, u) \in [Secrets -> Value]
      BY <2>1, <1>f, Blanks DEF inherit_setting_values, Given, Value, Sources, Blob
    <2>2. inherited' \in [Secrets -> Value] /\ used' \in [Secrets -> Value] /\ pc' \in Labels
      <3> PICK env \in Given, k \in Keys \union {None}, tui \in BOOLEAN, ok \in BOOLEAN,
              u \in BOOLEAN :
            \/ /\ inherited' = inherit_setting_values(env, u)
               /\ used' = IF tui THEN NoValues ELSE inherited'
               /\ pc' = IF tui THEN "ask" ELSE "validate"
            \/ pc' = "refused" /\ UNCHANGED <<inherited, used>>
        BY <1>11 DEF Assemble
      <3> QED  BY <2>1, Blanks DEF TypeOK, Labels
    <2> QED  BY <2>2, <1>11 DEF Assemble, TypeOK
  <1>12. CASE AskSecret
    <2>1. Asked \in Secrets
      BY DEF Asked
    <2>2. ASSUME NEW pwd \in Passwords \union ({inherited[Asked].pwd} \ {None})
          PROVE  Chosen(Asked, pwd) \in Value
      BY <2>1, <2>2 DEF Chosen, TypeOK, Value, Sources
    <2>3. used' \in [Secrets -> Value]
      BY <2>1, <2>2, <1>12 DEF AskSecret, TypeOK
    <2> QED  BY <2>3, <1>12 DEF AskSecret, TypeOK, bounds
  <1>13. CASE Review
    BY <1>13 DEF Review, TypeOK, Labels, bounds
  <1>14. CASE validate_for_install
    BY <1>14 DEF validate_for_install, TypeOK, Labels, bounds
  <1>15. CASE InstallEnds
    BY <1>15, FinishType DEF InstallEnds, TypeOK, bounds
  <1>16. CASE UNCHANGED vars
    BY <1>16 DEF vars, run, bounds, TypeOK
  <1> QED
    BY <1>1, <1>2, <1>3, <1>4, <1>5, <1>6, <1>7, <1>8, <1>9, <1>10, <1>11, <1>12, <1>13,
       <1>14, <1>15, <1>16 DEF Next, Encrypt, Editor, Install

LEMMA TypeInit == Init => TypeOK
  <1> SUFFICES ASSUME Init PROVE TypeOK
    OBVIOUS
  <1> USE CredentialsAssumption
  <1>1. file \in File
    BY Blanks DEF Init
  <1> QED  BY <1>1, Blanks DEF Init, TypeOK, Labels

\* The file, the run and the history keep their types.
THEOREM TypeCorrect == Spec => []TypeOK
  BY TypeInit, TypeStep, PTL DEF Spec

-----------------------------------------------------------------------------
(* InstallAsMeant *)

\* A ciphertext in the file is one of a password stored under its own name.
FileInv ==
    \A t \in Secrets :
        file.blob[t].fmt = "v2" => file.blob[t].pwd \in meant[file.blob[t].name]

\* What refuse_mixed_keys found still holds when the text is edited: nothing reads the key
\* or the file again before.
CheckedInv == pc = "edit" => AllOpen(Merged(file.blob), key)

\* A ciphertext in the edited text is at its own entry, given to this run or stored before.
TextInv ==
    pc \in {"truncate", "write"} => \A s \in Secrets :
        text.blob[s].fmt = "v2" =>
            /\ text.blob[s].name = s
            /\ text.blob[s].pwd \in IF given[s] # None THEN {given[s]} ELSE meant[s]

\* What an installation inherits or uses from the file was stored.
ValuesInv ==
    \A s \in Secrets :
        /\ inherited[s].source = "config.yaml" => inherited[s].pwd \in meant[s]
        /\ used[s].source = "config.yaml" => used[s].pwd \in meant[s]

IdleInv == pc = "idle" => inherited = NoValues /\ used = NoValues

CompleteInv == pc = "install" => \A s \in Secrets : used[s].pwd # None

InstallInv == FileInv /\ CheckedInv /\ TextInv /\ ValuesInv /\ IdleInv /\ CompleteInv

\* Empty values come from nowhere.
LEMMA NoSource == \A s \in Secrets : NoValues[s].source = "none"
  BY DEF NoValues

\* After Finish the conjuncts about a run hold trivially.
LEMMA FinishInv ==
    ASSUME Finish
    PROVE  CheckedInv' /\ TextInv' /\ ValuesInv' /\ IdleInv' /\ CompleteInv'
  BY NoSource DEF Finish, CheckedInv, TextInv, ValuesInv, IdleInv, CompleteInv

\* An entry of the merged secrets is the newly encrypted one or the stored one.
LEMMA MergedEntry ==
    ASSUME NEW b, NEW s \in Secrets
    PROVE  Merged(b)[s] = IF given[s] # None
                          THEN [fmt |-> "v2", key |-> key, name |-> s, pwd |-> given[s]]
                          ELSE b[s]
  BY DEF Merged, encrypt_secret

\* Every step keeps what the runs rely on.
LEMMA InstallStep == TypeOK /\ InstallInv /\ [Next]_vars => InstallInv'
  <1> SUFFICES ASSUME TypeOK, InstallInv, [Next]_vars PROVE InstallInv'
    OBVIOUS
  <1> USE CredentialsAssumption
  <1>f. /\ file \in File /\ text \in File
        /\ \A t \in Secrets : file.blob[t] \in Blob /\ text.blob[t] \in Blob
        /\ given \in Given /\ meant \in [Secrets -> SUBSET Passwords]
    BY DEF TypeOK, File
  <1>1. CASE StartEncrypt
    BY <1>1 DEF StartEncrypt, InstallInv, FileInv, CheckedInv, TextInv, ValuesInv, IdleInv,
                CompleteInv
  <1>2. CASE refuse_mixed_keys
    <2>1. CheckedInv'
      BY <1>2 DEF refuse_mixed_keys, CheckedInv, Merged, AllOpen, Opens, encrypt_secret
    <2> QED
      BY <2>1, <1>2 DEF refuse_mixed_keys, InstallInv, FileInv, TextInv, ValuesInv, IdleInv,
                        CompleteInv
  <1>3. CASE EditText
    <2>1. TextInv'
      <3> SUFFICES ASSUME pc' = "truncate", NEW s \in Secrets, text'.blob[s].fmt = "v2"
                   PROVE  /\ text'.blob[s].name = s
                          /\ text'.blob[s].pwd \in IF given[s] # None THEN {given[s]}
                                                   ELSE meant[s]
        BY <1>3 DEF TextInv, EditText
      <3> DEFINE b == IF file.style = "flow" THEN Blank("none") ELSE file.blob
      <3>1. text'.blob = Merged(b)
        BY <1>3, <1>f DEF EditText, set_secret_lines, File
      <3>2. CASE given[s] # None
        BY <3>1, <3>2, MergedEntry
      <3>3. CASE given[s] = None
        <4>1. Merged(b)[s] = b[s] /\ Merged(file.blob)[s] = file.blob[s]
          BY <3>3, MergedEntry
        <4>2. file.style # "flow" /\ b[s] = file.blob[s]
          BY <3>1, <4>1 DEF Blank
        <4>3. Opens(file.blob[s], key, s)
          BY <1>3, <3>1, <4>1, <4>2 DEF EditText, InstallInv, CheckedInv, AllOpen
        <4> QED
          BY <3>1, <3>3, <4>1, <4>2, <4>3 DEF Opens, InstallInv, FileInv
      <3> QED  BY <3>2, <3>3
    <2> QED
      BY <2>1, <1>3 DEF EditText, InstallInv, FileInv, CheckedInv, ValuesInv, IdleInv, CompleteInv
  <1>4. CASE Truncate
    <2>1. FileInv' /\ TextInv'
      BY <1>4 DEF Truncate, EmptyFile, Blank, FileInv, TextInv, InstallInv
    <2> QED
      BY <2>1, <1>4 DEF Truncate, InstallInv, CheckedInv, ValuesInv, IdleInv, CompleteInv
  <1>5. CASE WriteText
    <2>1. FileInv'
      BY <1>5, <1>f DEF WriteText, FileInv, TextInv, InstallInv
    <2> QED  BY <2>1, <1>5, FinishInv DEF WriteText, InstallInv
  <1>6. CASE WriteCrashes
    <2>1. ASSUME NEW s \in Secrets
          PROVE  file'.blob[s] = text.blob[s] \/ file'.blob[s] = Blank("none")[s]
      BY <1>6, <1>f DEF WriteCrashes, File
    <2>2. FileInv'
      BY <2>1, <1>6, <1>f DEF WriteCrashes, FileInv, TextInv, InstallInv, Blank
    <2> QED  BY <2>2, <1>6, FinishInv DEF WriteCrashes, InstallInv
  <1>7. CASE Refused
    BY <1>7, FinishInv DEF Refused, InstallInv, FileInv
  <1>8. CASE PasteSecrets
    <2>1. file'.blob = Merged(file.blob)
      BY <1>8, <1>f DEF PasteSecrets, File
    <2>2. FileInv'
      BY <2>1, <1>8, MergedEntry DEF PasteSecrets, FileInv
    <2> QED  BY <2>2, <1>8, FinishInv DEF PasteSecrets, InstallInv
  <1>9. CASE SwapSecrets
    <2>1. file'.blob = [s \in Secrets |-> IF s = "luks" THEN file.blob["user"]
                                                       ELSE file.blob["luks"]]
      BY <1>9, <1>f DEF SwapSecrets, File
    <2>2. FileInv'
      BY <2>1, <1>9 DEF SwapSecrets, FileInv, InstallInv
    <2> QED
      BY <2>2, <1>9 DEF SwapSecrets, run, InstallInv, CheckedInv, TextInv, ValuesInv, IdleInv,
                        CompleteInv
  <1>10. CASE RestoreFile
    <2>1. FileInv'
      BY <1>10 DEF RestoreFile, Start, Blank, FileInv
    <2>2. ValuesInv'
      BY <1>10, NoSource DEF RestoreFile, run, ValuesInv, IdleInv, InstallInv
    <2> QED
      BY <2>1, <2>2, <1>10 DEF RestoreFile, run, InstallInv, CheckedInv, TextInv, IdleInv,
                               CompleteInv
  <1>11. CASE Assemble
    <2>1. ASSUME NEW env \in Given, NEW k, NEW u \in BOOLEAN, u => AllOpen(file.blob, k),
                 NEW s \in Secrets,
                 inherit_setting_values(env, u)[s].source = "config.yaml"
          PROVE  inherit_setting_values(env, u)[s].pwd \in meant[s]
      <3>1. u /\ s \in Stored /\ inherit_setting_values(env, u)[s].pwd = file.blob[s].pwd
        BY <2>1, NoSource DEF inherit_setting_values
      <3>2. Opens(file.blob[s], k, s)
        BY <2>1, <3>1 DEF AllOpen, Stored
      <3> QED  BY <3>1, <3>2 DEF Opens, InstallInv, FileInv
    <2>2. PICK env \in Given, k \in Keys \union {None}, tui \in BOOLEAN, u \in BOOLEAN :
            \/ /\ u => AllOpen(file.blob, k)
               /\ inherited' = inherit_setting_values(env, u)
               /\ used' = IF tui THEN NoValues ELSE inherited'
               /\ pc' = IF tui THEN "ask" ELSE "validate"
            \/ pc' = "refused" /\ UNCHANGED <<inherited, used>>
      BY <1>11 DEF Assemble
    <2>3. ValuesInv'
      BY <2>1, <2>2, <1>11, NoSource DEF Assemble, ValuesInv, InstallInv
    <2> QED
      BY <2>2, <2>3, <1>11 DEF Assemble, InstallInv, FileInv, CheckedInv, TextInv, IdleInv,
                               CompleteInv
  <1>12. CASE AskSecret
    <2>1. Asked \in Secrets /\ used \in [Secrets -> Value]
      BY DEF Asked, TypeOK
    <2>2. PICK pwd : used' = [used EXCEPT ![Asked] = Chosen(Asked, pwd)]
      BY <1>12 DEF AskSecret
    <2>3. ValuesInv'
      BY <2>1, <2>2, <1>12 DEF AskSecret, Chosen, ValuesInv, InstallInv
    <2> QED
      BY <2>3, <1>12 DEF AskSecret, InstallInv, FileInv, CheckedInv, TextInv, IdleInv, CompleteInv
  <1>13. CASE Review
    BY <1>13 DEF Review, InstallInv, FileInv, CheckedInv, TextInv, ValuesInv, IdleInv, CompleteInv
  <1>14. CASE validate_for_install
    BY <1>14 DEF validate_for_install, InstallInv, FileInv, CheckedInv, TextInv, ValuesInv,
                 IdleInv, CompleteInv
  <1>15. CASE InstallEnds
    BY <1>15, FinishInv DEF InstallEnds, InstallInv, FileInv
  <1>16. CASE UNCHANGED vars
    BY <1>16 DEF vars, run, InstallInv, FileInv, CheckedInv, TextInv, ValuesInv, IdleInv,
                 CompleteInv, AllOpen, Merged, Opens, encrypt_secret
  <1> QED
    BY <1>1, <1>2, <1>3, <1>4, <1>5, <1>6, <1>7, <1>8, <1>9, <1>10, <1>11, <1>12, <1>13,
       <1>14, <1>15, <1>16 DEF Next, Encrypt, Editor, Install

\* However often the secrets were stored, in part, with changing keys, cut short, pasted and
\* swapped, an installation takes a password from config.yaml only under the name it was
\* stored for.
THEOREM InstallCorrect == Spec => []InstallAsMeant
  <1>1. Init => InstallInv
    BY NoSource DEF Init, Start, Blank, InstallInv, FileInv, CheckedInv, TextInv, ValuesInv,
                    IdleInv, CompleteInv
  <1>2. InstallInv => InstallAsMeant
    BY DEF InstallInv, ValuesInv, CompleteInv, InstallAsMeant
  <1> QED  BY <1>1, <1>2, InstallStep, TypeCorrect, PTL DEF Spec

-----------------------------------------------------------------------------
(* StoredTogether, for a config.yaml whose secrets are not on one line *)

StyleInv == file.style # "flow" /\ (pc \in {"truncate", "write"} => text.style # "flow")

\* Both entries are in their places, or both are stored and have changed places.
NamesInv ==
    \/ \A s \in Secrets : file.blob[s].name = s
    \/ \A s \in Secrets : file.blob[s].fmt # "none" /\ file.blob[s].name # s

\* Wherever it stands, the ciphertext of every password stored last is there, under one key.
TogetherInv ==
    file.content = "whole" =>
        \E k \in Keys \union {None} : \A s \in Secrets :
            meant[s] # {} => \E t \in Secrets :
                /\ file.blob[t].fmt = "v2" /\ file.blob[t].key = k /\ file.blob[t].name = s
                /\ file.blob[t].pwd \in meant[s]

\* The edited text has every entry in its place, and the run's key opens what it will hold.
EditedInv ==
    pc \in {"truncate", "write"} => \A s \in Secrets :
        /\ text.blob[s].name = s
        /\ text.content = "whole" /\ (given[s] # None \/ meant[s] # {}) =>
              Opens(text.blob[s], key, s)

StoredInv == StyleInv /\ NamesInv /\ TogetherInv /\ EditedInv

\* Every step keeps the stored passwords together.
LEMMA StoredStep == TypeOK /\ InstallInv /\ StoredInv /\ [Next]_vars => StoredInv'
  <1> SUFFICES ASSUME TypeOK, InstallInv, StoredInv, [Next]_vars PROVE StoredInv'
    OBVIOUS
  <1> USE CredentialsAssumption
  <1>f. /\ file \in File /\ text \in File
        /\ \A t \in Secrets : file.blob[t] \in Blob /\ text.blob[t] \in Blob
        /\ given \in Given /\ meant \in [Secrets -> SUBSET Passwords]
        /\ key \in Keys \union {None}
    BY DEF TypeOK, File
  <1>1. CASE StartEncrypt
    BY <1>1 DEF StartEncrypt, StoredInv, StyleInv, NamesInv, TogetherInv, EditedInv
  <1>2. CASE refuse_mixed_keys
    BY <1>2 DEF refuse_mixed_keys, StoredInv, StyleInv, NamesInv, TogetherInv, EditedInv
  <1>3. CASE EditText
    <2>1. EditedInv' /\ StyleInv'
      <3> SUFFICES ASSUME pc' = "truncate", NEW s \in Secrets
                   PROVE  /\ text'.style # "flow"
                          /\ text'.blob[s].name = s
                          /\ text'.content = "whole" /\ (given[s] # None \/ meant[s] # {}) =>
                                Opens(text'.blob[s], key, s)
        BY <1>3 DEF EditedInv, StyleInv, EditText, StoredInv, Opens
      <3>1. /\ text'.blob = Merged(file.blob) /\ text'.content = file.content
            /\ text'.style # "flow"
        BY <1>3, <1>f DEF EditText, set_secret_lines, File, StoredInv, StyleInv
      <3>2. AllOpen(Merged(file.blob), key)
        BY <1>3 DEF EditText, InstallInv, CheckedInv
      <3>3. CASE given[s] # None
        BY <3>1, <3>3, MergedEntry DEF Opens
      <3>4. CASE given[s] = None
        <4>1. text'.blob[s] = file.blob[s]
          BY <3>1, <3>4, MergedEntry
        <4>2. CASE file.blob[s].fmt # "none"
          BY <3>1, <3>2, <4>1, <4>2 DEF AllOpen, Opens
        <4>3. CASE file.blob[s].fmt = "none"
          <5>1. \A t \in Secrets : file.blob[t].name = t
            BY <4>3 DEF StoredInv, NamesInv
          <5>2. file.content = "whole" => meant[s] = {}
            BY <4>3, <5>1 DEF StoredInv, TogetherInv
          <5> QED  BY <3>1, <3>4, <4>1, <5>1, <5>2
        <4> QED  BY <4>2, <4>3
      <3> QED  BY <3>1, <3>3, <3>4
    <2> QED
      BY <2>1, <1>3 DEF EditText, StoredInv, NamesInv, TogetherInv
  <1>4. CASE Truncate
    BY <1>4 DEF Truncate, EmptyFile, Blank, StoredInv, StyleInv, NamesInv, TogetherInv,
                EditedInv, Opens
  <1>5. CASE WriteText
    <2>1. \A s \in Secrets : file'.blob[s].name = s
      BY <1>5 DEF WriteText, StoredInv, EditedInv
    <2>2. TogetherInv'
      <3> SUFFICES ASSUME text.content = "whole", NEW s \in Secrets, meant'[s] # {}
                   PROVE  /\ file'.blob[s].fmt = "v2" /\ file'.blob[s].key = key
                          /\ file'.blob[s].name = s /\ file'.blob[s].pwd \in meant'[s]
        BY <1>5, <1>f DEF WriteText, TogetherInv
      <3>1. given[s] # None \/ meant[s] # {}
        BY <1>5 DEF WriteText
      <3>2. Opens(text.blob[s], key, s)
        BY <3>1, <1>5 DEF WriteText, StoredInv, EditedInv
      <3>3. text.blob[s].pwd \in meant'[s]
        BY <3>2, <1>5 DEF WriteText, Opens, InstallInv, TextInv
      <3> QED  BY <3>2, <3>3, <1>5 DEF WriteText, Opens
    <2> QED
      BY <2>1, <2>2, <1>5 DEF WriteText, Finish, StoredInv, StyleInv, NamesInv, EditedInv
  <1>6. CASE WriteCrashes
    <2>1. /\ file'.content # "whole" /\ file'.style = text.style
          /\ \A s \in Secrets :
                file'.blob[s] = text.blob[s] \/ file'.blob[s] = Blank("none")[s]
      BY <1>6, <1>f DEF WriteCrashes, File
    <2> QED
      BY <2>1, <1>6 DEF WriteCrashes, Finish, StoredInv, StyleInv, NamesInv, TogetherInv,
                        EditedInv, Blank
  <1>7. CASE Refused
    BY <1>7 DEF Refused, Finish, StoredInv, StyleInv, NamesInv, TogetherInv, EditedInv
  <1>8. CASE PasteSecrets
    <2>1. file'.blob = Merged(file.blob) /\ file'.style # "flow"
      BY <1>8, <1>f DEF PasteSecrets, File, StoredInv, StyleInv
    <2>2. \A s \in Secrets :
            /\ file'.blob[s].fmt = "v2" /\ file'.blob[s].key = key /\ file'.blob[s].name = s
            /\ file'.blob[s].pwd \in meant'[s]
      BY <2>1, <1>8, MergedEntry DEF PasteSecrets
    <2>3. TogetherInv' /\ NamesInv'
      BY <2>2, <1>f DEF TogetherInv, NamesInv
    <2> QED
      BY <2>1, <2>3, <1>8 DEF PasteSecrets, Finish, StoredInv, StyleInv, EditedInv
  <1>9. CASE SwapSecrets
    <2>1. /\ file'.blob["luks"] = file.blob["user"] /\ file'.blob["user"] = file.blob["luks"]
          /\ file'.content = file.content /\ file'.style = file.style
          /\ meant' = meant /\ pc' = pc /\ pc = "idle"
      BY <1>9, <1>f DEF SwapSecrets, File, run
    <2>2. NamesInv'
      <3>1. \A s \in Secrets : file.blob[s].name \in Secrets
        BY <1>f DEF Blob
      <3> QED  BY <2>1, <3>1, <1>9 DEF SwapSecrets, NamesInv, StoredInv
    <2>3. TogetherInv'
      BY <2>1 DEF TogetherInv, StoredInv
    <2> QED
      BY <2>1, <2>2, <2>3 DEF StoredInv, StyleInv, EditedInv
  <1>10. CASE RestoreFile
    BY <1>10 DEF RestoreFile, run, Start, Blank, StoredInv, StyleInv, NamesInv, TogetherInv,
                 EditedInv
  <1>11. CASE Assemble
    <2>1. pc' \notin {"truncate", "write"}
      BY <1>11 DEF Assemble
    <2> QED
      BY <2>1, <1>11 DEF Assemble, StoredInv, StyleInv, NamesInv, TogetherInv, EditedInv
  <1>12. CASE AskSecret \/ Review \/ validate_for_install
    <2>1. /\ pc' \notin {"truncate", "write"} /\ file' = file /\ meant' = meant
      BY <1>12 DEF AskSecret, Review, validate_for_install
    <2> QED
      BY <2>1 DEF StoredInv, StyleInv, NamesInv, TogetherInv, EditedInv
  <1>13. CASE InstallEnds
    BY <1>13 DEF InstallEnds, Finish, StoredInv, StyleInv, NamesInv, TogetherInv, EditedInv
  <1>14. CASE UNCHANGED vars
    BY <1>14 DEF vars, run, StoredInv, StyleInv, NamesInv, TogetherInv, EditedInv, Opens
  <1> QED
    BY <1>1, <1>2, <1>3, <1>4, <1>5, <1>6, <1>7, <1>8, <1>9, <1>10, <1>11, <1>12, <1>13,
       <1>14 DEF Next, Encrypt, Editor, Install

\* If the secrets of config.yaml are not written on one line, encrypt-secrets never loses a
\* stored password it was not given again, and never leaves two keys in the file.
THEOREM StoredCorrect ==
    ASSUME "flow" \notin Styles
    PROVE  Spec => []StoredTogether
  <1>1. Init => StoredInv
    <2> SUFFICES ASSUME Init PROVE StoredInv
      OBVIOUS
    <2>1. /\ file.style # "flow" /\ pc = "idle" /\ \A s \in Secrets : meant[s] = {}
          /\ \A s \in Secrets : file.blob[s].name = s
      BY DEF Init, Start, Blank
    <2> QED  BY <2>1 DEF StoredInv, StyleInv, NamesInv, TogetherInv, EditedInv
  <1>2. Init => InstallInv
    BY NoSource DEF Init, Start, Blank, InstallInv, FileInv, CheckedInv, TextInv, ValuesInv,
                    IdleInv, CompleteInv
  <1>3. TypeOK /\ StoredInv => StoredTogether
    <2> SUFFICES ASSUME TypeOK, StoredInv, file.content = "whole",
                        \A s \in Secrets : file.blob[s].name = s
                 PROVE  \E k \in Keys \union {None} : \A s \in Secrets :
                           meant[s] # {} => Opens(file.blob[s], k, s)
                                            /\ file.blob[s].pwd \in meant[s]
      BY DEF StoredTogether
    <2> QED  BY DEF StoredInv, TogetherInv, Opens
  <1> QED
    BY <1>1, <1>2, <1>3, StoredStep, InstallStep, TypeCorrect, PTL DEF Spec
=============================================================================
