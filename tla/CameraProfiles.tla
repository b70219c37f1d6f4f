----------------------------- MODULE CameraProfiles -----------------------------
(* The camera profiles of the launcher: a file each, a password each in the
   platform's secret store, and the list that the window shows.  A dialog works
   through its files and passwords one at a time; each step may fail, and the
   launcher may end between any two. *)
EXTENDS Naturals

CONSTANTS Names,              \* valid profile names
          NoName,             \* no profile
          Versions,           \* contents of a profile with its password
          PersistentSecrets   \* the store outlives the launcher (Windows)

ASSUME ProfileAssumption ==
  /\ 0 \notin Versions /\ NoName \notin Names
  /\ PersistentSecrets \in BOOLEAN

VARIABLES
  files,    \* the content of each profile file, or 0
  secrets,  \* the version the stored password belongs to, or 0
  shown,    \* the names in the list
  work,     \* what the open dialog is about to do
  told,     \* history: the content that the user was told a profile has, or 0
  torn      \* history: the profiles whose last write stored the file only

profileVars == <<files, secrets, shown, work, told, torn>>

Contents == Versions \cup {0}
Present(f) == {n \in Names : f[n] # 0}

(* The step that comes next; the profile it is about and the content it gets;
   the profiles still to remove; and whether importEnv goes on afterwards. *)
Steps == {"none", "file", "secret", "unlink", "forget", "import"}
Works == [step : Steps, name : Names \cup {NoName}, version : Contents,
          leaving : SUBSET Names, import : BOOLEAN]
Idle == [step |-> "none", name |-> NoName, version |-> 0, leaving |-> {}, import |-> FALSE]

ProfilesInit ==
  /\ files = [n \in Names |-> 0] /\ secrets = files /\ told = files
  /\ shown = {} /\ torn = {}
  /\ work = Idle

--------------------------------------------------------------------------------
(* The dialogs, once the user has accepted one. *)

(* writeProfile comes first; then, for a new name, the old profile goes. *)
StartWrite(n, v, leaving, import) ==
  /\ work = Idle
  /\ work' = [step |-> "file", name |-> n, version |-> v, leaving |-> leaving, import |-> import]
  /\ UNCHANGED <<files, secrets, shown, told, torn>>

CreateProfile(n, v) == files[n] = 0 /\ StartWrite(n, v, {}, FALSE)

(* readProfile reads the selected file first. *)
EditProfile(old, new, v) ==
  /\ old \in shown /\ files[old] # 0
  /\ new # old => files[new] = 0
  /\ StartWrite(new, v, {old} \ {new}, FALSE)

(* The camera of a .env file may replace a profile of its name. *)
ImportCamera(n, v) == StartWrite(n, v, {}, TRUE)

DeleteProfiles(selected) ==
  /\ work = Idle
  /\ selected # {} /\ selected \subseteq shown
  /\ work' = [Idle EXCEPT !.step = "unlink", !.leaving = selected]
  /\ UNCHANGED <<files, secrets, shown, told, torn>>

--------------------------------------------------------------------------------
(* Their steps. *)

(* QSaveFile: the new file as a whole, or the old one and an error shown. *)
WriteFile(committed) ==
  /\ work.step = "file"
  /\ IF committed
     THEN files' = [files EXCEPT ![work.name] = work.version] /\ work' = [work EXCEPT !.step = "secret"]
     ELSE work' = Idle /\ UNCHANGED files
  /\ UNCHANGED <<secrets, shown, told, torn>>

(* The end of writeProfile: the window reads the list again, unless the profile
   replaces one. *)
Stored ==
  IF work.leaving # {}
  THEN work' = [work EXCEPT !.step = "unlink"] /\ UNCHANGED <<shown, told>>
  ELSE /\ work' = IF work.import THEN [Idle EXCEPT !.step = "import"] ELSE Idle
       /\ shown' = Present(files)
       /\ told' = [told EXCEPT ![work.name] = work.version]

(* The result of saveCameraPassword ignored. *)
StoreSecretUnchecked(stored) ==
  /\ work.step = "secret"
  /\ secrets' = IF stored THEN [secrets EXCEPT ![work.name] = work.version] ELSE secrets
  /\ Stored
  /\ torn' = torn \ {work.name}
  /\ UNCHANGED files

(* A store that refuses leaves the new file with the old password, or none; the
   error is shown. *)
StoreSecret(stored) ==
  /\ work.step = "secret"
  /\ IF stored
     THEN /\ secrets' = [secrets EXCEPT ![work.name] = work.version]
          /\ Stored
          /\ torn' = torn \ {work.name}
     ELSE /\ work' = Idle
          /\ torn' = torn \cup {work.name}
          /\ UNCHANGED <<secrets, shown, told>>
  /\ UNCHANGED files

(* The error of filesystem::remove is not looked at.  From here on the user has
   the new name, or no profile. *)
RemoveFile(n, removed) ==
  /\ work.step = "unlink" /\ n \in work.leaving
  /\ IF removed
     THEN files' = [files EXCEPT ![n] = 0] /\ torn' = torn \ {n}
     ELSE UNCHANGED <<files, torn>>
  /\ told' = [m \in Names |-> IF m = n THEN 0
                             ELSE IF m = work.name THEN work.version ELSE told[m]]
  /\ work' = [work EXCEPT !.step = "forget", !.name = n, !.version = 0]
  /\ UNCHANGED <<secrets, shown>>

(* Nor is that of the store, which may keep the password. *)
ForgetSecret(forgotten) ==
  /\ work.step = "forget"
  /\ secrets' = IF forgotten THEN [secrets EXCEPT ![work.name] = 0] ELSE secrets
  /\ work' = [work EXCEPT !.step = "unlink", !.name = NoName, !.leaving = @ \ {work.name}]
  /\ UNCHANGED <<files, shown, told, torn>>

LeaveDone ==
  /\ work.step = "unlink" /\ work.leaving = {}
  /\ work' = Idle /\ shown' = Present(files)
  /\ UNCHANGED <<files, secrets, told, torn>>

(* A file with a name the launcher does not accept is listed as well; deleting
   it throws in the middle of the selection, and the list is not read again. *)
DeleteThrows ==
  /\ work.step = "unlink" /\ work.leaving # {} /\ work.name = NoName
  /\ work' = Idle
  /\ UNCHANGED <<files, secrets, shown, told, torn>>

BeginProfiles ==
  \/ \E n \in Names, v \in Versions : CreateProfile(n, v) \/ ImportCamera(n, v)
  \/ \E old, new \in Names, v \in Versions : EditProfile(old, new, v)
  \/ \E selected \in SUBSET Names : DeleteProfiles(selected)

ProfileStep ==
  \/ \E ok \in BOOLEAN :
       \/ WriteFile(ok) \/ StoreSecret(ok) \/ ForgetSecret(ok)
       \/ \E n \in work.leaving : RemoveFile(n, ok)
  \/ LeaveDone \/ DeleteThrows

(* What comes after the camera of a .env file. *)
ImportGoesOn ==
  /\ work.step = "import" /\ work' = Idle
  /\ UNCHANGED <<files, secrets, shown, told, torn>>

(* The next start of the launcher, whatever the last one was about to do. *)
NextProfileSession ==
  /\ work' = Idle
  /\ torn' = IF work.step = "secret" THEN torn \cup {work.name} ELSE torn
  /\ secrets' = IF PersistentSecrets THEN secrets ELSE [n \in Names |-> 0]
  /\ shown' = Present(files)
  /\ UNCHANGED <<files, told>>

--------------------------------------------------------------------------------
(* The variables keep their types. *)
ProfilesTypeOK ==
  /\ files \in [Names -> Contents] /\ secrets \in [Names -> Contents]
  /\ told \in [Names -> Contents]
  /\ shown \in SUBSET Names /\ torn \in SUBSET Names
  /\ work \in Works

(* The file and the password of a profile were last written together. *)
Settled(n) == n \notin torn /\ ~(work.step = "secret" /\ work.name = n)

(* A profile that the user made, and did not delete, is on disk through failed
   writes, failed removals, renames and a crash between any two of their steps.
   It has the content the user was told, and its password is the one that
   belongs to it, so that no camera is opened with the password of another
   content, unless its last write stored the file and not the password: the
   store refused, which was shown, or the launcher ended between the two, which
   nobody notices.  A password that the store would not delete stays without a
   file, and the next profile of that name replaces it, with the same exception. *)
ProfilesAreKept ==
  \A n \in Names :
    /\ told[n] # 0 => files[n] # 0
    /\ Settled(n) /\ told[n] # 0 => files[n] = told[n]
    /\ Settled(n) /\ files[n] # 0 /\ secrets[n] # 0 => secrets[n] = files[n]
================================================================================
