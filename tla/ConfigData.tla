----------------------------- MODULE ConfigData ----------------------------
(***************************************************************************)
(* The contents of ~/.ecctl/config.json and the mutations that commands    *)
(* record and replay on it (pkg/config/config.go).  A value is named after *)
(* the command that stores it, so that a lost one can be told.  "key"      *)
(* stands for the AccessKey pair, "token" for the STS token, "region" for  *)
(* the fields that take no part in authentication.                         *)
(***************************************************************************)
CONSTANTS
  Commands,
  Profiles,  \* profile names
  Default,   \* DefaultProfileName
  None,      \* an absent field, and the name of an unnamed profile
  NoFile, NoProfile

ASSUME DefaultAssumption == Default \in Profiles
ASSUME NoneAssumption == None \notin Commands \cup Profiles

Values == Commands \cup {None}
Modes == {"none", "AK", "StsToken", "OAuth"}
Profile == [region : Values, key : Values, token : Values, mode : Modes, login : Values]
Configs == [current : Profiles, profiles : [Profiles -> Profile \cup {NoProfile}]]
Files == Configs \cup {NoFile}

ASSUME NoFileAssumption == NoFile \notin Configs
ASSUME NoProfileAssumption == NoProfile \notin Profile

Empty == [region |-> None, key |-> None, token |-> None, mode |-> "none", login |-> None]
Fresh == [current |-> Default,
          profiles |-> [p \in Profiles |-> IF p = Default THEN Empty ELSE NoProfile]]

\* A missing file is read as the shape of a new store.
Shape(file) == IF file = NoFile THEN Fresh ELSE file
ProfileMap(cfg, p) == IF cfg.profiles[p] = NoProfile THEN Empty ELSE cfg.profiles[p]
Auths == [key : Values, token : Values, mode : Modes, login : Values]
Auth(profile) == [key |-> profile.key, token |-> profile.token,
                  mode |-> profile.mode, login |-> profile.login]

-----------------------------------------------------------------------------
\* What a user asks for, and the mutation a command records when it has
\* loaded the file: names are resolved, a login remembers what it saw.
Keys == {"region", "key", "token"}
Requests ==
  [kind : {"set"}, name : Profiles \cup {None}, key : Keys]
  \cup [kind : {"use", "login"}, name : Profiles, key : {"region"}]
Mutations(c) ==
  [kind : {"set", "use", "login"}, name : Profiles, key : Keys, by : {c},
   existed : BOOLEAN, known : BOOLEAN, auth : Auths, current : Profiles]

ASSUME MutationAssumption == \A c \in Commands : None \notin Mutations(c)

Recorded(file, request, c) ==
  LET cfg == Shape(file)
      name == IF request.name = None THEN cfg.current ELSE request.name IN
  [kind |-> request.kind, name |-> name, key |-> request.key, by |-> c,
   existed |-> file # NoFile, known |-> cfg.profiles[name] # NoProfile,
   auth |-> Auth(ProfileMap(cfg, name)), current |-> cfg.current]

-----------------------------------------------------------------------------
\* setValue: the mode follows from the credentials the profile then has.
ModeOf(profile, key) ==
  IF key = "token" \/ (key = "key" /\ profile.token # None) THEN "StsToken"
  ELSE IF key = "key" THEN "AK" ELSE profile.mode
WithValue(profile, key, v) ==
  [profile EXCEPT !.region = IF key = "region" THEN v ELSE @,
                  !.key = IF key = "key" THEN v ELSE @,
                  !.token = IF key = "token" THEN v ELSE @,
                  !.mode = ModeOf(profile, key)]

MutWithLogin(profile, c) == [profile EXCEPT !.mode = "OAuth", !.login = c] \* mutant: old keys stay
\* setNativeOAuthProfile: every other authentication field is deleted.
WithLogin(profile, c) ==
  [profile EXCEPT !.key = None, !.token = None, !.mode = "OAuth", !.login = c]

MutMergeable(file, m) == TRUE \* mutant: a login does not compare what it saw
\* A login is refused when the file appeared or went, or when its profile
\* appeared, went or authenticates otherwise than before the login.
Mergeable(file, m) ==
  LET cfg == Shape(file) IN
  m.kind = "login" =>
    /\ m.existed = (file # NoFile)
    /\ m.known = (cfg.profiles[m.name] # NoProfile)
    /\ m.auth = Auth(ProfileMap(cfg, m.name))

SetProfile(cfg, name, profile, current) ==
  [current |-> current, profiles |-> [cfg.profiles EXCEPT ![name] = profile]]

\* applyMutation on the file as it is now.
Merged(file, m) ==
  LET cfg == Shape(file)
      old == ProfileMap(cfg, m.name) IN
  IF m.kind = "set" THEN SetProfile(cfg, m.name, WithValue(old, m.key, m.by), m.name)
  ELSE IF m.kind = "use" THEN SetProfile(cfg, m.name, old, m.name)
  ELSE SetProfile(cfg, m.name, WithLogin(old, m.by),
                  IF cfg.current = m.current THEN m.name ELSE cfg.current)

\* Edits by hand: the file is deleted, or a profile that is not current is.
Edited(file) ==
  {NoFile} \cup {[file EXCEPT !.profiles[p] = NoProfile] :
                   p \in IF file = NoFile THEN {} ELSE Profiles \ {file.current}}
=============================================================================
