-------------------------- MODULE CredentialProofs --------------------------
(***************************************************************************)
(* The two components that keep credentials for others.                    *)
(*                                                                         *)
(* For any number of commands, profiles, faults and edits, the store never *)
(* loses an update: ConfigStore implements ConfigRegister.  The invariant  *)
(* is that the lock's holder is the one command between reading and        *)
(* replacing the file, so that what it read is still there.                *)
(*                                                                         *)
(* For any number of connections, refresh goroutines, credentials and      *)
(* failures of the source, the broker lends what it may.  The one running  *)
(* refresh is the only writer of the snapshot, and what it brings is never *)
(* older than the snapshot, because the source numbers its credentials in  *)
(* the order it issues them; so the snapshot only moves forward, and what  *)
(* was answered lies behind it.  A version turns alien when it is issued,  *)
(* never later, so one validation lasts.                                   *)
(***************************************************************************)
EXTENDS ConfigStore, CredentialBroker, TLAPS

Holding(c) == pc[c] \in {"read", "write"}

\* What a command in its locked section knows.
Asked == \A c \in Commands : IF pc[c] = "load" THEN asked[c] = None ELSE asked[c] \in Mutations(c)
Exclusive == \A c \in Commands : Holding(c) <=> lock = c
Current == \A c \in Commands : pc[c] = "write" => seen[c] = file /\ Mergeable(file, asked[c])
Once == \A c \in committed : pc[c] = "done"
Shaped == /\ asked \in [Commands -> (UNION {Mutations(c) : c \in Commands}) \cup {None}]
          /\ pc \in [Commands -> {"load", "save", "read", "write", "done"}]
          /\ committed \subseteq Commands /\ file \in Files
          /\ lock \in Commands \cup {Free}
          /\ seen \in [Commands -> Files]
          /\ result \in [Commands -> {"none", "saved", "failed"}]
          /\ faults \in 0..MaxFaults /\ edits \in 0..MaxEdits
IInv == Shaped /\ Asked /\ Exclusive /\ Current /\ Once

-----------------------------------------------------------------------------
\* Operators: the shape of a file and every mutation of it are configurations.
LEMMA EmptyType == Empty \in Profile
BY DEF Empty, Profile, Values, Modes

LEMMA ShapeType == ASSUME NEW f \in Files PROVE Shape(f) \in Configs
<1>1. Fresh \in Configs
  BY EmptyType, DefaultAssumption DEF Fresh, Configs
<1> QED
  BY <1>1 DEF Shape, Files

LEMMA ProfileMapType ==
  ASSUME NEW cfg \in Configs, NEW p \in Profiles
  PROVE  ProfileMap(cfg, p) \in Profile
BY EmptyType DEF ProfileMap, Configs

LEMMA AuthType == ASSUME NEW profile \in Profile PROVE Auth(profile) \in Auths
BY DEF Auth, Auths, Profile

LEMMA RecordedType ==
  ASSUME NEW f \in Files, NEW r \in Requests, NEW c \in Commands
  PROVE  Recorded(f, r, c) \in Mutations(c)
<1> DEFINE cfg == Shape(f)
           name == IF r.name = None THEN cfg.current ELSE r.name
<1>1. cfg \in Configs
  BY ShapeType
<1>2. name \in Profiles
  BY <1>1 DEF Requests, Configs
<1>3. Auth(ProfileMap(cfg, name)) \in Auths
  BY <1>1, <1>2, ProfileMapType, AuthType
<1>4. r.kind \in {"set", "use", "login"} /\ r.key \in Keys
  BY DEF Requests, Keys
<1>5. cfg.current \in Profiles
  BY <1>1 DEF Configs
<1> HIDE DEF name, cfg
<1>6. [kind |-> r.kind, name |-> name, key |-> r.key, by |-> c,
       existed |-> f # NoFile, known |-> cfg.profiles[name] # NoProfile,
       auth |-> Auth(ProfileMap(cfg, name)), current |-> cfg.current] \in Mutations(c)
  BY <1>2, <1>3, <1>4, <1>5 DEF Mutations
<1> QED
  BY <1>6 DEF Recorded, cfg, name

LEMMA WithValueType ==
  ASSUME NEW profile \in Profile, NEW key \in Keys, NEW v \in Commands
  PROVE  WithValue(profile, key, v) \in Profile
<1>1. ModeOf(profile, key) \in Modes
  BY DEF ModeOf, Profile, Modes
<1> QED
  BY <1>1 DEF WithValue, Profile, Values

LEMMA WithLoginType ==
  ASSUME NEW profile \in Profile, NEW c \in Commands
  PROVE  WithLogin(profile, c) \in Profile
BY DEF WithLogin, Profile, Values, Modes

LEMMA SetProfileType ==
  ASSUME NEW cfg \in Configs, NEW name \in Profiles, NEW profile \in Profile, NEW chosen \in Profiles
  PROVE  SetProfile(cfg, name, profile, chosen) \in Configs
BY DEF SetProfile, Configs

LEMMA MergedType ==
  ASSUME NEW f \in Files, NEW c \in Commands, NEW m \in Mutations(c)
  PROVE  Merged(f, m) \in Files
<1> DEFINE cfg == Shape(f)
           old == ProfileMap(cfg, m.name)
<1>1. m.name \in Profiles /\ m.key \in Keys /\ m.by = c /\ cfg \in Configs
  BY ShapeType DEF Mutations
<1>2. old \in Profile /\ cfg.current \in Profiles
  BY <1>1, ProfileMapType DEF Configs
<1>3. WithValue(old, m.key, m.by) \in Profile /\ WithLogin(old, m.by) \in Profile
  BY <1>1, <1>2, WithValueType, WithLoginType
<1> HIDE DEF cfg, old
<1>4. /\ SetProfile(cfg, m.name, WithValue(old, m.key, m.by), m.name) \in Configs
      /\ SetProfile(cfg, m.name, old, m.name) \in Configs
      /\ SetProfile(cfg, m.name, WithLogin(old, m.by),
                    IF cfg.current = m.current THEN m.name ELSE cfg.current) \in Configs
  BY <1>1, <1>2, <1>3, SetProfileType
<1> QED
  BY <1>4 DEF Merged, Files, cfg, old

LEMMA EditedType == ASSUME NEW f \in Files, NEW g \in Edited(f) PROVE g \in Files
<1>1. CASE g = NoFile
  BY <1>1 DEF Files
<1>2. CASE g # NoFile
  <2>1. f \in Configs /\ \E p \in Profiles : g = [f EXCEPT !.profiles[p] = NoProfile]
    BY <1>2 DEF Edited, Files
  <2> QED
    BY <2>1 DEF Configs, Files
<1> QED
  BY <1>1, <1>2

-----------------------------------------------------------------------------
LEMMA Initially == Init => IInv
<1> SUFFICES ASSUME Init PROVE IInv
  OBVIOUS
<1>1. Fresh \in Files /\ NoFile \in Files
  BY EmptyType, DefaultAssumption DEF Fresh, Configs, Files
<1>2. asked \in [Commands -> (UNION {Mutations(c) : c \in Commands}) \cup {None}]
  BY DEF Init
<1>3. faults \in 0..MaxFaults /\ edits \in 0..MaxEdits
  BY BoundsAssumption DEF Init
<1>4. file \in Files /\ seen \in [Commands -> Files]
  BY <1>1 DEF Init
<1>5. Shaped
  BY <1>2, <1>3, <1>4 DEF Init, Shaped
<1>6. Asked /\ Exclusive /\ Current /\ Once
  BY FreeAssumption DEF Init, Asked, Exclusive, Holding, Current, Once
<1> QED
  BY <1>5, <1>6 DEF IInv

\* One lemma per action.
LEMMA StepLoad == ASSUME IInv, NEW c \in Commands, Load(c) PROVE IInv'
<1> USE DEF IInv
<1>1. PICK r \in Requests : asked' = [asked EXCEPT ![c] = Recorded(file, r, c)]
  BY DEF Load
<1>2. Recorded(file, r, c) \in Mutations(c)
  BY RecordedType DEF Shaped
<1>3. Shaped'
  BY <1>1, <1>2 DEF Load, Shaped
<1>4. Asked' /\ Exclusive' /\ Current' /\ Once'
  BY <1>1, <1>2 DEF Load, Shaped, Asked, Exclusive, Holding, Current, Once
<1> QED
  BY <1>3, <1>4

LEMMA StepLock == ASSUME IInv, NEW c \in Commands, Lock(c) PROVE IInv'
<1> USE DEF IInv
<1>1. Shaped'
  BY BoundsAssumption DEF Lock, LockFree, Fault, Done, Shaped
<1>2. Asked' /\ Exclusive' /\ Current' /\ Once'
  BY FreeAssumption DEF Lock, LockFree, Fault, Done, Shaped, Asked, Exclusive, Holding, Current, Once
<1> QED
  BY <1>1, <1>2

LEMMA StepRead == ASSUME IInv, NEW c \in Commands, Read(c) PROVE IInv'
<1> USE DEF IInv
<1>1. Shaped'
  BY BoundsAssumption DEF Read, Fault, Done, Shaped
<1>2. Asked' /\ Exclusive' /\ Current' /\ Once'
  BY FreeAssumption DEF Read, Fault, Done, Shaped, Asked, Exclusive, Holding, Current, Once
<1> QED
  BY <1>1, <1>2

LEMMA StepWrite == ASSUME IInv, NEW c \in Commands, Write(c) PROVE IInv'
<1> USE DEF IInv
<1>1. pc[c] = "write" /\ lock = c /\ asked[c] \in Mutations(c) /\ seen[c] \in Files
  BY DEF Write, Exclusive, Holding, Asked, Shaped
<1>2. file' \in Files /\ committed' \subseteq Commands /\ committed' \subseteq committed \cup {c}
  BY <1>1, MergedType DEF Write, Shaped
<1>3. /\ pc' = [pc EXCEPT ![c] = "done"] /\ lock' = Free
      /\ result' \in [Commands -> {"none", "saved", "failed"}]
      /\ faults' \in 0..MaxFaults /\ UNCHANGED <<asked, seen, edits>>
  BY <1>1, BoundsAssumption DEF Write, Fault, Done, Shaped
<1>4. Shaped'
  BY <1>2, <1>3 DEF Shaped
<1>5. \A d \in Commands \ {c} : pc[d] \notin {"read", "write"}
  BY <1>1 DEF Exclusive, Holding
<1>6. Asked' /\ Exclusive' /\ Current' /\ Once'
  BY <1>1, <1>2, <1>3, <1>5, FreeAssumption DEF Shaped, Asked, Exclusive, Holding, Current, Once
<1> QED
  BY <1>4, <1>6

LEMMA StepKill == ASSUME IInv, NEW c \in Commands, Kill(c) PROVE IInv'
<1> USE DEF IInv
<1>1. Shaped'
  BY BoundsAssumption DEF Kill, Fault, Done, Shaped
<1>2. Asked' /\ Exclusive' /\ Current' /\ Once'
  BY FreeAssumption DEF Kill, Fault, Done, Shaped, Asked, Exclusive, Holding, Current, Once
<1> QED
  BY <1>1, <1>2

LEMMA StepEdit == ASSUME IInv, Edit PROVE IInv'
<1> USE DEF IInv
<1>1. file' \in Files
  BY EditedType DEF Edit, Shaped
<1>2. Shaped'
  BY <1>1, BoundsAssumption DEF Edit, Shaped
<1>3. \A c \in Commands : pc[c] \notin {"read", "write"}
  BY FreeAssumption DEF Edit, Exclusive, Holding
<1>4. Asked' /\ Exclusive' /\ Current' /\ Once'
  BY <1>3 DEF Edit, Asked, Exclusive, Holding, Current, Once
<1> QED
  BY <1>2, <1>4

\* The lock's holder works on the file as it is: IInv holds in every state.
THEOREM Invariant == Spec => []IInv
<1>1. ASSUME IInv, [Next]_vars PROVE IInv'
  <2>1. CASE UNCHANGED vars
    BY <1>1, <2>1 DEF vars, IInv, Shaped, Asked, Exclusive, Holding, Current, Once
  <2>2. CASE Next
    BY <1>1, <2>2, StepLoad, StepLock, StepRead, StepWrite, StepKill, StepEdit DEF Next
  <2> QED
    BY <1>1, <2>1, <2>2
<1> QED
  BY Initially, <1>1, PTL DEF Spec

\* TypeOK of the run, lock discipline included, for every instance.
THEOREM TypeCorrect == Spec => []TypeOK
<1>1. IInv => TypeOK
  <2> SUFFICES ASSUME IInv PROVE TypeOK
    OBVIOUS
  <2>1. \A c \in Commands : asked[c] = None \/ asked[c] \in Mutations(c)
    BY DEF IInv, Asked
  <2> QED
    BY <2>1 DEF IInv, Shaped, Exclusive, Holding, TypeOK
<1> QED
  BY Invariant, <1>1, PTL

-----------------------------------------------------------------------------
\* Every mutation of a profile whose mode tells its credentials gives one.
LEMMA EmptyTold == Told(Empty)
BY DEF Told, Empty

LEMMA WithValueTold ==
  ASSUME NEW profile \in Profile, NEW key \in Keys, NEW v \in Commands, Told(profile)
  PROVE  Told(WithValue(profile, key, v))
<1>1. v # None
  BY NoneAssumption
<1>2. CASE key = "region"
  BY <1>2 DEF WithValue, ModeOf, Told, Profile
<1>3. CASE key = "key"
  BY <1>1, <1>3 DEF WithValue, ModeOf, Told, Profile
<1>4. CASE key = "token"
  BY <1>1, <1>4 DEF WithValue, ModeOf, Told, Profile
<1> QED
  BY <1>2, <1>3, <1>4 DEF Keys

LEMMA WithLoginTold ==
  ASSUME NEW profile \in Profile, NEW c \in Commands
  PROVE  Told(WithLogin(profile, c))
BY NoneAssumption DEF WithLogin, Told, Profile

AllTold(f) == f # NoFile => \A p \in Profiles : f.profiles[p] # NoProfile => Told(f.profiles[p])

LEMMA MergedTold ==
  ASSUME NEW f \in Files, NEW c \in Commands, NEW m \in Mutations(c), AllTold(f)
  PROVE  AllTold(Merged(f, m))
<1> DEFINE cfg == Shape(f)
           old == ProfileMap(cfg, m.name)
<1>1. m.name \in Profiles /\ m.key \in Keys /\ m.by = c /\ cfg \in Configs
  BY ShapeType DEF Mutations
<1>2. old \in Profile
  BY <1>1, ProfileMapType
<1>3. \A p \in Profiles : cfg.profiles[p] # NoProfile => Told(cfg.profiles[p])
  BY EmptyTold DEF AllTold, Shape, Fresh
<1>4. Told(old)
  BY <1>1, <1>3, EmptyTold DEF ProfileMap
<1>5. Told(WithValue(old, m.key, m.by)) /\ Told(WithLogin(old, m.by))
  BY <1>1, <1>2, <1>4, WithValueTold, WithLoginTold
<1>6. ASSUME NEW profile, Told(profile), NEW chosen
      PROVE  AllTold(SetProfile(cfg, m.name, profile, chosen))
  <2> HIDE DEF cfg
  <2>1. \A p \in Profiles :
          SetProfile(cfg, m.name, profile, chosen).profiles[p] =
            IF p = m.name THEN profile ELSE cfg.profiles[p]
    BY <1>1 DEF SetProfile, Configs
  <2> QED
    BY <1>3, <1>6, <2>1 DEF AllTold
<1> HIDE DEF cfg, old
<1>7. /\ AllTold(SetProfile(cfg, m.name, WithValue(old, m.key, m.by), m.name))
      /\ AllTold(SetProfile(cfg, m.name, old, m.name))
      /\ AllTold(SetProfile(cfg, m.name, WithLogin(old, m.by),
                            IF cfg.current = m.current THEN m.name ELSE cfg.current))
  BY <1>4, <1>5, <1>6
<1> QED
  BY <1>7 DEF Merged, cfg, old

LEMMA EditedTold ==
  ASSUME NEW f \in Files, NEW g \in Edited(f), AllTold(f)
  PROVE  AllTold(g)
<1>1. CASE g = NoFile
  BY <1>1 DEF AllTold
<1>2. CASE g # NoFile
  <2>1. PICK q \in Profiles : f \in Configs /\ g = [f EXCEPT !.profiles[q] = NoProfile]
    BY <1>2 DEF Edited, Files
  <2>2. \A p \in Profiles : g.profiles[p] = IF p = q THEN NoProfile ELSE f.profiles[p]
    BY <2>1 DEF Configs
  <2> QED
    BY <2>1, <2>2, NoFileAssumption DEF AllTold
<1> QED
  BY <1>1, <1>2

\* A profile's mode tells the credentials it holds, in any order of saves.
THEOREM CredentialsTold == Spec => []ModeTellsCredentials
<1>1. Init => ModeTellsCredentials
  BY EmptyTold DEF Init, ModeTellsCredentials, Fresh
<1>2. ASSUME IInv, ModeTellsCredentials, [Next]_vars PROVE ModeTellsCredentials'
  <2>1. AllTold(file)
    BY <1>2 DEF AllTold, ModeTellsCredentials
  <2>2. CASE file' = file
    BY <1>2, <2>2 DEF ModeTellsCredentials
  <2>3. ASSUME NEW c \in Commands, file' = Merged(seen[c], asked[c]), pc[c] = "write"
        PROVE  AllTold(file')
    <3>1. seen[c] = file /\ asked[c] \in Mutations(c) /\ file \in Files
      BY <1>2, <2>3 DEF IInv, Asked, Current, Shaped
    <3> QED
      BY <2>1, <2>3, <3>1, MergedTold
  <2>4. CASE file' \in Edited(file)
    <3>1. file \in Files
      BY <1>2 DEF IInv, Shaped
    <3>2. AllTold(file')
      BY <2>1, <2>4, <3>1, EditedTold
    <3> QED
      BY <3>2 DEF AllTold, ModeTellsCredentials
  <2>5. \/ file' = file \/ file' \in Edited(file)
        \/ \E c \in Commands : file' = Merged(seen[c], asked[c]) /\ pc[c] = "write"
    BY <1>2 DEF Next, vars, Load, Lock, Read, Write, Kill, Edit
  <2> QED
    BY <2>2, <2>3, <2>4, <2>5 DEF AllTold, ModeTellsCredentials
<1> QED
  BY Invariant, <1>1, <1>2, PTL DEF Spec

\* A login replaces only the credentials it saw, and keeps a switch of profile.
THEOREM LoginsMerge == Spec => LoginMerges
<1>1. ASSUME IInv, [Next]_vars, NEW c \in Commands PROVE MergesLogin(c)
  <2> SUFFICES ASSUME c \in committed' \ committed, asked[c].kind = "login"
               PROVE  /\ Auth(ProfileMap(Shape(file), asked[c].name)) = asked[c].auth
                      /\ Shape(file).current # asked[c].current => file'.current = Shape(file).current
                      /\ \A p \in Profiles \ {asked[c].name} :
                           file'.profiles[p] = Shape(file).profiles[p]
    BY DEF MergesLogin
  <2>1. \A d \in Commands : ~(Load(d) \/ Lock(d) \/ Read(d) \/ Kill(d))
    BY DEF Load, Lock, Read, Kill
  <2>2. ~Edit /\ ~UNCHANGED vars
    BY DEF Edit, vars
  <2>3. PICK d \in Commands : Write(d)
    BY <1>1, <2>1, <2>2 DEF Next
  <2>4. d = c /\ pc[c] = "write" /\ file' = Merged(seen[c], asked[c])
    BY <2>3 DEF Write
  <2>5. seen[c] = file /\ Mergeable(file, asked[c]) /\ file \in Files /\ asked[c] \in Mutations(c)
    BY <1>1, <2>4 DEF IInv, Current, Asked, Shaped
  <2>6. Auth(ProfileMap(Shape(file), asked[c].name)) = asked[c].auth
    BY <2>5 DEF Mergeable
  <2> DEFINE cfg == Shape(file)
             new == WithLogin(ProfileMap(cfg, asked[c].name), asked[c].by)
             chosen == IF cfg.current = asked[c].current THEN asked[c].name ELSE cfg.current
  <2>7. file' = SetProfile(cfg, asked[c].name, new, chosen) /\ cfg \in Configs
    BY <2>4, <2>5, ShapeType DEF Merged
  <2> HIDE DEF cfg, new
  <2>8. /\ file'.current = chosen
        /\ \A p \in Profiles \ {asked[c].name} : file'.profiles[p] = cfg.profiles[p]
    BY <2>7 DEF SetProfile, Configs
  <2> QED
    BY <2>6, <2>8 DEF cfg
<1>2. IInv /\ [Next]_vars => \A c \in Commands : MergesLogin(c)
  BY <1>1
<1> QED
  BY Invariant, <1>2, PTL DEF Spec, LoginMerges

-----------------------------------------------------------------------------
\* The abstract store uses the same operators.
LEMMA Same ==
  ASSUME NEW f, NEW m, NEW r, NEW c
  PROVE  /\ Register!Merged(f, m) = Merged(f, m)
         /\ Register!Mergeable(f, m) = Mergeable(f, m)
         /\ Register!Recorded(f, r, c) = Recorded(f, r, c)
         /\ Register!Edited(f) = Edited(f)
         /\ Register!Requests = Requests /\ Register!Fresh = Fresh
<1>1. Register!Fresh = Fresh
  BY DEF Register!Fresh, Fresh, Register!Empty, Empty
<1>2. Register!Shape(f) = Shape(f)
  BY <1>1 DEF Register!Shape, Shape
<1>3. \A cfg, p : Register!ProfileMap(cfg, p) = ProfileMap(cfg, p)
  BY DEF Register!ProfileMap, ProfileMap, Register!Empty, Empty
<1>4. \A p : Register!Auth(p) = Auth(p)
  BY DEF Register!Auth, Auth
<1>5. \A p, k, v : Register!WithValue(p, k, v) = WithValue(p, k, v)
  BY DEF Register!WithValue, WithValue, Register!ModeOf, ModeOf
<1>6. \A p, v : Register!WithLogin(p, v) = WithLogin(p, v)
  BY DEF Register!WithLogin, WithLogin
<1>7. \A cfg, n, p, u : Register!SetProfile(cfg, n, p, u) = SetProfile(cfg, n, p, u)
  BY DEF Register!SetProfile, SetProfile
<1>8. Register!Merged(f, m) = Merged(f, m)
  BY <1>2, <1>3, <1>5, <1>6, <1>7 DEF Register!Merged, Merged
<1>9. Register!Mergeable(f, m) = Mergeable(f, m)
  BY <1>2, <1>3, <1>4 DEF Register!Mergeable, Mergeable
<1>10. Register!Recorded(f, r, c) = Recorded(f, r, c)
  BY <1>2, <1>3, <1>4 DEF Register!Recorded, Recorded
<1>11. Register!Edited(f) = Edited(f)
  BY DEF Register!Edited, Edited
<1>12. Register!Requests = Requests
  BY DEF Register!Requests, Requests, Register!Keys, Keys
<1> QED
  BY <1>1, <1>8, <1>9, <1>10, <1>11, <1>12

\* Every step of a command is a step of the abstract store or leaves it alone.
THEOREM NeverLosesUpdates == Spec => NoLostUpdate
<1>1. Init => Register!Init
  BY Same DEF Init, Register!Init
<1>2. ASSUME IInv, [Next]_vars PROVE [Register!Next]_(Register!vars)
  <2>1. CASE UNCHANGED vars
    BY <2>1 DEF vars, Register!vars
  <2>2. ASSUME NEW c \in Commands, Load(c) PROVE Register!Ask(c)
    BY <1>2, <2>2, Same, ZenonT(60) DEF IInv, Asked, Load, Register!Ask
  <2>3. ASSUME NEW c \in Commands, Write(c) PROVE Register!Commit(c) \/ UNCHANGED Register!vars
    <3>1. pc[c] = "write" /\ asked[c] \in Mutations(c) /\ c \notin committed
      BY <1>2, <2>3 DEF IInv, Write, Asked, Once
    <3>2. asked[c] # None /\ seen[c] = file /\ Mergeable(file, asked[c])
      BY <1>2, <3>1, MutationAssumption DEF IInv, Current
    <3> QED
      BY <2>3, <3>1, <3>2, Same DEF Write, Register!Commit, Register!vars
  <2>4. ASSUME NEW c \in Commands, Lock(c) \/ Read(c) \/ Kill(c) PROVE UNCHANGED Register!vars
    BY <2>4 DEF Lock, Read, Kill, Register!vars
  <2>5. ASSUME Edit PROVE Register!Edit
    BY <2>5, Same DEF Edit, Register!Edit
  <2> QED
    BY <1>2, <2>1, <2>2, <2>3, <2>4, <2>5 DEF Next, Register!Next
<1> QED
  BY Invariant, <1>1, <1>2, PTL DEF Spec, NoLostUpdate, Register!Spec

-----------------------------------------------------------------------------
(* The broker.                                                             *)

\* The goroutine the broker knows of is the only one that has not published,
\* and there is none before the activation, when the seed alone is served.
KnownRefresh ==
  /\ \A k \in Slots :
       /\ slot[k].at \in Running => refresh = k
       /\ slot[k].at = "acquire" => slot[k].got = 0
  /\ ~enabled => refresh = NoSlot
  /\ phase = "preflight" => ~enabled /\ current = 1

\* What has been validated, is served or is being answered is of the pinned
\* identity, and no version is alien before the source has issued it.
Pinned ==
  /\ 1 \notin alien /\ current \notin alien
  /\ \A v \in alien : v <= issued
  /\ \A k \in Slots : slot[k].got <= issued /\ (slot[k].at = "publish" => slot[k].got \notin alien)
  /\ \A r \in Connections : req[r].got <= issued /\ (req[r].at = "answer" => req[r].got \notin alien)

\* What was answered lies behind the snapshot, and a refresh is not behind it.
Ordered ==
  /\ current \in 1..issued /\ lastServed <= current
  /\ \A k \in Slots : slot[k].at \in Running /\ slot[k].got # 0 => slot[k].got >= current
  /\ \A r \in Connections :
       /\ req[r].floor <= lastServed
       /\ req[r].at = "answer" => req[r].got <= current
       /\ req[r].at \in {"lock", "wait"} => req[r].got = 0

\* What a refresh goroutine and a handler remember.
Refreshes == [at : Running \cup {"close", "ended"}, got : 0..MaxVersion]
Handlers == [at : {"idle", "lock", "wait", "recheck", "answer"},
             on : Slots \cup {NoSlot}, got : 0..MaxVersion, floor : 0..MaxVersion]

BrokerInv == BrokerTypeOK /\ KnownRefresh /\ Pinned /\ Ordered /\ NoStepBack

-----------------------------------------------------------------------------
LEMMA ArriveStep == ASSUME BrokerInv, NEW r \in Connections, Arrive(r) PROVE BrokerInv'
<1> USE BrokerAssumption DEF BrokerInv, Arrive, state, source, Valid, Versions, Running
<1>1. BrokerTypeOK'
  BY DEF BrokerTypeOK, Ages, KnownRefresh
<1>2. KnownRefresh'
  BY DEF BrokerTypeOK, KnownRefresh
<1>3. Pinned'
  BY DEF BrokerTypeOK, Pinned, Ordered, KnownRefresh
<1>4. Ordered'
  BY DEF BrokerTypeOK, Ordered, Pinned, KnownRefresh
<1>5. NoStepBack'
  BY DEF BrokerTypeOK, Ordered, NoStepBack
<1> QED BY <1>1, <1>2, <1>3, <1>4, <1>5

LEMMA SnapshotStep == ASSUME BrokerInv, NEW r \in Connections, Snapshot(r) PROVE BrokerInv'
<1> USE BrokerAssumption DEF BrokerInv, Running
<1>1. \/ UNCHANGED <<refresh, slot>>
      \/ /\ enabled /\ refresh = NoSlot
         /\ \E k \in Slots : /\ slot[k].at = "ended" /\ refresh' = k
                             /\ slot' = [slot EXCEPT ![k] = [at |-> "acquire", got |-> 0]]
  BY DEF Snapshot, StartRefresh, Spare
<1>2. /\ refresh' \in Slots \cup {NoSlot}
      /\ slot' \in [Slots -> Refreshes]
      /\ refresh' # NoSlot => slot'[refresh'].at \in Running
  BY <1>1 DEF BrokerTypeOK, Refreshes
<1>3. /\ req' = [req EXCEPT ![r] = req'[r]]
      /\ req[r].at = "lock" /\ req'[r].floor = req[r].floor
      /\ \/ req'[r].at = "answer" /\ req'[r].got \in {req[r].got, current}
         \/ req'[r].at = "wait" /\ req'[r].got = req[r].got
  BY DEF BrokerTypeOK, Snapshot
<1>4. req'[r] \in Handlers
  BY <1>2, ZenonT(60) DEF BrokerTypeOK, Snapshot, Handlers
<1>5. UNCHANGED <<source, current, enabled, refreshErr, serveErr, phase, lastServed>>
  BY DEF Snapshot
<1> USE <1>5 DEF source
<1>6. BrokerTypeOK'
  BY <1>2, <1>3, <1>4 DEF BrokerTypeOK, Refreshes, Handlers
<1>7. KnownRefresh'
  BY <1>1 DEF BrokerTypeOK, KnownRefresh
<1>8. Pinned'
  <2>1. \A k \in Slots : slot'[k].got <= issued /\ (slot'[k].at = "publish" => slot'[k].got \notin alien)
    <3>1. CASE UNCHANGED <<refresh, slot>>
      BY <3>1 DEF BrokerTypeOK, Pinned
    <3>2. CASE \E k \in Slots : slot' = [slot EXCEPT ![k] = [at |-> "acquire", got |-> 0]]
      BY <3>2 DEF BrokerTypeOK, Versions, Pinned
    <3> QED BY <1>1, <3>1, <3>2
  <2>2. \A q \in Connections : req'[q].got <= issued /\ (req'[q].at = "answer" => req'[q].got \notin alien)
    BY <1>3 DEF BrokerTypeOK, Versions, Pinned, Ordered
  <2> QED BY <2>1, <2>2 DEF Pinned
<1>9. Ordered'
  <2>1. \A k \in Slots : slot'[k].at \in Running /\ slot'[k].got # 0 => slot'[k].got >= current
    BY <1>1 DEF BrokerTypeOK, Ordered
  <2>2. \A q \in Connections :
           /\ req'[q].floor <= lastServed
           /\ req'[q].at = "answer" => req'[q].got <= current
           /\ req'[q].at \in {"lock", "wait"} => req'[q].got = 0
    BY <1>3 DEF BrokerTypeOK, Ordered
  <2> QED BY <2>1, <2>2 DEF Ordered
<1>10. NoStepBack'
  BY <1>3 DEF BrokerTypeOK, Ordered, NoStepBack
<1> QED BY <1>6, <1>7, <1>8, <1>9, <1>10

LEMMA WakeStep == ASSUME BrokerInv, NEW r \in Connections, Wake(r) PROVE BrokerInv'
<1> USE BrokerAssumption DEF BrokerInv, Wake, state, source, Valid, Versions, Running
<1>1. BrokerTypeOK'
  <2>1. req' = [req EXCEPT ![r] = req'[r]] /\ req'[r] \in Handlers
    BY ZenonT(60) DEF BrokerTypeOK, Handlers
  <2> QED BY <2>1 DEF BrokerTypeOK, Handlers
<1>2. KnownRefresh'
  BY DEF BrokerTypeOK, KnownRefresh
<1>3. Pinned'
  BY DEF BrokerTypeOK, Pinned, Ordered, KnownRefresh
<1>4. Ordered'
  BY DEF BrokerTypeOK, Ordered, Pinned, KnownRefresh
<1>5. NoStepBack'
  BY DEF BrokerTypeOK, Ordered, NoStepBack
<1> QED BY <1>1, <1>2, <1>3, <1>4, <1>5

LEMMA GiveUpStep == ASSUME BrokerInv, NEW r \in Connections, GiveUp(r) PROVE BrokerInv'
<1> USE BrokerAssumption DEF BrokerInv, GiveUp, state, source, Valid, Versions, Running
<1>1. BrokerTypeOK'
  BY ZenonT(60) DEF BrokerTypeOK, Ages, KnownRefresh
<1>2. KnownRefresh'
  BY DEF BrokerTypeOK, KnownRefresh
<1>3. Pinned'
  BY DEF BrokerTypeOK, Pinned, Ordered, KnownRefresh
<1>4. Ordered'
  BY DEF BrokerTypeOK, Ordered, Pinned, KnownRefresh
<1>5. NoStepBack'
  BY DEF BrokerTypeOK, Ordered, NoStepBack
<1> QED BY <1>1, <1>2, <1>3, <1>4, <1>5

LEMMA RecheckStep == ASSUME BrokerInv, NEW r \in Connections, Recheck(r) PROVE BrokerInv'
<1> USE BrokerAssumption DEF BrokerInv, Recheck, state, source, Valid, Versions, Running
<1>1. BrokerTypeOK'
  <2> DEFINE v == IF Valid(current) THEN current ELSE 0
  <2>1. v \in 0..MaxVersion /\ req[r] \in Handlers
    BY DEF BrokerTypeOK, Handlers
  <2>2. [req[r] EXCEPT !.at = "answer", !.got = v] \in Handlers
    BY <2>1 DEF Handlers
  <2>3. req' = [req EXCEPT ![r] = [req[r] EXCEPT !.at = "answer", !.got = v]]
    BY DEF BrokerTypeOK, Handlers
  <2> HIDE DEF v
  <2>4. req' \in [Connections -> Handlers]
    BY <2>2, <2>3 DEF BrokerTypeOK, Handlers
  <2> QED BY <2>4 DEF BrokerTypeOK, Handlers
<1>2. KnownRefresh'
  BY DEF BrokerTypeOK, KnownRefresh
<1>3. Pinned'
  BY DEF BrokerTypeOK, Pinned, Ordered, KnownRefresh
<1>4. Ordered'
  BY DEF BrokerTypeOK, Ordered, Pinned, KnownRefresh
<1>5. NoStepBack'
  BY DEF BrokerTypeOK, Ordered, NoStepBack
<1> QED BY <1>1, <1>2, <1>3, <1>4, <1>5

LEMMA AnswerStep == ASSUME BrokerInv, NEW r \in Connections, Answer(r) PROVE BrokerInv'
<1> USE BrokerAssumption DEF BrokerInv, Answer, state, source, Valid, Versions, Running
<1>1. BrokerTypeOK'
  BY ZenonT(60) DEF BrokerTypeOK, Ages, KnownRefresh
<1>2. KnownRefresh'
  BY DEF BrokerTypeOK, KnownRefresh
<1>3. Pinned'
  BY DEF BrokerTypeOK, Pinned, Ordered, KnownRefresh
<1>4. Ordered'
  BY DEF BrokerTypeOK, Ordered, Pinned, KnownRefresh
<1>5. NoStepBack'
  BY DEF BrokerTypeOK, Ordered, NoStepBack
<1> QED BY <1>1, <1>2, <1>3, <1>4, <1>5

LEMMA AcquireStep == ASSUME BrokerInv, NEW k \in Slots, Acquire(k) PROVE BrokerInv'
<1> USE BrokerAssumption DEF Versions
<1>1. /\ slot[k].at = "acquire" /\ slot[k].got = 0 /\ slot[k] \in Refreshes
      /\ UNCHANGED <<state, req, phase, lastServed>>
      /\ issued \in Versions /\ age \in [Versions -> Ages] /\ outages \in Nat
  <2>1. slot[k].at = "acquire" /\ UNCHANGED <<state, req, phase, lastServed>>
    BY DEF Acquire
  <2> QED BY <2>1 DEF BrokerInv, BrokerTypeOK, KnownRefresh, Refreshes
<1>2. PICK x \in Refreshes :
        /\ x \in {[at |-> "validate", got |-> issued'], [at |-> "publish", got |-> 0]}
        /\ slot' = [slot EXCEPT ![k] = x]
        /\ \/ UNCHANGED source
           \/ UNCHANGED <<issued, age, alien>> /\ outages' = outages + 1
           \/ /\ issued' = issued + 1 /\ issued' \in Versions /\ outages' = outages
              /\ alien' \in {alien, alien \cup {issued'}}
              /\ \E a \in Ages : age' = [age EXCEPT ![issued'] = a]
  <2>1. CASE /\ slot' = [slot EXCEPT ![k] = [at |-> "validate", got |-> issued]]
             /\ UNCHANGED source
    <3>1. [at |-> "validate", got |-> issued] \in Refreshes
      BY <1>1 DEF Refreshes, Running
    <3> QED BY <2>1, <3>1 DEF source
  <2>2. CASE /\ issued < MaxVersion /\ issued' = issued + 1
             /\ age' \in {[age EXCEPT ![issued'] = a] :
                            a \in IF issued' = MaxVersion THEN {"endless"} ELSE {"fresh", "stale", "endless"}}
             /\ alien' \in {alien} \cup (IF issued' = MaxVersion THEN {} ELSE {alien \cup {issued'}})
             /\ slot' = [slot EXCEPT ![k] = [at |-> "validate", got |-> issued']]
             /\ UNCHANGED outages
    <3>1. [at |-> "validate", got |-> issued'] \in Refreshes /\ issued' \in Versions
      BY <1>1, <2>2 DEF Refreshes, Running
    <3>2. \E a \in Ages : age' = [age EXCEPT ![issued'] = a]
      BY <2>2 DEF Ages
    <3> QED BY <2>2, <3>1, <3>2
  <2>3. CASE /\ outages < MaxOutages /\ outages' = outages + 1
             /\ slot' = [slot EXCEPT ![k].at = "publish"]
             /\ UNCHANGED <<issued, age, alien>>
    <3>1. [at |-> "publish", got |-> 0] \in Refreshes
      BY DEF Refreshes, Running
    <3>2. slot' = [slot EXCEPT ![k] = [at |-> "publish", got |-> 0]]
      <4>1. [slot[k] EXCEPT !.at = "publish"] = [at |-> "publish", got |-> 0]
        BY <1>1 DEF Refreshes
      <4> QED BY <2>3, <4>1
    <3> QED BY <2>3, <3>1, <3>2
  <2> QED BY <2>1, <2>2, <2>3 DEF Acquire
<1>3. issued' \in {issued, issued + 1} \cap Versions /\ age' \in [Versions -> Ages] /\ outages' \in Nat
  BY <1>1, <1>2 DEF source
<1>4. \/ alien' = alien
      \/ issued' = issued + 1 /\ alien' = alien \cup {issued'}
  BY <1>2 DEF source
<1> USE <1>1, <1>2, <1>3, <1>4 DEF BrokerInv, state, Running, Refreshes
<1>5. BrokerTypeOK'
  <2>1. slot' \in [Slots -> Refreshes] /\ (refresh' # NoSlot => slot'[refresh'].at \in Running)
    BY DEF BrokerTypeOK, KnownRefresh
  <2>2. alien' \subseteq Versions
    BY DEF BrokerTypeOK
  <2> QED BY <2>1, <2>2 DEF BrokerTypeOK
<1>6. KnownRefresh'
  BY DEF BrokerTypeOK, KnownRefresh
<1>7. Pinned'
  <2>1. \A v \in alien' : v <= issued' /\ v # 1 /\ v # current
    <3>1. \A v \in alien : v <= issued' /\ v # 1 /\ v # current
      BY DEF Pinned, BrokerTypeOK
    <3>2. issued + 1 # 1 /\ issued + 1 # current
      BY DEF Ordered
    <3> QED BY <3>1, <3>2
  <2>2. \A j \in Slots : slot'[j].got <= issued' /\ (slot'[j].at = "publish" => slot'[j].got \notin alien')
    BY DEF Pinned, BrokerTypeOK
  <2>3. \A q \in Connections : req[q].got <= issued' /\ (req[q].at = "answer" => req[q].got \notin alien')
    BY DEF Pinned, BrokerTypeOK
  <2> QED BY <2>1, <2>2, <2>3 DEF Pinned
<1>8. Ordered'
  BY DEF BrokerTypeOK, Ordered, Pinned
<1>9. NoStepBack'
  BY DEF NoStepBack
<1> QED BY <1>5, <1>6, <1>7, <1>8, <1>9

LEMMA ValidateStep == ASSUME BrokerInv, NEW k \in Slots, Validate(k) PROVE BrokerInv'
<1> USE BrokerAssumption
<1>1. PICK v \in {0, slot[k].got} :
         v \notin alien /\ slot' = [slot EXCEPT ![k] = [at |-> "publish", got |-> v]]
  BY DEF BrokerInv, BrokerTypeOK, Versions, Validate
<1>2. /\ slot[k].at = "validate" /\ outages' \in Nat
      /\ UNCHANGED <<issued, age, alien, state, req, phase, lastServed>>
  BY DEF BrokerInv, BrokerTypeOK, Validate
<1> USE <1>1, <1>2 DEF BrokerInv, state, Running
<1>3. BrokerTypeOK'
  BY DEF BrokerTypeOK, Versions
<1>4. KnownRefresh'
  BY DEF BrokerTypeOK, KnownRefresh
<1>5. Pinned'
  BY DEF BrokerTypeOK, Versions, Pinned, Ordered
<1>6. Ordered'
  BY DEF BrokerTypeOK, Versions, Ordered, Pinned
<1>7. NoStepBack'
  BY DEF NoStepBack
<1> QED BY <1>3, <1>4, <1>5, <1>6, <1>7

LEMMA PublishStep == ASSUME BrokerInv, NEW k \in Slots, Publish(k) PROVE BrokerInv'
<1> USE BrokerAssumption DEF BrokerInv, Publish, source, Running
<1>1. current' = current \/ (current' = slot[k].got /\ slot[k].got # 0)
  BY DEF BrokerTypeOK, Valid
<1>2. \A j \in Slots \ {k} : slot[j].at \notin Running
  BY DEF BrokerTypeOK, KnownRefresh
<1>3. /\ slot'[k].at = "close" /\ slot'[k].got = slot[k].got
      /\ \A j \in Slots \ {k} : slot'[j] = slot[j]
  BY DEF BrokerTypeOK
<1> HIDE DEF Publish
<1>4. /\ slot[k].at = "publish" /\ refresh' = NoSlot /\ refreshErr' \in BOOLEAN
      /\ UNCHANGED <<issued, age, alien, outages, enabled, serveErr, req, phase, lastServed>>
  BY DEF Publish
<1>5. slot' \in [Slots -> Refreshes]
  BY DEF Publish, BrokerTypeOK, Refreshes
<1>6. BrokerTypeOK'
  BY <1>1, <1>4, <1>5 DEF BrokerTypeOK, Refreshes
<1>7. KnownRefresh'
  <2>1. \A j \in Slots : slot'[j].at \notin Running
    BY <1>2, <1>3
  <2>2. enabled /\ phase # "preflight"
    BY <1>4 DEF BrokerTypeOK, KnownRefresh
  <2> QED BY <1>4, <2>1, <2>2 DEF KnownRefresh
<1>8. Pinned'
  BY <1>1, <1>3, <1>4 DEF BrokerTypeOK, Pinned
<1>9. Ordered'
  <2>1. current' \in 1..issued /\ current' >= current
    BY <1>1, <1>4 DEF BrokerTypeOK, Versions, Ordered, Pinned
  <2>2. \A j \in Slots : slot'[j].at \notin Running
    BY <1>2, <1>3
  <2> QED BY <1>4, <2>1, <2>2 DEF BrokerTypeOK, Versions, Ordered
<1>10. NoStepBack'
  BY <1>4 DEF NoStepBack
<1> QED BY <1>6, <1>7, <1>8, <1>9, <1>10

LEMMA CloseDoneStep == ASSUME BrokerInv, NEW k \in Slots, CloseDone(k) PROVE BrokerInv'
<1> USE BrokerAssumption DEF BrokerInv, CloseDone, state, source, Valid, Versions, Running
<1>1. BrokerTypeOK'
  BY SMTT(30) DEF BrokerTypeOK, Ages, KnownRefresh
<1>2. KnownRefresh'
  BY DEF BrokerTypeOK, KnownRefresh
<1>3. Pinned'
  BY DEF BrokerTypeOK, Pinned, Ordered, KnownRefresh
<1>4. Ordered'
  BY DEF BrokerTypeOK, Ordered, Pinned, KnownRefresh
<1>5. NoStepBack'
  BY DEF BrokerTypeOK, Ordered, NoStepBack
<1> QED BY <1>1, <1>2, <1>3, <1>4, <1>5

LEMMA AgeStep == ASSUME BrokerInv, NEW v \in Versions, Age(v) PROVE BrokerInv'
<1> USE BrokerAssumption DEF BrokerInv, Age, state, source, Valid, Versions, Running
<1>1. BrokerTypeOK'
  BY DEF BrokerTypeOK, Ages, KnownRefresh
<1>2. KnownRefresh'
  BY DEF BrokerTypeOK, KnownRefresh
<1>3. Pinned'
  BY DEF BrokerTypeOK, Pinned, Ordered, KnownRefresh
<1>4. Ordered'
  BY DEF BrokerTypeOK, Ordered, Pinned, KnownRefresh
<1>5. NoStepBack'
  BY DEF BrokerTypeOK, Ordered, NoStepBack
<1> QED BY <1>1, <1>2, <1>3, <1>4, <1>5

LEMMA ActivateStep == ASSUME BrokerInv, Activate PROVE BrokerInv'
<1> USE BrokerAssumption DEF BrokerInv, Activate, state, source, Valid, Versions, Running
<1>1. BrokerTypeOK'
  BY DEF BrokerTypeOK, Ages, KnownRefresh
<1>2. KnownRefresh'
  BY DEF BrokerTypeOK, KnownRefresh
<1>3. Pinned'
  BY DEF BrokerTypeOK, Pinned, Ordered, KnownRefresh
<1>4. Ordered'
  BY DEF BrokerTypeOK, Ordered, Pinned, KnownRefresh
<1>5. NoStepBack'
  BY DEF BrokerTypeOK, Ordered, NoStepBack
<1> QED BY <1>1, <1>2, <1>3, <1>4, <1>5

LEMMA CloseStep == ASSUME BrokerInv, Close PROVE BrokerInv'
<1> USE BrokerAssumption DEF BrokerInv, Close, state, source, Valid, Versions, Running
<1>1. BrokerTypeOK'
  BY DEF BrokerTypeOK, Ages, KnownRefresh
<1>2. KnownRefresh'
  BY DEF BrokerTypeOK, KnownRefresh
<1>3. Pinned'
  BY DEF BrokerTypeOK, Pinned, Ordered, KnownRefresh
<1>4. Ordered'
  BY DEF BrokerTypeOK, Ordered, Pinned, KnownRefresh
<1>5. NoStepBack'
  BY DEF BrokerTypeOK, Ordered, NoStepBack
<1> QED BY <1>1, <1>2, <1>3, <1>4, <1>5

LEMMA ClosedStep == ASSUME BrokerInv, Closed PROVE BrokerInv'
<1> USE BrokerAssumption DEF BrokerInv, Closed, state, source, Valid, Versions, Running
<1>1. BrokerTypeOK'
  BY DEF BrokerTypeOK, Ages, KnownRefresh
<1>2. KnownRefresh'
  BY DEF BrokerTypeOK, KnownRefresh
<1>3. Pinned'
  BY DEF BrokerTypeOK, Pinned, Ordered, KnownRefresh
<1>4. Ordered'
  BY DEF BrokerTypeOK, Ordered, Pinned, KnownRefresh
<1>5. NoStepBack'
  BY DEF BrokerTypeOK, Ordered, NoStepBack
<1> QED BY <1>1, <1>2, <1>3, <1>4, <1>5

-----------------------------------------------------------------------------
\* A broker is seeded with a credential of the identity it is pinned to.
LEMMA BrokerInitially == BrokerInit => BrokerInv
<1> SUFFICES ASSUME BrokerInit PROVE BrokerInv
  OBVIOUS
<1> USE BrokerAssumption DEF BrokerInit, SeedEnabled, Running
<1>1. BrokerTypeOK
  <2>1. age \in [Versions -> Ages]
    BY DEF Versions, Ages
  <2>2. slot \in [Slots -> Refreshes] /\ req \in [Connections -> Handlers]
    BY DEF Refreshes, Handlers
  <2>3. /\ refresh # NoSlot => slot[refresh].at \in Running
        /\ issued \in Versions /\ alien \subseteq Versions
    BY DEF Versions
  <2>4. outages \in Nat /\ current \in 0..MaxVersion /\ lastServed \in 0..MaxVersion
    OBVIOUS
  <2>5. /\ enabled \in BOOLEAN /\ refreshErr \in BOOLEAN /\ serveErr \in BOOLEAN
        /\ refresh \in Slots \cup {NoSlot} /\ phase \in {"preflight", "active", "closing", "closed"}
    OBVIOUS
  <2> HIDE DEF BrokerInit
  <2> QED BY <2>1, <2>2, <2>3, <2>4, <2>5 DEF BrokerTypeOK, Refreshes, Handlers
<1>2. KnownRefresh /\ NoStepBack
  BY DEF KnownRefresh, NoStepBack
<1>3. Pinned
  BY DEF Pinned
<1>4. Ordered
  BY DEF Ordered
<1> QED BY <1>1, <1>2, <1>3, <1>4 DEF BrokerInv

\* No step of a handler, a refresh, the call or time breaks the invariant.
LEMMA Inductive == BrokerInv /\ [BrokerNext]_brokerVars => BrokerInv'
<1> SUFFICES ASSUME BrokerInv, [BrokerNext]_brokerVars PROVE BrokerInv'
  OBVIOUS
<1>1. CASE \E r \in Connections : Arrive(r) \/ Handle(r) \/ GiveUp(r)
  BY <1>1, ArriveStep, SnapshotStep, WakeStep, RecheckStep, AnswerStep, GiveUpStep DEF Handle
<1>2. CASE \E k \in Slots : Refreshing(k)
  BY <1>2, AcquireStep, ValidateStep, PublishStep, CloseDoneStep DEF Refreshing
<1>3. CASE \E v \in Versions : Age(v)
  BY <1>3, AgeStep
<1>4. CASE Activate \/ Close \/ Closed
  BY <1>4, ActivateStep, CloseStep, ClosedStep
<1>5. CASE UNCHANGED brokerVars
  BY <1>5 DEF brokerVars, source, state, BrokerInv, BrokerTypeOK, KnownRefresh, Pinned, Ordered, NoStepBack,
              Valid
<1> QED BY <1>1, <1>2, <1>3, <1>4, <1>5 DEF BrokerNext

\* The known refresh is the only one that asks the source.
LEMMA OneAsks == BrokerInv => SingleFlight
<1> SUFFICES ASSUME BrokerInv, NEW j \in Slots, NEW k \in Slots, {slot[j].at, slot[k].at} \subseteq Running
             PROVE  j = k
  BY DEF SingleFlight
<1> QED BY DEF BrokerInv, BrokerTypeOK, KnownRefresh, Running

\* However many requests meet at the broker and whatever they wait for, one of
\* them at a time asks the provider, nothing is lent that belongs to another
\* identity than the session's, and no answer is older than one that was given
\* before the request came (snapshot, startRefreshLocked).
THEOREM Lends == BrokerSpec => []Lending
<1>1. BrokerInv => Lending
  BY OneAsks DEF BrokerInv, Pinned, Lending, ServesPinnedIdentity
<1> QED BY BrokerInitially, Inductive, <1>1, PTL DEF BrokerSpec
=============================================================================
