--------------------------- MODULE ReleaseProofs ---------------------------
(***************************************************************************)
(* Theorems about Release, for every set of releases and operators and     *)
(* every number of builds and of scripts.                                  *)
(*                                                                         *)
(* A release that is not built anew while another script works on it has   *)
(* one image: the script that builds it has it for itself, so the tag, the *)
(* bundle and the digest it has noted agree, and the manifest it writes is *)
(* what every promotion of the release has in memory until it ends.        *)
(***************************************************************************)
EXTENDS Release, TLAPS

-----------------------------------------------------------------------------
(* The inductive invariant.                                                *)

Scripts == [pc : Labels, env : Maybe(Envs), release : Maybe(Releases),
            digest : Maybe(Images), tar : Maybe(Images), noted : Maybe(States)]

Building == {"tag", "save"}
Shipping == {"ship", "load", "check", "inspect"}
Later == {"deploy", "verify", "record", "state"}

Promotes(o) == op[o].env \in {"dev", "uat"} /\ op[o].pc \in Shipping \union Later

\* What the commands of a script rely on: it has a release, and the digests,
\* tags, containers and files it needs are there, whoever else is at work.
Equipped(o) ==
  LET s == op[o]  e == op[o].env  r == op[o].release IN
  /\ s.pc \in {"idle", "noop"} => r = NoOne
  /\ s.pc # "idle" => e \in Envs
  /\ s.pc \in Building \union Shipping \union Later => r \in Releases
  /\ s.pc \in Building => e = "local" /\ latest \in Images
  /\ s.pc \in Shipping => e \in {"dev", "uat"}
  /\ s.pc = "save" => s.digest \in Images /\ tag["local"][r] \in Images
  /\ s.pc \in Shipping \union Later => s.digest \in Images /\ s.tar \in Images
  /\ s.pc \in {"inspect", "deploy"} => tag[e][r] \in Images
  /\ s.pc = "verify" => running[e] # NoOne
  /\ Promotes(o) => manifest[r] # NoOne

\* The script that builds a release is the only one that works on it.
Alone(r) ==
  \A o, p \in Operators :
    op[o].env = "local" /\ op[o].release = r /\ op[p].release = r => o = p

\* The manifest of a release names one image, which ran where it says.
ManifestTrue(r) ==
  manifest[r] # NoOne =>
    /\ manifest[r].digest = manifest[r].tar
    /\ manifest[r].digest \in proven["local"]
    /\ \A env \in manifest[r].passed : manifest[r].digest \in proven[env]

\* What a script knows of its release: tag, tar and digest are one image,
\* the manifest in its memory is the one on disk, and the image has run where
\* it had to before it came here.
Knows(o) ==
  LET s == op[o]  e == op[o].env  r == op[o].release IN
  /\ s.pc = "save" => tag["local"][r] = s.digest
  /\ s.pc \in Later => s.tar = s.digest
  /\ s.pc = "inspect" => tag[e][r] = s.tar
  /\ s.pc = "deploy" => tag[e][r] = s.digest
  /\ s.pc \in {"record", "state"} => s.digest \in proven[e]
  /\ Promotes(o) => s.digest = manifest[r].digest /\ s.tar = manifest[r].tar
  /\ Promotes(o) /\ e = "uat" => s.digest \in proven["dev"]

\* An env-state, on disk or in the hands of a script, names an image that ran
\* in its environment.
Recorded(env, s) ==
  s # NoOne /\ s.release \in Releases \ overlapped => s.digest \in proven[env]

\* A container is what it says, and passed the stage before.
Runs(env) ==
  running[env] # NoOne /\ running[env].release \notin overlapped =>
    /\ running[env].says # NoOne => running[env].image = running[env].says
    /\ env # "local" => running[env].image \in proven[Before(env)]

ReleaseInv ==
  /\ TypeOK
  /\ \A o \in Operators : Equipped(o)
  /\ \A r \in Releases \ overlapped : Alone(r) /\ ManifestTrue(r)
  /\ \A o \in Operators : op[o].release \in Releases \ overlapped => Knows(o)
  /\ \A o \in Operators : op[o].pc = "noop" => Recorded(op[o].env, op[o].noted)
  /\ \A env \in Envs : Recorded(env, state[env]) /\ Runs(env)

\* One operator's part of the next-state relation.
Acts(o) ==
  \/ LocalVerify(o) \/ Promote(o)
  \/ StartContainer(o) \/ VerifyRuntime(o) \/ WriteState(o)
  \/ \E env \in Envs : NoopRead(o, env)
  \/ NoopWrite(o) \/ Stop(o)

LEMMA NextActs == Next => \E o \in Operators : Acts(o)
BY DEF Next, Acts

-----------------------------------------------------------------------------
(* Scripts.                                                                *)

LEMMA IdleScript == Idle \in Scripts /\ Idle.pc = "idle" /\ Idle.release = NoOne
BY DEF Idle, Scripts, Labels, Maybe

LEMMA ReleaseInvInit == Init => ReleaseInv
<1> SUFFICES ASSUME Init
             PROVE  ReleaseInv
  OBVIOUS
<1>1. TypeOK
  <2>1. op \in [Operators -> Scripts]
    BY IdleScript DEF Init
  <2>2. /\ built \in 0 .. MaxBuilds /\ started \in 0 .. MaxScripts
        /\ tag \in [Envs -> [Releases -> Maybe(Images)]]
        /\ bundle \in [Envs -> [Releases -> Maybe(Images)]]
    BY BoundsAssumption DEF Init, Maybe
  <2> QED
    BY <2>1, <2>2 DEF Init, TypeOK, Maybe, Scripts
<1>2. \A o \in Operators : op[o] = Idle
  BY DEF Init
<1>3. \A o \in Operators : Equipped(o)
  BY <1>2, IdleScript DEF Equipped, Promotes, Building, Shipping, Later
<1>4. \A r \in Releases : Alone(r) /\ ManifestTrue(r)
  BY <1>2, IdleScript, NoOneAssumption DEF Init, Alone, ManifestTrue
<1>5. \A o \in Operators : op[o].release \notin Releases /\ op[o].pc # "noop"
  BY <1>2, IdleScript, NoOneAssumption
<1>6. \A env \in Envs : Recorded(env, state[env]) /\ Runs(env)
  BY DEF Init, Recorded, Runs
<1> QED
  BY <1>1, <1>3, <1>4, <1>5, <1>6 DEF ReleaseInv

LEMMA StepScript ==
  ASSUME TypeOK, NEW o \in Operators, NEW x \in Scripts, Step(o, x)
  PROVE  /\ op' \in [Operators -> Scripts] /\ started' \in 0 .. MaxScripts
         /\ op'[o] = x
         /\ \A p \in Operators \ {o} : op'[p] = op[p]
BY DEF TypeOK, Scripts, Step

LEMMA StartScript ==
  ASSUME TypeOK, NEW o \in Operators, NEW x \in Scripts, Start(o, x)
  PROVE  /\ op' \in [Operators -> Scripts] /\ started' \in 0 .. MaxScripts
         /\ op'[o] = x
         /\ \A p \in Operators \ {o} : op'[p] = op[p]
         /\ op[o].pc = "idle"
<1>1. started' \in 0 .. MaxScripts
  BY BoundsAssumption DEF TypeOK, Start
<1> QED
  BY <1>1 DEF TypeOK, Scripts, Start

LEMMA GotoScript ==
  ASSUME TypeOK, NEW o \in Operators, NEW label \in Labels, Goto(o, label)
  PROVE  /\ op' \in [Operators -> Scripts] /\ started' \in 0 .. MaxScripts
         /\ op'[o] = [op[o] EXCEPT !.pc = label]
         /\ op'[o].pc = label /\ op'[o].env = op[o].env /\ op'[o].release = op[o].release
         /\ op'[o].digest = op[o].digest /\ op'[o].tar = op[o].tar
         /\ op'[o].noted = op[o].noted
         /\ \A p \in Operators \ {o} : op'[p] = op[p]
<1> DEFINE x == [op[o] EXCEPT !.pc = label]
<1>1. op[o] \in Scripts
  BY DEF TypeOK, Scripts
<1>2. x \in Scripts
  BY <1>1 DEF Scripts
<1>3. /\ x.pc = label /\ x.env = op[o].env /\ x.release = op[o].release
      /\ x.digest = op[o].digest /\ x.tar = op[o].tar /\ x.noted = op[o].noted
  BY <1>1 DEF Scripts
<1>4. Step(o, x)
  BY DEF Goto
<1> HIDE DEF x
<1>5. op'[o] = x
  BY <1>2, <1>4, StepScript
<1>6. op'[o] = [op[o] EXCEPT !.pc = label]
  BY <1>5 DEF x
<1> QED
  BY <1>2, <1>3, <1>4, <1>5, <1>6, StepScript

-----------------------------------------------------------------------------
(* What each command does to its script, and that the script is equipped   *)
(* for the next one.                                                       *)

\* The scripts of the others stay as they are.
Only(o) == \A p \in Operators \ {o} : op'[p] = op[p]

\* The script has moved on to a label and remembers what it did.
Moved(o, label) ==
  /\ op'[o].pc = label /\ op'[o].env = op[o].env /\ op'[o].release = op[o].release
  /\ Only(o)

LEMMA BuildMoves ==
  ASSUME TypeOK, NEW o \in Operators, NEW r \in Releases, BuildImage(o, r)
  PROVE  /\ TypeOK' /\ Equipped(o)' /\ Only(o) /\ op[o].pc = "idle"
         /\ op'[o].pc = "tag" /\ op'[o].env = "local" /\ op'[o].release = r
<1> DEFINE x == [Idle EXCEPT !.pc = "tag", !.env = "local", !.release = r]
           y == [release |-> r, says |-> NoOne, image |-> built + 1]
<1>1. x \in Scripts /\ x.pc = "tag" /\ x.env = "local" /\ x.release = r
  BY DEF Idle, Scripts, Labels, Maybe, Envs
<1>2. Start(o, x)
  BY DEF BuildImage
<1>3. built + 1 \in Images /\ built + 1 \in 0 .. MaxBuilds
  BY BoundsAssumption DEF BuildImage, TypeOK, Images
<1>4. y \in Containers
  BY <1>3 DEF Containers, Maybe
<1>5. /\ built' = built + 1 /\ latest' = built + 1
      /\ running' = [running EXCEPT !["local"] = y]
      /\ overlapped' \in {overlapped, overlapped \union {r}}
      /\ UNCHANGED <<tag, files, proven>>
  BY DEF BuildImage
<1> HIDE DEF x, y
<1>6. running' \in [Envs -> Maybe(Containers)]
  BY <1>4, <1>5 DEF TypeOK, Maybe
<1>7. /\ op' \in [Operators -> Scripts] /\ started' \in 0 .. MaxScripts
      /\ op'[o] = x /\ Only(o) /\ op[o].pc = "idle"
  BY <1>1, <1>2, StartScript DEF Only
<1>8. latest' \in Maybe(Images) /\ overlapped' \subseteq Releases
  BY <1>3, <1>5 DEF TypeOK, Maybe
<1>9. TypeOK'
  BY <1>3, <1>5, <1>6, <1>7, <1>8 DEF TypeOK, Scripts, files
<1>10. Equipped(o)'
  BY <1>1, <1>3, <1>5, <1>7 DEF Equipped, Promotes, Building, Shipping, Later, Envs
<1> QED
  BY <1>1, <1>7, <1>9, <1>10

LEMMA TagMoves ==
  ASSUME TypeOK, NEW o \in Operators, Equipped(o), TagImage(o)
  PROVE  /\ TypeOK' /\ Equipped(o)' /\ Moved(o, "save")
         /\ op[o].env = "local" /\ op[o].release \in Releases
         /\ op'[o].digest = latest /\ tag'["local"][op[o].release] = latest
<1> DEFINE x == [op[o] EXCEPT !.pc = "save", !.digest = latest]
           r == op[o].release
<1>1. op[o] \in Scripts /\ op[o].pc = "tag" /\ op[o].env = "local"
  BY DEF TagImage, At, TypeOK, Scripts
<1>2. r \in Releases /\ latest \in Images
  BY <1>1 DEF Equipped, Building
<1>3. /\ x \in Scripts /\ x.pc = "save" /\ x.env = op[o].env /\ x.release = r
      /\ x.digest = latest
  BY <1>1, <1>2 DEF Scripts, Labels, Maybe
<1>4. /\ Step(o, x) /\ tag' = [tag EXCEPT !["local"][r] = latest]
      /\ UNCHANGED <<built, latest, running, files, proven, overlapped>>
  BY DEF TagImage
<1> HIDE DEF x, r
<1>5. tag' \in [Envs -> [Releases -> Maybe(Images)]] /\ tag'["local"][r] = latest
  BY <1>2, <1>4 DEF TypeOK, Maybe, Envs
<1>6. /\ op' \in [Operators -> Scripts] /\ started' \in 0 .. MaxScripts
      /\ op'[o] = x /\ Only(o)
  BY <1>3, <1>4, StepScript DEF Only
<1>7. TypeOK'
  BY <1>4, <1>5, <1>6 DEF TypeOK, Scripts, files
<1>8. Equipped(o)'
  BY <1>1, <1>2, <1>3, <1>4, <1>5, <1>6
     DEF Equipped, Promotes, Building, Shipping, Later, Envs
<1> QED
  BY <1>1, <1>2, <1>3, <1>5, <1>6, <1>7, <1>8 DEF r, Moved

LEMMA SaveMoves ==
  ASSUME TypeOK, NEW o \in Operators, Equipped(o), SaveBundle(o)
  PROVE  /\ TypeOK' /\ Equipped(o)' /\ Moved(o, "deploy")
         /\ op[o].pc = "save" /\ op[o].env = "local" /\ op[o].release \in Releases
         /\ op'[o].digest = op[o].digest /\ op'[o].tar = tag["local"][op[o].release]
<1> DEFINE r == op[o].release
           t == tag["local"][r]
           x == [op[o] EXCEPT !.pc = "deploy", !.tar = t]
<1>1. op[o] \in Scripts /\ op[o].pc = "save" /\ op[o].env = "local"
  BY DEF SaveBundle, At, TypeOK, Scripts
<1>2. r \in Releases /\ t \in Images /\ op[o].digest \in Images
  BY <1>1 DEF Equipped, Building
<1>3. /\ Step(o, x) /\ bundle' = [bundle EXCEPT !["local"][r] = t]
      /\ UNCHANGED <<manifest, state, hosts, proven, overlapped>>
  BY DEF SaveBundle
<1>4. tag["local"][r] = t
  OBVIOUS
<1> HIDE DEF t
<1>5. /\ x \in Scripts /\ x.pc = "deploy" /\ x.env = op[o].env /\ x.release = r
      /\ x.digest = op[o].digest /\ x.tar = t
  BY <1>1, <1>2 DEF Scripts, Labels, Maybe
<1> HIDE DEF x, r
<1>6. bundle' \in [Envs -> [Releases -> Maybe(Images)]]
  BY <1>2, <1>3 DEF TypeOK, Maybe, Envs
<1>7. /\ op' \in [Operators -> Scripts] /\ started' \in 0 .. MaxScripts
      /\ op'[o] = x /\ Only(o)
  BY <1>3, <1>5, StepScript DEF Only
<1>8. TypeOK'
  BY <1>3, <1>6, <1>7 DEF TypeOK, Scripts, hosts
<1>9. Equipped(o)'
  BY <1>1, <1>2, <1>3, <1>4, <1>5, <1>7
     DEF Equipped, Promotes, Building, Shipping, Later, Envs, hosts
<1> QED
  BY <1>1, <1>2, <1>4, <1>5, <1>7, <1>8, <1>9 DEF r, Moved

LEMMA ContainerMoves ==
  ASSUME TypeOK, NEW o \in Operators, Equipped(o), StartContainer(o)
  PROVE  /\ TypeOK' /\ Equipped(o)' /\ Moved(o, "verify") /\ op[o].pc = "deploy"
         /\ op[o].env \in Envs /\ op[o].release \in Releases
         /\ op'[o].digest = op[o].digest /\ op'[o].tar = op[o].tar
         /\ running'[op[o].env] = [release |-> op[o].release, says |-> op[o].digest,
                                   image |-> tag[op[o].env][op[o].release]]
         /\ \A env \in Envs \ {op[o].env} : running'[env] = running[env]
<1> DEFINE r == op[o].release
           e == op[o].env
           y == [release |-> r, says |-> op[o].digest, image |-> tag[e][r]]
<1>1. op[o].pc = "deploy" /\ Goto(o, "verify") /\ "verify" \in Labels
  BY DEF StartContainer, Labels
<1>2. /\ op' \in [Operators -> Scripts] /\ started' \in 0 .. MaxScripts
      /\ Moved(o, "verify") /\ op'[o].digest = op[o].digest /\ op'[o].tar = op[o].tar
  BY <1>1, GotoScript DEF Moved, Only
<1>3. /\ e \in Envs /\ r \in Releases /\ tag[e][r] \in Images
      /\ op[o].digest \in Images /\ op[o].tar \in Images
  BY <1>1 DEF Equipped, Later
<1>4. y \in Containers
  BY <1>3 DEF Containers, Maybe
<1>5. /\ running' = [running EXCEPT ![e] = y]
      /\ UNCHANGED <<built, latest, tag, files, proven, overlapped>>
  BY DEF StartContainer
<1>6. y = [release |-> r, says |-> op[o].digest, image |-> tag[e][r]]
  OBVIOUS
<1> HIDE DEF y
<1>7. /\ running' \in [Envs -> Maybe(Containers)] /\ running'[e] = y
      /\ \A env \in Envs \ {e} : running'[env] = running[env]
  BY <1>3, <1>4, <1>5 DEF TypeOK, Maybe
<1>8. TypeOK'
  BY <1>2, <1>5, <1>7 DEF TypeOK, Scripts, files
<1>9. running'[e] # NoOne
  BY <1>4, <1>7, NoFileAssumption
<1>10. Promotes(o)' => manifest'[r] # NoOne
  BY <1>1, <1>2, <1>5 DEF Equipped, Promotes, Moved, Later, files
<1>11. Equipped(o)'
  BY <1>1, <1>2, <1>3, <1>9, <1>10 DEF Equipped, Moved, Building, Shipping, Later
<1> QED
  BY <1>1, <1>2, <1>3, <1>6, <1>7, <1>8, <1>11

LEMMA VerifyMoves ==
  ASSUME TypeOK, NEW o \in Operators, Equipped(o), VerifyRuntime(o)
  PROVE  /\ TypeOK' /\ Equipped(o)' /\ Moved(o, "record") /\ op[o].pc = "verify"
         /\ op[o].env \in Envs /\ op[o].release \in Releases
         /\ op'[o].digest = op[o].digest /\ op'[o].tar = op[o].tar
         /\ running[op[o].env].image \in proven'[op[o].env]
<1> DEFINE r == op[o].release
           e == op[o].env
<1>1. op[o].pc = "verify" /\ Goto(o, "record") /\ "record" \in Labels
  BY DEF VerifyRuntime, Labels
<1>2. /\ op' \in [Operators -> Scripts] /\ started' \in 0 .. MaxScripts
      /\ Moved(o, "record") /\ op'[o].digest = op[o].digest /\ op'[o].tar = op[o].tar
  BY <1>1, GotoScript DEF Moved, Only
<1>3. /\ e \in Envs /\ r \in Releases /\ running[e] # NoOne
      /\ op[o].digest \in Images /\ op[o].tar \in Images
  BY <1>1 DEF Equipped, Later
<1>4. running[e].image \in Images
  BY <1>3 DEF TypeOK, Maybe, Containers
<1>5. /\ proven' = [proven EXCEPT ![e] = @ \union {running[e].image}]
      /\ UNCHANGED <<files, hosts, overlapped>>
  BY DEF VerifyRuntime
<1>6. proven' \in [Envs -> SUBSET Images] /\ running[e].image \in proven'[e]
  BY <1>3, <1>4, <1>5 DEF TypeOK
<1>7. TypeOK'
  BY <1>2, <1>5, <1>6 DEF TypeOK, Scripts, files, hosts
<1>8. Promotes(o)' => manifest'[r] # NoOne
  BY <1>1, <1>2, <1>5 DEF Equipped, Promotes, Moved, Later, files
<1>9. Equipped(o)'
  BY <1>1, <1>2, <1>3, <1>8 DEF Equipped, Moved, Building, Shipping, Later
<1> QED
  BY <1>1, <1>2, <1>3, <1>6, <1>7, <1>9

LEMMA WriteManifestMoves ==
  ASSUME TypeOK, NEW o \in Operators, Equipped(o), WriteManifest(o)
  PROVE  /\ TypeOK' /\ Equipped(o)' /\ Moved(o, "state") /\ op[o].pc = "record"
         /\ op[o].env = "local" /\ op[o].release \in Releases
         /\ op'[o].digest = op[o].digest /\ op'[o].tar = op[o].tar
         /\ manifest'[op[o].release] =
              [digest |-> op[o].digest, tar |-> op[o].tar, passed |-> {"local"}]
         /\ manifest'[op[o].release] # NoOne
         /\ \A r \in Releases \ {op[o].release} : manifest'[r] = manifest[r]
<1> DEFINE r == op[o].release
           m == [digest |-> op[o].digest, tar |-> op[o].tar, passed |-> {"local"}]
<1>1. op[o].pc = "record" /\ op[o].env = "local" /\ Goto(o, "state") /\ "state" \in Labels
  BY DEF WriteManifest, At, Labels
<1>2. /\ op' \in [Operators -> Scripts] /\ started' \in 0 .. MaxScripts
      /\ Moved(o, "state") /\ op'[o].digest = op[o].digest /\ op'[o].tar = op[o].tar
  BY <1>1, GotoScript DEF Moved, Only
<1>3. r \in Releases /\ op[o].digest \in Images /\ op[o].tar \in Images
  BY <1>1 DEF Equipped, Later
<1>4. m \in Manifests
  BY <1>3 DEF Manifests, Envs
<1>5. /\ manifest' = [manifest EXCEPT ![r] = m]
      /\ UNCHANGED <<bundle, state, hosts, proven, overlapped>>
  BY DEF WriteManifest
<1>6. m = [digest |-> op[o].digest, tar |-> op[o].tar, passed |-> {"local"}]
  OBVIOUS
<1> HIDE DEF m
<1>7. /\ manifest' \in [Releases -> Maybe(Manifests)] /\ manifest'[r] = m
      /\ \A q \in Releases \ {r} : manifest'[q] = manifest[q]
  BY <1>3, <1>4, <1>5 DEF TypeOK, Maybe
<1>8. TypeOK'
  BY <1>2, <1>5, <1>7 DEF TypeOK, Scripts, hosts
<1>9. manifest'[r] # NoOne
  BY <1>4, <1>7, NoFileAssumption
<1>10. Equipped(o)'
  BY <1>1, <1>2, <1>3 DEF Equipped, Promotes, Moved, Building, Shipping, Later, Envs
<1> QED
  BY <1>1, <1>2, <1>3, <1>6, <1>7, <1>8, <1>9, <1>10

\* A script that has ended.
Ends(o) == op'[o] = Idle /\ Only(o)

LEMMA EndMoves ==
  ASSUME TypeOK, NEW o \in Operators, Equipped(o), Step(o, Idle),
         state' \in [Envs -> Maybe(States)],
         UNCHANGED <<manifest, bundle, hosts, proven, overlapped>>
  PROVE  TypeOK' /\ Equipped(o)' /\ Ends(o)
<1>1. op' \in [Operators -> Scripts] /\ started' \in 0 .. MaxScripts /\ Ends(o)
  BY IdleScript, StepScript DEF Ends, Only
<1>2. TypeOK'
  BY <1>1 DEF TypeOK, Scripts, hosts
<1>3. Equipped(o)'
  BY <1>1, IdleScript DEF Equipped, Ends, Promotes, Building, Shipping, Later
<1> QED
  BY <1>1, <1>2, <1>3

LEMMA StopMoves ==
  ASSUME TypeOK, NEW o \in Operators, Equipped(o), Stop(o)
  PROVE  TypeOK' /\ Equipped(o)' /\ Ends(o)
<1>1. state' \in [Envs -> Maybe(States)]
  BY DEF Stop, files, TypeOK
<1> QED
  BY <1>1, EndMoves DEF Stop, files

LEMMA WriteStateMoves ==
  ASSUME TypeOK, NEW o \in Operators, Equipped(o), WriteState(o)
  PROVE  /\ TypeOK' /\ Equipped(o)' /\ Ends(o) /\ op[o].pc = "state"
         /\ op[o].env \in Envs /\ op[o].release \in Releases
         /\ state'[op[o].env] = [release |-> op[o].release, digest |-> op[o].digest,
                                 tar |-> op[o].tar]
         /\ \A env \in Envs \ {op[o].env} : state'[env] = state[env]
<1> DEFINE e == op[o].env
           y == [release |-> op[o].release, digest |-> op[o].digest, tar |-> op[o].tar]
<1>1. op[o].pc = "state" /\ state' = [state EXCEPT ![e] = y]
  BY DEF WriteState
<1>2. /\ e \in Envs /\ op[o].release \in Releases
      /\ op[o].digest \in Images /\ op[o].tar \in Images
  BY <1>1 DEF Equipped, Later
<1>3. y \in States /\ y = [release |-> op[o].release, digest |-> op[o].digest,
                           tar |-> op[o].tar]
  BY <1>2 DEF States, Maybe
<1> HIDE DEF y
<1>4. /\ state' \in [Envs -> Maybe(States)] /\ state'[e] = y
      /\ \A env \in Envs \ {e} : state'[env] = state[env]
  BY <1>1, <1>2, <1>3 DEF TypeOK, Maybe
<1>5. TypeOK' /\ Equipped(o)' /\ Ends(o)
  BY <1>4, EndMoves DEF WriteState
<1> QED
  BY <1>1, <1>2, <1>3, <1>4, <1>5

LEMMA NoopWriteMoves ==
  ASSUME TypeOK, NEW o \in Operators, Equipped(o), NoopWrite(o)
  PROVE  /\ TypeOK' /\ Equipped(o)' /\ Ends(o) /\ op[o].pc = "noop" /\ op[o].env \in Envs
         /\ state'[op[o].env] = op[o].noted
         /\ \A env \in Envs \ {op[o].env} : state'[env] = state[env]
<1> DEFINE e == op[o].env
<1>1. op[o].pc = "noop" /\ state' = [state EXCEPT ![e] = op[o].noted]
  BY DEF NoopWrite
<1>2. op[o] \in Scripts
  BY DEF TypeOK, Scripts
<1>3. e \in Envs /\ op[o].noted \in Maybe(States)
  BY <1>1, <1>2 DEF Equipped, Scripts
<1>4. /\ state' \in [Envs -> Maybe(States)] /\ state'[e] = op[o].noted
      /\ \A env \in Envs \ {e} : state'[env] = state[env]
  BY <1>1, <1>3 DEF TypeOK
<1>5. TypeOK' /\ Equipped(o)' /\ Ends(o)
  BY <1>4, EndMoves DEF NoopWrite
<1> QED
  BY <1>1, <1>3, <1>4, <1>5

LEMMA NoopReadMoves ==
  ASSUME TypeOK, NEW o \in Operators, NEW env \in Envs, NoopRead(o, env)
  PROVE  /\ TypeOK' /\ Equipped(o)' /\ Only(o)
         /\ op'[o].pc = "noop" /\ op'[o].env = env /\ op'[o].release = NoOne
         /\ op'[o].noted = Noted(env)
<1> DEFINE x == [Idle EXCEPT !.pc = "noop", !.env = env, !.noted = Noted(env)]
<1>1. Noted(env) \in States
  BY DEF Noted, TypeOK, Blank, States, Maybe
<1>2. /\ x \in Scripts /\ x.pc = "noop" /\ x.env = env /\ x.release = NoOne
      /\ x.noted = Noted(env)
  BY <1>1 DEF Idle, Scripts, Labels, Maybe
<1>3. Start(o, x) /\ UNCHANGED <<files, hosts, proven, overlapped>>
  BY DEF NoopRead
<1> HIDE DEF x
<1>4. /\ op' \in [Operators -> Scripts] /\ started' \in 0 .. MaxScripts
      /\ op'[o] = x /\ Only(o)
  BY <1>2, <1>3, StartScript DEF Only
<1>5. TypeOK'
  BY <1>3, <1>4 DEF TypeOK, Scripts, files, hosts
<1>6. Equipped(o)'
  BY <1>2, <1>4 DEF Equipped, Promotes, Building, Shipping, Later
<1> QED
  BY <1>2, <1>4, <1>5, <1>6

LEMMA BeginMoves ==
  ASSUME TypeOK, NEW o \in Operators, NEW env \in {"dev", "uat"},
         NEW label \in {"ship", "check"}, NEW r \in Releases,
         manifest[r] # NoOne, Begin(o, env, label, r)
  PROVE  /\ TypeOK' /\ Equipped(o)' /\ Only(o) /\ op[o].pc = "idle"
         /\ op'[o].pc = label /\ op'[o].env = env /\ op'[o].release = r
         /\ op'[o].digest = manifest[r].digest /\ op'[o].tar = manifest[r].tar
<1> DEFINE x == [Idle EXCEPT !.pc = label, !.env = env, !.release = r,
                             !.digest = manifest[r].digest, !.tar = manifest[r].tar]
<1>1. manifest[r] \in Manifests
  BY DEF TypeOK, Maybe
<1>2. manifest[r].digest \in Images /\ manifest[r].tar \in Images
  BY <1>1 DEF Manifests
<1>3. /\ x \in Scripts /\ x.pc = label /\ x.env = env /\ x.release = r
      /\ x.digest = manifest[r].digest /\ x.tar = manifest[r].tar
  BY <1>2 DEF Idle, Scripts, Labels, Maybe, Envs
<1>4. /\ Start(o, x) /\ overlapped' \in {overlapped, overlapped \union {r}}
      /\ UNCHANGED <<files, hosts, proven>>
  BY DEF Begin
<1> HIDE DEF x
<1>5. /\ op' \in [Operators -> Scripts] /\ started' \in 0 .. MaxScripts
      /\ op'[o] = x /\ Only(o) /\ op[o].pc = "idle"
  BY <1>3, <1>4, StartScript DEF Only
<1>6. TypeOK'
  BY <1>4, <1>5 DEF TypeOK, Scripts, files, hosts
<1>7. manifest'[r] # NoOne
  BY <1>4 DEF files
<1>8. Equipped(o)'
  BY <1>2, <1>3, <1>5, <1>7 DEF Equipped, Promotes, Building, Shipping, Later, Envs
<1> QED
  BY <1>3, <1>5, <1>6, <1>8

\* A command of a promotion after which the script goes on with what it had.
LEMMA ShipMoves ==
  ASSUME TypeOK, NEW o \in Operators, Equipped(o),
         ShipToDev(o) \/ CheckOnDev(o) \/ ShipToUat(o)
  PROVE  /\ TypeOK' /\ Equipped(o)' /\ \E label \in {"load", "ship"} : Moved(o, label)
         /\ Promotes(o) /\ op[o].pc \in Shipping /\ op[o].release \in Releases
         /\ op'[o].digest = op[o].digest /\ op'[o].tar = op[o].tar
         /\ UNCHANGED <<manifest, state, hosts, proven, overlapped>>
<1>1. PICK label \in {"load", "ship"} : Goto(o, label)
  BY DEF ShipToDev, CheckOnDev, ShipToUat
<1>2. /\ op[o].pc \in Shipping /\ op[o].env \in {"dev", "uat"}
      /\ UNCHANGED <<manifest, state, hosts, proven, overlapped>>
  BY DEF ShipToDev, CheckOnDev, ShipToUat, At, Shipping, files
<1>3. label \in Labels
  BY DEF Labels
<1>4. /\ op' \in [Operators -> Scripts] /\ started' \in 0 .. MaxScripts
      /\ Moved(o, label) /\ op'[o].digest = op[o].digest /\ op'[o].tar = op[o].tar
  BY <1>1, <1>3, GotoScript DEF Moved, Only
<1>5. Promotes(o) /\ op[o].release \in Releases
  BY <1>2 DEF Promotes, Equipped
<1>6. bundle' \in [Envs -> [Releases -> Maybe(Images)]]
  BY <1>5 DEF ShipToDev, CheckOnDev, ShipToUat, files, TypeOK, Envs
<1>7. TypeOK'
  BY <1>2, <1>4, <1>6 DEF TypeOK, Scripts, hosts
<1>8. Equipped(o)'
  BY <1>1, <1>2, <1>4, <1>5 DEF Equipped, Moved, Promotes, Building, Shipping, Later, Envs
<1> QED
  BY <1>2, <1>4, <1>5, <1>7, <1>8

LEMMA LoadMoves ==
  ASSUME TypeOK, NEW o \in Operators, Equipped(o), LoadImage(o)
  PROVE  /\ TypeOK' /\ Equipped(o)' /\ Moved(o, "inspect")
         /\ Promotes(o) /\ op[o].release \in Releases
         /\ op'[o].digest = op[o].digest /\ op'[o].tar = op[o].tar
         /\ tag' = [tag EXCEPT ![op[o].env][op[o].release] = op[o].tar]
         /\ tag'[op[o].env][op[o].release] = op[o].tar
<1> DEFINE r == op[o].release
           e == op[o].env
<1>1. op[o].pc = "load" /\ Goto(o, "inspect") /\ "inspect" \in Labels
  BY DEF LoadImage, Labels
<1>2. /\ op' \in [Operators -> Scripts] /\ started' \in 0 .. MaxScripts
      /\ Moved(o, "inspect") /\ op'[o].digest = op[o].digest /\ op'[o].tar = op[o].tar
  BY <1>1, GotoScript DEF Moved, Only
<1>3. /\ e \in {"dev", "uat"} /\ r \in Releases /\ Promotes(o)
      /\ op[o].digest \in Images /\ op[o].tar \in Images /\ manifest[r] # NoOne
  BY <1>1 DEF Equipped, Promotes, Shipping
<1>4. /\ tag' = [tag EXCEPT ![e][r] = op[o].tar]
      /\ UNCHANGED <<built, latest, running, files, proven, overlapped>>
  BY DEF LoadImage
<1>5. tag' \in [Envs -> [Releases -> Maybe(Images)]] /\ tag'[e][r] = op[o].tar
  BY <1>3, <1>4 DEF TypeOK, Maybe, Envs
<1>6. TypeOK'
  BY <1>2, <1>4, <1>5 DEF TypeOK, Scripts, files
<1>7. manifest'[r] # NoOne
  BY <1>3, <1>4 DEF files
<1>8. Equipped(o)'
  BY <1>2, <1>3, <1>5, <1>7 DEF Equipped, Promotes, Moved, Building, Shipping, Later, Envs
<1> QED
  BY <1>2, <1>3, <1>4, <1>5, <1>6, <1>8

LEMMA InspectMoves ==
  ASSUME TypeOK, NEW o \in Operators, Equipped(o), InspectImage(o)
  PROVE  /\ TypeOK' /\ Equipped(o)' /\ Moved(o, "deploy")
         /\ Promotes(o) /\ op[o].release \in Releases /\ op[o].pc = "inspect"
         /\ op'[o].digest = op[o].digest /\ op'[o].tar = op[o].tar
         /\ tag[op[o].env][op[o].release] = op[o].digest
<1> DEFINE r == op[o].release
           e == op[o].env
<1>1. op[o].pc = "inspect" /\ Goto(o, "deploy") /\ "deploy" \in Labels
  BY DEF InspectImage, Labels
<1>2. /\ op' \in [Operators -> Scripts] /\ started' \in 0 .. MaxScripts
      /\ Moved(o, "deploy") /\ op'[o].digest = op[o].digest /\ op'[o].tar = op[o].tar
  BY <1>1, GotoScript DEF Moved, Only
<1>3. /\ e \in {"dev", "uat"} /\ r \in Releases /\ Promotes(o) /\ tag[e][r] \in Images
      /\ op[o].digest \in Images /\ op[o].tar \in Images /\ manifest[r] # NoOne
  BY <1>1 DEF Equipped, Promotes, Shipping
<1>4. tag[e][r] = op[o].digest /\ UNCHANGED <<files, hosts, proven, overlapped>>
  BY DEF InspectImage
<1>5. TypeOK'
  BY <1>2, <1>4 DEF TypeOK, Scripts, files, hosts
<1>6. manifest'[r] # NoOne /\ tag'[e][r] \in Images
  BY <1>3, <1>4 DEF files, hosts
<1>7. Equipped(o)'
  BY <1>2, <1>3, <1>6 DEF Equipped, Promotes, Moved, Building, Shipping, Later, Envs
<1> QED
  BY <1>1, <1>2, <1>3, <1>4, <1>5, <1>7

LEMMA UpdateMoves ==
  ASSUME TypeOK, NEW o \in Operators, Equipped(o), UpdateManifest(o)
  PROVE  /\ TypeOK' /\ Equipped(o)' /\ Moved(o, "state")
         /\ Promotes(o) /\ op[o].release \in Releases /\ op[o].pc = "record"
         /\ op'[o].digest = manifest[op[o].release].digest
         /\ op'[o].tar = manifest[op[o].release].tar
         /\ manifest[op[o].release] # NoOne /\ manifest'[op[o].release] # NoOne
         /\ manifest'[op[o].release].digest = manifest[op[o].release].digest
         /\ manifest'[op[o].release].tar = manifest[op[o].release].tar
         /\ manifest'[op[o].release].passed =
              manifest[op[o].release].passed \union {op[o].env}
         /\ \A r \in Releases \ {op[o].release} : manifest'[r] = manifest[r]
<1> DEFINE r == op[o].release
           e == op[o].env
           m == manifest[r]
           n == [m EXCEPT !.passed = @ \union {e}]
           x == [op[o] EXCEPT !.pc = "state", !.digest = m.digest, !.tar = m.tar]
<1>1. op[o].pc = "record" /\ e # "local" /\ op[o] \in Scripts
  BY DEF UpdateManifest, TypeOK, Scripts
<1>2. e \in {"dev", "uat"} /\ r \in Releases /\ Promotes(o) /\ m # NoOne
  BY <1>1 DEF Equipped, Promotes, Later, Envs
<1>3. m \in Manifests
  BY <1>2 DEF TypeOK, Maybe
<1>4. /\ Step(o, x) /\ manifest' = [manifest EXCEPT ![r].passed = @ \union {e}]
      /\ UNCHANGED <<bundle, state, hosts, proven, overlapped>>
  BY DEF UpdateManifest
<1>5. manifest' = [manifest EXCEPT ![r] = n]
  BY <1>4
<1>6. m = manifest[r]
  OBVIOUS
<1> HIDE DEF m
<1>7. /\ n \in Manifests /\ n.digest = m.digest /\ n.tar = m.tar
      /\ n.passed = m.passed \union {e} /\ m.digest \in Images /\ m.tar \in Images
  BY <1>2, <1>3 DEF Manifests, Envs
<1>8. /\ x \in Scripts /\ x.pc = "state" /\ x.env = e /\ x.release = r
      /\ x.digest = m.digest /\ x.tar = m.tar
  BY <1>1, <1>7 DEF Scripts, Labels, Maybe
<1> HIDE DEF n, x
<1>9. /\ op' \in [Operators -> Scripts] /\ started' \in 0 .. MaxScripts
      /\ op'[o] = x /\ Only(o)
  BY <1>4, <1>8, StepScript DEF Only
<1>10. /\ manifest' \in [Releases -> Maybe(Manifests)] /\ manifest'[r] = n
       /\ \A q \in Releases \ {r} : manifest'[q] = manifest[q]
  BY <1>2, <1>5, <1>7 DEF TypeOK, Maybe
<1>11. TypeOK'
  BY <1>4, <1>9, <1>10 DEF TypeOK, Scripts, hosts
<1>12. manifest'[r] # NoOne
  BY <1>7, <1>10, NoFileAssumption
<1>13. Moved(o, "state")
  BY <1>8, <1>9 DEF Moved
<1>14. Equipped(o)'
  BY <1>2, <1>7, <1>8, <1>9, <1>12 DEF Equipped, Promotes, Building, Shipping, Later, Envs
<1> QED
  BY <1>1, <1>2, <1>6, <1>7, <1>8, <1>9, <1>10, <1>11, <1>12, <1>13, <1>14

-----------------------------------------------------------------------------
(* Any step.                                                               *)

\* Which step changes what.
LEMMA Untouched ==
  ASSUME NEW o \in Operators, Acts(o)
  PROVE  /\ UNCHANGED tag \/ TagImage(o) \/ LoadImage(o)
         /\ UNCHANGED manifest \/ WriteManifest(o) \/ UpdateManifest(o)
         /\ UNCHANGED running \/ StartContainer(o) \/ \E r \in Releases : BuildImage(o, r)
         /\ UNCHANGED state \/ WriteState(o) \/ NoopWrite(o)
         /\ UNCHANGED proven \/ VerifyRuntime(o)
         /\ UNCHANGED latest \/ \E r \in Releases : BuildImage(o, r)
         /\ \/ UNCHANGED overlapped
            \/ \E r \in Releases : overlapped' = overlapped \union {r}
<1>1. ASSUME NEW r \in Releases, BuildImage(o, r)
      PROVE  /\ UNCHANGED <<tag, manifest, state, proven>>
             /\ overlapped' \in {overlapped, overlapped \union {r}}
  BY <1>1 DEF BuildImage, files
<1>2. ASSUME NEW r \in Releases, DevPromote(o, r) \/ UatConfirm(o, r)
      PROVE  /\ UNCHANGED <<tag, manifest, running, state, proven, latest>>
             /\ overlapped' \in {overlapped, overlapped \union {r}}
  BY <1>2 DEF DevPromote, UatConfirm, Begin, files, hosts
<1>3. CASE TagImage(o) \/ SaveBundle(o) \/ WriteManifest(o)
  BY <1>3 DEF TagImage, SaveBundle, WriteManifest, files, hosts
<1>4. CASE ShipToDev(o) \/ CheckOnDev(o) \/ ShipToUat(o) \/ LoadImage(o) \/ InspectImage(o)
           \/ UpdateManifest(o)
  BY <1>4 DEF ShipToDev, CheckOnDev, ShipToUat, LoadImage, InspectImage, UpdateManifest,
              files, hosts
<1>5. CASE StartContainer(o) \/ VerifyRuntime(o) \/ WriteState(o) \/ NoopWrite(o) \/ Stop(o)
           \/ \E env \in Envs : NoopRead(o, env)
  BY <1>5 DEF StartContainer, VerifyRuntime, WriteState, NoopWrite, Stop, NoopRead, files, hosts
<1>6. CASE \E r \in Releases : BuildImage(o, r)
  BY <1>1, <1>6
<1>7. CASE \E r \in Releases : DevPromote(o, r) \/ UatConfirm(o, r)
  BY <1>2, <1>7
<1> QED
  BY <1>3, <1>4, <1>5, <1>6, <1>7 DEF Acts, LocalVerify, Promote

\* The actor of a step: it goes on, or ends, or begins, and then a release
\* that is in other hands is marked.
Begins(o) ==
  /\ op'[o].release \in Releases /\ op'[o].env \in Envs
  /\ op'[o].release \in Others(o, {"local"}) => op'[o].release \in overlapped'
  /\ op'[o].env = "local" /\ op'[o].release \in Others(o, Envs)
       => op'[o].release \in overlapped'

GoesOn(o) == op'[o].env = op[o].env /\ op'[o].release = op[o].release

LEMMA ActorMoves ==
  ASSUME TypeOK, \A p \in Operators : Equipped(p), NEW o \in Operators, Acts(o)
  PROVE  /\ TypeOK' /\ Equipped(o)' /\ Only(o)
         /\ GoesOn(o) \/ op'[o].release = NoOne \/ Begins(o)
         /\ op'[o].pc = "noop" => \E env \in Envs : NoopRead(o, env)
<1> DEFINE Goal == /\ TypeOK' /\ Equipped(o)' /\ Only(o)
                   /\ GoesOn(o) \/ op'[o].release = NoOne \/ Begins(o)
                   /\ op'[o].pc = "noop" => \E env \in Envs : NoopRead(o, env)
<1> SUFFICES Goal
  OBVIOUS
<1>0. Equipped(o)
  OBVIOUS
<1>1. ASSUME NEW r \in Releases, BuildImage(o, r) PROVE Goal
  <2>1. overlapped' = IF r \in Others(o, Envs) THEN overlapped \union {r} ELSE overlapped
    BY <1>1 DEF BuildImage
  <2>2. Others(o, {"local"}) \subseteq Others(o, Envs)
    BY DEF Others, Envs
  <2>3. /\ TypeOK' /\ Equipped(o)' /\ Only(o)
        /\ op'[o].pc = "tag" /\ op'[o].env = "local" /\ op'[o].release = r
    BY <1>1, BuildMoves
  <2>4. Begins(o)
    BY <2>1, <2>2, <2>3 DEF Begins, Envs
  <2> QED
    BY <2>3, <2>4
<1>2. ASSUME NEW r \in Releases, DevPromote(o, r) \/ UatConfirm(o, r) PROVE Goal
  <2>1. PICK env \in {"dev", "uat"}, label \in {"ship", "check"} :
          manifest[r] # NoOne /\ Begin(o, env, label, r)
    BY <1>2 DEF DevPromote, UatConfirm
  <2>2. overlapped' = IF r \in Others(o, {"local"}) THEN overlapped \union {r} ELSE overlapped
    BY <2>1 DEF Begin
  <2>3. /\ TypeOK' /\ Equipped(o)' /\ Only(o)
        /\ op'[o].pc = label /\ op'[o].env = env /\ op'[o].release = r
    BY <2>1, BeginMoves
  <2>4. Begins(o)
    BY <2>2, <2>3 DEF Begins, Envs
  <2> QED
    BY <2>3, <2>4
<1>3. ASSUME NEW label, Moved(o, label), TypeOK', Equipped(o)', label # "noop" PROVE Goal
  BY <1>3 DEF Moved, GoesOn
<1>4. ASSUME Ends(o), TypeOK', Equipped(o)' PROVE Goal
  BY <1>4, IdleScript DEF Ends
<1>5. ASSUME NEW env \in Envs, NoopRead(o, env) PROVE Goal
  BY <1>5, NoopReadMoves
<1> HIDE DEF Goal
<1>6. CASE TagImage(o)
  BY <1>0, <1>3, <1>6, TagMoves
<1>7. CASE SaveBundle(o)
  BY <1>0, <1>3, <1>7, SaveMoves
<1>8. CASE WriteManifest(o)
  BY <1>0, <1>3, <1>8, WriteManifestMoves
<1>9. CASE ShipToDev(o) \/ CheckOnDev(o) \/ ShipToUat(o)
  <2>1. PICK label \in {"load", "ship"} : Moved(o, label)
    BY <1>0, <1>9, ShipMoves
  <2> QED
    BY <1>0, <1>3, <1>9, <2>1, ShipMoves
<1>10. CASE LoadImage(o)
  BY <1>0, <1>3, <1>10, LoadMoves
<1>11. CASE InspectImage(o)
  BY <1>0, <1>3, <1>11, InspectMoves
<1>12. CASE UpdateManifest(o)
  BY <1>0, <1>3, <1>12, UpdateMoves
<1>13. CASE StartContainer(o)
  BY <1>0, <1>3, <1>13, ContainerMoves
<1>14. CASE VerifyRuntime(o)
  BY <1>0, <1>3, <1>14, VerifyMoves
<1>15. CASE WriteState(o)
  BY <1>0, <1>4, <1>15, WriteStateMoves
<1>16. CASE NoopWrite(o)
  BY <1>0, <1>4, <1>16, NoopWriteMoves
<1>17. CASE Stop(o)
  BY <1>0, <1>4, <1>17, StopMoves
<1> QED
  BY <1>1, <1>2, <1>5, <1>6, <1>7, <1>8, <1>9, <1>10, <1>11, <1>12, <1>13, <1>14, <1>15,
     <1>16, <1>17 DEF Acts, LocalVerify, Promote

\* What is there stays there: images once built, tagged or run, manifests,
\* proofs, and the mark of a release.
Grows ==
  /\ overlapped \subseteq overlapped'
  /\ \A env \in Envs : proven[env] \subseteq proven'[env]
  /\ latest \in Images => latest' \in Images
  /\ \A env \in Envs, r \in Releases : tag[env][r] \in Images => tag'[env][r] \in Images
  /\ \A env \in Envs : running[env] # NoOne => running'[env] # NoOne
  /\ \A r \in Releases : manifest[r] # NoOne => manifest'[r] # NoOne

LEMMA GrowsStep ==
  ASSUME TypeOK, \A p \in Operators : Equipped(p), NEW o \in Operators, Acts(o)
  PROVE  Grows
<1>0. Equipped(o)
  OBVIOUS
<1>1. overlapped \subseteq overlapped'
  BY Untouched
<1>2. \A env \in Envs : proven[env] \subseteq proven'[env]
  <2>1. CASE VerifyRuntime(o)
    BY <2>1 DEF VerifyRuntime, TypeOK
  <2> QED
    BY <2>1, Untouched
<1>3. latest \in Images => latest' \in Images
  <2>1. ASSUME NEW r \in Releases, BuildImage(o, r) PROVE latest' \in Images
    BY <2>1, BoundsAssumption DEF BuildImage, TypeOK, Images
  <2> QED
    BY <2>1, Untouched
<1>4. \A env \in Envs, r \in Releases : tag[env][r] \in Images => tag'[env][r] \in Images
  <2>1. CASE TagImage(o)
    <3>1. tag' = [tag EXCEPT !["local"][op[o].release] = latest] /\ latest \in Images
      BY <1>0, <2>1 DEF TagImage, At, Equipped, Building
    <3> QED
      BY <3>1 DEF TypeOK
  <2>2. CASE LoadImage(o)
    <3>1. op[o].tar \in Images
      BY <1>0, <2>2 DEF LoadImage, Equipped, Shipping
    <3>2. tag' = [tag EXCEPT ![op[o].env][op[o].release] = op[o].tar]
      BY <1>0, <2>2, LoadMoves
    <3> QED
      BY <3>1, <3>2 DEF TypeOK
  <2> QED
    BY <2>1, <2>2, Untouched
<1>5. \A env \in Envs : running[env] # NoOne => running'[env] # NoOne
  <2>1. CASE StartContainer(o)
    BY <1>0, <2>1, ContainerMoves DEF Equipped, Moved
  <2>2. ASSUME NEW r \in Releases, BuildImage(o, r)
        PROVE  \A env \in Envs : running[env] # NoOne => running'[env] # NoOne
    <3> DEFINE y == [release |-> r, says |-> NoOne, image |-> built + 1]
    <3>1. y \in Containers
      BY <2>2, BoundsAssumption DEF BuildImage, TypeOK, Images, Containers, Maybe
    <3>2. running' = [running EXCEPT !["local"] = y]
      BY <2>2 DEF BuildImage
    <3> HIDE DEF y
    <3> QED
      BY <3>1, <3>2, NoFileAssumption DEF TypeOK
  <2> QED
    BY <2>1, <2>2, Untouched
<1>6. \A r \in Releases : manifest[r] # NoOne => manifest'[r] # NoOne
  <2>1. CASE WriteManifest(o)
    BY <1>0, <2>1, WriteManifestMoves
  <2>2. CASE UpdateManifest(o)
    BY <1>0, <2>2, UpdateMoves
  <2> QED
    BY <2>1, <2>2, Untouched
<1> QED
  BY <1>1, <1>2, <1>3, <1>4, <1>5, <1>6 DEF Grows

\* A script that does not move stays equipped.
LEMMA EquippedStable ==
  ASSUME NEW p \in Operators, Equipped(p), Grows, op'[p] = op[p]
  PROVE  Equipped(p)'
<1>1. Promotes(p)' <=> Promotes(p)
  BY DEF Promotes
<1>2. op[p].pc \in Building \union Shipping \union Later => op[p].release \in Releases
  BY DEF Equipped
<1>3. op[p].pc = "save" => tag'["local"][op[p].release] \in Images
  BY <1>2 DEF Equipped, Grows, Building, Envs
<1>4. op[p].pc \in {"inspect", "deploy"} => tag'[op[p].env][op[p].release] \in Images
  BY <1>2 DEF Equipped, Grows, Shipping, Later
<1>5. op[p].pc = "verify" => running'[op[p].env] # NoOne
  BY DEF Equipped, Grows
<1>6. Promotes(p) => manifest'[op[p].release] # NoOne
  BY <1>2 DEF Equipped, Grows, Promotes
<1>7. op[p].pc \in Building => latest' \in Images
  BY DEF Equipped, Grows
<1> QED
  BY <1>1, <1>3, <1>4, <1>5, <1>6, <1>7 DEF Equipped

-----------------------------------------------------------------------------
(* The parts of the invariant.                                             *)

\* A release that is not marked keeps its builder alone.
LEMMA AloneStep ==
  ASSUME ReleaseInv, NEW o \in Operators, Acts(o), NEW r \in Releases \ overlapped'
  PROVE  Alone(r)'
<1>1. /\ Only(o)
      /\ GoesOn(o) \/ op'[o].release = NoOne \/ Begins(o)
      /\ \A p \in Operators : Equipped(p) /\ Equipped(p)'
      /\ r \notin overlapped /\ Alone(r) /\ r # NoOne
  <2>1. TypeOK /\ (\A p \in Operators : Equipped(p)) /\ Grows
    BY GrowsStep DEF ReleaseInv
  <2>2. \A p \in Operators \ {o} : Equipped(p)'
    BY <2>1, ActorMoves, EquippedStable DEF Only
  <2>3. r \notin overlapped
    BY <2>1 DEF Grows
  <2> QED
    BY <2>1, <2>2, <2>3, ActorMoves, NoOneAssumption DEF ReleaseInv
<1> SUFFICES ASSUME NEW p \in Operators, NEW q \in Operators, p # q,
                    op'[p].env = "local", op'[p].release = r, op'[q].release = r
             PROVE  FALSE
  BY DEF Alone
<1>2. CASE p # o /\ q # o
  BY <1>1, <1>2 DEF Only, Alone
<1>3. CASE p = o
  <2>1. op'[q] = op[q] /\ q \in Operators \ {o}
    BY <1>1, <1>3 DEF Only
  <2>2. op[q].env \in Envs
    BY <1>1, <2>1 DEF Equipped
  <2>3. r \in Others(o, Envs)
    BY <2>1, <2>2 DEF Others
  <2>4. CASE GoesOn(o)
    BY <1>1, <1>3, <2>1, <2>4 DEF GoesOn, Alone
  <2>5. CASE Begins(o)
    BY <1>3, <2>3, <2>5 DEF Begins
  <2> QED
    BY <1>1, <1>3, <2>4, <2>5
<1>4. CASE q = o
  <2>1. op'[p] = op[p] /\ p \in Operators \ {o}
    BY <1>1, <1>4 DEF Only
  <2>2. r \in Others(o, {"local"})
    BY <2>1 DEF Others
  <2>3. CASE GoesOn(o)
    BY <1>1, <1>4, <2>1, <2>3 DEF GoesOn, Alone
  <2>4. CASE Begins(o)
    BY <1>4, <2>2, <2>4 DEF Begins
  <2> QED
    BY <1>1, <1>4, <2>3, <2>4
<1> QED
  BY <1>2, <1>3, <1>4

LEMMA ManifestStep ==
  ASSUME ReleaseInv, NEW o \in Operators, Acts(o), NEW r \in Releases \ overlapped'
  PROVE  ManifestTrue(r)'
<1>1. TypeOK /\ Equipped(o) /\ Grows
  BY GrowsStep DEF ReleaseInv
<1>2. r \in Releases \ overlapped /\ ManifestTrue(r)
  BY <1>1 DEF Grows, ReleaseInv
<1>3. manifest[r] # NoOne => manifest[r].passed \subseteq Envs
  BY <1>1, <1>2 DEF TypeOK, Maybe, Manifests
<1>4. CASE manifest'[r] = manifest[r]
  BY <1>1, <1>2, <1>3, <1>4 DEF ManifestTrue, Grows, Envs
<1>5. CASE WriteManifest(o) /\ op[o].release = r
  <2>1. Knows(o) /\ op[o].pc = "record" /\ op[o].env = "local"
    BY <1>1, <1>2, <1>5, WriteManifestMoves DEF ReleaseInv
  <2>2. op[o].tar = op[o].digest /\ op[o].digest \in proven'["local"]
    BY <1>1, <2>1 DEF Knows, Later, Grows, Envs
  <2>3. manifest'[r] = [digest |-> op[o].digest, tar |-> op[o].tar, passed |-> {"local"}]
    BY <1>1, <1>5, WriteManifestMoves
  <2> QED
    BY <2>2, <2>3 DEF ManifestTrue
<1>6. CASE UpdateManifest(o) /\ op[o].release = r
  <2>1. /\ Knows(o) /\ op[o].pc = "record" /\ Promotes(o) /\ manifest[r] # NoOne
        /\ manifest'[r].digest = manifest[r].digest /\ manifest'[r].tar = manifest[r].tar
        /\ manifest'[r].passed = manifest[r].passed \union {op[o].env}
    BY <1>1, <1>2, <1>6, UpdateMoves DEF ReleaseInv
  <2>2. manifest[r].digest \in proven[op[o].env] /\ op[o].env \in Envs
    BY <1>6, <2>1 DEF Knows, Promotes, Envs
  <2> QED
    BY <1>1, <1>2, <1>3, <2>1, <2>2 DEF ManifestTrue, Grows, Envs
<1>7. \/ manifest'[r] = manifest[r]
      \/ WriteManifest(o) /\ op[o].release = r
      \/ UpdateManifest(o) /\ op[o].release = r
  BY <1>1, Untouched, WriteManifestMoves, UpdateMoves
<1> QED
  BY <1>4, <1>5, <1>6, <1>7

\* What the others know stays true: nobody builds their release, and who
\* promotes it has the same manifest in hand.
LEMMA OthersKnow ==
  ASSUME ReleaseInv, NEW o \in Operators, Acts(o), NEW p \in Operators \ {o},
         op'[p].release \in Releases \ overlapped'
  PROVE  Knows(p)'
<1> DEFINE r == op[p].release
           e == op[p].env
<1>1. TypeOK /\ Equipped(o) /\ Equipped(p) /\ Grows /\ op'[p] = op[p]
  BY GrowsStep, ActorMoves DEF ReleaseInv, Only
<1>2. r \in Releases \ overlapped /\ Knows(p) /\ Alone(r)
  BY <1>1 DEF Grows, ReleaseInv
<1>3. op[o].release = r => op[o].env # "local" /\ Knows(o) /\ (e # "local")
  BY <1>1, <1>2 DEF Alone, ReleaseInv
<1>4. manifest[r] # NoOne => /\ manifest'[r].digest = manifest[r].digest
                             /\ manifest'[r].tar = manifest[r].tar
  <2>1. CASE UpdateManifest(o)
    BY <1>1, <1>2, <2>1, UpdateMoves
  <2>2. CASE WriteManifest(o)
    <3>1. op[o].env = "local"
      BY <2>2 DEF WriteManifest, At
    <3>2. op[o].release # r
      BY <1>3, <3>1
    <3>3. r \in Releases \ {op[o].release}
      BY <1>2, <3>2
    <3>4. manifest'[r] = manifest[r]
      BY <1>1, <2>2, <3>3, WriteManifestMoves
    <3> QED
      BY <3>4
  <2>3. manifest' = manifest \/ WriteManifest(o) \/ UpdateManifest(o)
    BY Untouched
  <2> QED
    BY <2>1, <2>2, <2>3
<1>5. op[p].pc \in {"save", "inspect", "deploy"} =>
        \/ tag'[e][r] = tag[e][r]
        \/ Promotes(p) /\ tag'[e][r] = op[p].tar
  <2> SUFFICES ASSUME op[p].pc \in {"save", "inspect", "deploy"},
                      tag'[e][r] # tag[e][r]
               PROVE  Promotes(p) /\ tag'[e][r] = op[p].tar
    OBVIOUS
  <2>1. e \in Envs
    BY <1>1 DEF Equipped
  <2>2. ~TagImage(o)
    <3> SUFFICES ASSUME TagImage(o)
                 PROVE  FALSE
      OBVIOUS
    <3>1. tag' = [tag EXCEPT !["local"][op[o].release] = latest] /\ op[o].env = "local"
      BY DEF TagImage, At
    <3>2. op[o].release = r
      BY <1>1, <1>2, <2>1, <3>1 DEF TypeOK
    <3> QED
      BY <1>3, <3>1, <3>2
  <2>3. LoadImage(o)
    BY <2>2, Untouched
  <2>4. /\ tag' = [tag EXCEPT ![op[o].env][op[o].release] = op[o].tar]
        /\ tag'[op[o].env][op[o].release] = op[o].tar /\ Promotes(o)
    BY <1>1, <2>3, LoadMoves
  <2>5. op[o].env = e /\ op[o].release = r
    BY <1>1, <1>2, <2>1, <2>4 DEF TypeOK
  <2>6. Promotes(p)
    BY <1>1, <1>2, <2>4, <2>5 DEF Promotes, Equipped, Building, Shipping, Later
  <2>7. op[o].tar = op[p].tar
    BY <1>2, <1>3, <2>4, <2>5, <2>6 DEF Knows
  <2> QED
    BY <2>4, <2>5, <2>6, <2>7
<1>6. Promotes(p)' <=> Promotes(p)
  BY <1>1 DEF Promotes
<1>7. Promotes(p) => manifest[r] # NoOne
  BY <1>1 DEF Equipped
<1>8. op[p].pc \in {"record", "state"} => op[p].digest \in proven'[e]
  BY <1>1, <1>2 DEF Knows, Grows, Equipped
<1>9. Promotes(p) /\ e = "uat" => op[p].digest \in proven'["dev"]
  BY <1>1, <1>2 DEF Knows, Grows, Envs
<1>10. op[p].pc = "save" => tag'["local"][r] = op[p].digest
  <2>1. op[p].pc = "save" => e = "local" /\ ~Promotes(p)
    BY <1>1 DEF Equipped, Promotes, Building
  <2> QED
    BY <1>2, <1>5, <2>1 DEF Knows
<1>11. op[p].pc = "inspect" => tag'[e][r] = op[p].tar
  BY <1>2, <1>5 DEF Knows
<1>12. op[p].pc = "deploy" => tag'[e][r] = op[p].digest
  BY <1>2, <1>5 DEF Knows, Later
<1>13. Promotes(p) => op[p].digest = manifest'[r].digest /\ op[p].tar = manifest'[r].tar
  BY <1>2, <1>4, <1>7 DEF Knows
<1>14. op[p].pc \in Later => op[p].tar = op[p].digest
  BY <1>2 DEF Knows
<1> QED
  BY <1>1, <1>6, <1>8, <1>9, <1>10, <1>11, <1>12, <1>13, <1>14 DEF Knows

\* A promotion whose manifest stays in its hands.
LEMMA PromotionKnows ==
  ASSUME NEW o \in Operators, Knows(o), Grows,
         op'[o].env = op[o].env, op'[o].release = op[o].release,
         op'[o].digest = op[o].digest, op'[o].tar = op[o].tar,
         manifest' = manifest, Promotes(o)' => Promotes(o)
  PROVE  /\ Promotes(o)' => /\ op'[o].digest = manifest'[op'[o].release].digest
                            /\ op'[o].tar = manifest'[op'[o].release].tar
         /\ Promotes(o)' /\ op'[o].env = "uat" => op'[o].digest \in proven'["dev"]
BY DEF Knows, Grows, Envs

\* A script knows after each of its commands what the next one relies on.
LEMMA ActorKnows ==
  ASSUME ReleaseInv, NEW o \in Operators, Acts(o),
         op'[o].release \in Releases \ overlapped'
  PROVE  Knows(o)'
<1>1. /\ TypeOK /\ Equipped(o) /\ Grows
      /\ op[o].release \in Releases \ overlapped => Knows(o)
  BY GrowsStep DEF ReleaseInv
<1>2. op'[o].release \in Releases \ overlapped
  BY <1>1 DEF Grows
<1>3. ASSUME NEW r \in Releases, BuildImage(o, r) PROVE Knows(o)'
  BY <1>1, <1>3, BuildMoves DEF Knows, Promotes, Later
<1>4. ASSUME NEW r \in Releases, DevPromote(o, r) \/ UatConfirm(o, r) PROVE Knows(o)'
  <2>1. PICK env \in {"dev", "uat"}, label \in {"ship", "check"} :
          /\ manifest[r] # NoOne /\ Begin(o, env, label, r)
          /\ env = "uat" => StateMatches("dev", r)
    BY <1>4 DEF DevPromote, UatConfirm
  <2>2. /\ op'[o].pc = label /\ op'[o].env = env /\ op'[o].release = r
        /\ op'[o].digest = manifest[r].digest /\ op'[o].tar = manifest[r].tar
    BY <1>1, <2>1, BeginMoves
  <2>3. manifest' = manifest /\ proven' = proven
    BY <2>1 DEF Begin, files
  <2>4. env = "uat" => op'[o].digest \in proven'["dev"]
    BY <1>2, <2>1, <2>2, <2>3 DEF StateMatches, ReleaseInv, Recorded, Envs
  <2> QED
    BY <2>2, <2>3, <2>4 DEF Knows, Promotes, Later
<1>5. CASE TagImage(o)
  <2>1. /\ op'[o].pc = "save" /\ op'[o].env = "local" /\ op'[o].release = op[o].release
        /\ tag'["local"][op'[o].release] = op'[o].digest
    BY <1>1, <1>5, TagMoves DEF Moved
  <2> QED
    BY <2>1 DEF Knows, Promotes, Later
<1>6. CASE SaveBundle(o)
  <2>1. /\ op'[o].pc = "deploy" /\ op'[o].env = "local" /\ op'[o].release = op[o].release
        /\ op'[o].digest = op[o].digest /\ op'[o].tar = tag["local"][op[o].release]
        /\ op[o].pc = "save"
    BY <1>1, <1>6, SaveMoves DEF Moved
  <2>2. tag["local"][op[o].release] = op[o].digest /\ tag' = tag
    BY <1>1, <1>2, <1>6, <2>1 DEF Knows, SaveBundle, hosts
  <2> QED
    BY <2>1, <2>2 DEF Knows, Promotes, Later
<1>7. CASE StartContainer(o)
  <2>1. /\ op'[o].pc = "verify" /\ GoesOn(o) /\ op[o].pc = "deploy"
        /\ op'[o].digest = op[o].digest /\ op'[o].tar = op[o].tar
    BY <1>1, <1>7, ContainerMoves DEF Moved, GoesOn
  <2>2. manifest' = manifest /\ (Promotes(o)' => Promotes(o)) /\ Knows(o)
    BY <1>1, <1>2, <1>7, <2>1 DEF StartContainer, files, Promotes, GoesOn, Later
  <2>3. op'[o].tar = op'[o].digest
    BY <2>1, <2>2 DEF Knows, Later
  <2> QED
    BY <1>1, <2>1, <2>2, <2>3, PromotionKnows DEF Knows, GoesOn
<1>8. CASE VerifyRuntime(o)
  <2>1. /\ op'[o].pc = "record" /\ GoesOn(o) /\ op[o].pc = "verify"
        /\ op'[o].digest = op[o].digest /\ op'[o].tar = op[o].tar
        /\ running[op[o].env].image \in proven'[op[o].env]
        /\ op[o].env \in Envs /\ op[o].release \in Releases
    BY <1>1, <1>8, VerifyMoves DEF Moved, GoesOn
  <2>2. manifest' = manifest /\ (Promotes(o)' => Promotes(o)) /\ Knows(o)
    BY <1>1, <1>2, <1>8, <2>1 DEF VerifyRuntime, files, Promotes, GoesOn, Later
  <2>3. op'[o].tar = op'[o].digest
    BY <2>1, <2>2 DEF Knows, Later
  <2>4. /\ running[op[o].env] # NoOne
        /\ running[op[o].env].release = op[o].release
        /\ running[op[o].env].says = op[o].digest
        /\ op[o].digest \in Images
    BY <1>1, <1>8, <2>1 DEF Equipped, VerifyRuntime, IdentityVerified, Later
  <2>5. op[o].digest # NoOne
    BY <2>4, NoOneAssumption, BoundsAssumption DEF Images
  <2>6. running[op[o].env].image = op[o].digest
    BY <1>2, <2>1, <2>4, <2>5 DEF ReleaseInv, Runs, GoesOn
  <2>7. op'[o].digest \in proven'[op'[o].env]
    BY <2>1, <2>6 DEF GoesOn
  <2> QED
    BY <1>1, <2>1, <2>2, <2>3, <2>7, PromotionKnows DEF Knows, GoesOn
<1>9. CASE WriteManifest(o)
  <2>1. /\ op'[o].pc = "state" /\ GoesOn(o) /\ op[o].pc = "record" /\ op[o].env = "local"
        /\ op'[o].digest = op[o].digest /\ op'[o].tar = op[o].tar
    BY <1>1, <1>9, WriteManifestMoves DEF Moved, GoesOn
  <2>2. Knows(o)
    BY <1>1, <1>2, <2>1 DEF GoesOn
  <2>3. op'[o].tar = op'[o].digest /\ op'[o].digest \in proven'[op'[o].env]
    BY <1>1, <2>1, <2>2 DEF Knows, Later, Grows, GoesOn, Envs
  <2> QED
    BY <2>1, <2>3 DEF Knows, Promotes, GoesOn
<1>10. CASE UpdateManifest(o)
  <2>1. /\ op'[o].pc = "state" /\ GoesOn(o) /\ op[o].pc = "record" /\ Promotes(o)
        /\ op'[o].digest = manifest[op[o].release].digest
        /\ op'[o].tar = manifest[op[o].release].tar
        /\ manifest'[op[o].release].digest = manifest[op[o].release].digest
        /\ manifest'[op[o].release].tar = manifest[op[o].release].tar
    BY <1>1, <1>10, UpdateMoves DEF Moved, GoesOn
  <2>2. Knows(o)
    BY <1>1, <1>2, <2>1 DEF GoesOn
  <2>3. op'[o].digest = op[o].digest /\ op'[o].tar = op[o].tar
    BY <2>1, <2>2 DEF Knows
  <2>4. op[o].tar = op[o].digest /\ op[o].digest \in proven'[op[o].env]
    BY <1>1, <2>1, <2>2 DEF Knows, Later, Grows, Promotes, Envs
  <2>5. op[o].env = "uat" => op[o].digest \in proven'["dev"]
    BY <1>1, <2>1, <2>2 DEF Knows, Grows, Envs
  <2> QED
    BY <2>1, <2>3, <2>4, <2>5 DEF Knows, GoesOn
<1>11. CASE ShipToDev(o) \/ CheckOnDev(o) \/ ShipToUat(o)
  <2>1. PICK label \in {"load", "ship"} : Moved(o, label)
    BY <1>1, <1>11, ShipMoves
  <2>2. /\ op'[o].pc = label /\ GoesOn(o) /\ Promotes(o) /\ manifest' = manifest
        /\ op'[o].digest = op[o].digest /\ op'[o].tar = op[o].tar
    BY <1>1, <1>11, <2>1, ShipMoves DEF Moved, GoesOn
  <2>3. Knows(o)
    BY <1>1, <1>2, <2>2 DEF GoesOn
  <2> QED
    BY <1>1, <2>2, <2>3, PromotionKnows DEF Knows, GoesOn, Later
<1>12. CASE LoadImage(o)
  <2>1. /\ op'[o].pc = "inspect" /\ GoesOn(o) /\ Promotes(o)
        /\ op'[o].digest = op[o].digest /\ op'[o].tar = op[o].tar
        /\ tag'[op[o].env][op[o].release] = op[o].tar
    BY <1>1, <1>12, LoadMoves DEF Moved, GoesOn
  <2>2. Knows(o) /\ manifest' = manifest
    BY <1>1, <1>2, <1>12, <2>1 DEF GoesOn, LoadImage, files
  <2> QED
    BY <1>1, <2>1, <2>2, PromotionKnows DEF Knows, GoesOn, Later
<1>13. CASE InspectImage(o)
  <2>1. /\ op'[o].pc = "deploy" /\ GoesOn(o) /\ Promotes(o) /\ op[o].pc = "inspect"
        /\ op'[o].digest = op[o].digest /\ op'[o].tar = op[o].tar
        /\ tag[op[o].env][op[o].release] = op[o].digest
    BY <1>1, <1>13, InspectMoves DEF Moved, GoesOn
  <2>2. Knows(o) /\ manifest' = manifest /\ tag' = tag
    BY <1>1, <1>2, <1>13, <2>1 DEF GoesOn, InspectImage, files, hosts
  <2>3. op[o].tar = op[o].digest
    BY <2>1, <2>2 DEF Knows
  <2> QED
    BY <1>1, <2>1, <2>2, <2>3, PromotionKnows DEF Knows, GoesOn, Later
<1>14. op'[o] # Idle
  BY <1>2, IdleScript, NoOneAssumption
<1>15. ~(WriteState(o) \/ NoopWrite(o) \/ Stop(o))
  BY <1>1, <1>14, WriteStateMoves, NoopWriteMoves, StopMoves DEF Ends
<1>16. ~ \E env \in Envs : NoopRead(o, env)
  BY <1>1, <1>2, NoopReadMoves, NoOneAssumption
<1> QED
  BY <1>3, <1>4, <1>5, <1>6, <1>7, <1>8, <1>9, <1>10, <1>11, <1>12, <1>13, <1>15, <1>16
     DEF Acts, LocalVerify, Promote

\* A record stays true.
LEMMA RecordedStable ==
  ASSUME Grows, NEW env \in Envs, NEW s, Recorded(env, s)
  PROVE  s # NoOne /\ s.release \in Releases \ overlapped' => s.digest \in proven'[env]
BY DEF Recorded, Grows

LEMMA RecordsStep ==
  ASSUME ReleaseInv, NEW o \in Operators, Acts(o)
  PROVE  /\ \A p \in Operators : op'[p].pc = "noop" => Recorded(op[p].env, op[p].noted)'
         /\ \A env \in Envs : Recorded(env, state[env])'
<1>1. /\ TypeOK /\ Equipped(o) /\ Grows /\ Only(o)
      /\ op'[o].pc = "noop" => \E env \in Envs : NoopRead(o, env)
  BY GrowsStep, ActorMoves DEF ReleaseInv
<1>2. ASSUME NEW p \in Operators, op'[p].pc = "noop"
      PROVE  Recorded(op[p].env, op[p].noted)'
  <2>1. CASE p # o
    <3>1. op'[p] = op[p]
      BY <1>1, <2>1 DEF Only
    <3>2. op[p].env \in Envs /\ Recorded(op[p].env, op[p].noted)
      BY <1>2, <3>1 DEF ReleaseInv, Equipped
    <3>3. LET s == op[p].noted IN
            s # NoOne /\ s.release \in Releases \ overlapped' => s.digest \in proven'[op[p].env]
      BY <1>1, <3>2, RecordedStable
    <3> QED
      BY <3>1, <3>3 DEF Recorded
  <2>2. CASE p = o
    <3>1. PICK env \in Envs : NoopRead(o, env)
      BY <1>1, <1>2, <2>2
    <3>2. op'[o].env = env /\ op'[o].noted = Noted(env)
      BY <1>1, <3>1, NoopReadMoves
    <3>3. proven' = proven /\ overlapped' = overlapped
      BY <3>1 DEF NoopRead
    <3>4. Recorded(env, Noted(env))
      <4>1. Recorded(env, state[env])
        BY DEF ReleaseInv
      <4>2. Blank.release \notin Releases
        BY NoOneAssumption DEF Blank
      <4> QED
        BY <4>1, <4>2 DEF Noted, Recorded
    <3> QED
      BY <2>2, <3>2, <3>3, <3>4 DEF Recorded
  <2> QED
    BY <2>1, <2>2
<1>3. ASSUME NEW env \in Envs
      PROVE  Recorded(env, state[env])'
  <2>1. CASE state'[env] = state[env]
    <3>1. Recorded(env, state[env])
      BY DEF ReleaseInv
    <3>2. LET s == state[env] IN
            s # NoOne /\ s.release \in Releases \ overlapped' => s.digest \in proven'[env]
      BY <1>1, <3>1, RecordedStable
    <3> QED
      BY <2>1, <3>2 DEF Recorded
  <2>2. CASE WriteState(o) /\ op[o].env = env
    <3>1. /\ op[o].pc = "state" /\ op[o].release \in Releases
          /\ state'[env] = [release |-> op[o].release, digest |-> op[o].digest,
                            tar |-> op[o].tar]
      BY <1>1, <2>2, WriteStateMoves
    <3>2. op[o].release \notin overlapped => op[o].digest \in proven[env]
      BY <2>2, <3>1 DEF ReleaseInv, Knows
    <3>3. state'[env].release = op[o].release /\ state'[env].digest = op[o].digest
      BY <3>1
    <3> QED
      BY <1>1, <3>2, <3>3 DEF Recorded, Grows
  <2>3. CASE NoopWrite(o) /\ op[o].env = env
    <3>1. op[o].pc = "noop" /\ state'[env] = op[o].noted
      BY <1>1, <2>3, NoopWriteMoves
    <3>2. Recorded(env, op[o].noted)
      BY <2>3, <3>1 DEF ReleaseInv
    <3>3. LET s == op[o].noted IN
            s # NoOne /\ s.release \in Releases \ overlapped' => s.digest \in proven'[env]
      BY <1>1, <3>2, RecordedStable
    <3> QED
      BY <3>1, <3>3 DEF Recorded
  <2>4. \/ state'[env] = state[env]
        \/ WriteState(o) /\ op[o].env = env
        \/ NoopWrite(o) /\ op[o].env = env
    <3>1. state' = state \/ WriteState(o) \/ NoopWrite(o)
      BY Untouched
    <3>2. WriteState(o) => op[o].env = env \/ state'[env] = state[env]
      BY <1>1, WriteStateMoves
    <3>3. NoopWrite(o) => op[o].env = env \/ state'[env] = state[env]
      BY <1>1, NoopWriteMoves
    <3> QED
      BY <3>1, <3>2, <3>3
  <2> QED
    BY <2>1, <2>2, <2>3, <2>4
<1> QED
  BY <1>2, <1>3

LEMMA RunsStep ==
  ASSUME ReleaseInv, NEW o \in Operators, Acts(o), NEW env \in Envs
  PROVE  Runs(env)'
<1>1. TypeOK /\ Equipped(o) /\ Grows /\ Runs(env) /\ Before(env) \in Envs
  BY GrowsStep DEF ReleaseInv, Before, Envs
<1>2. CASE running'[env] = running[env]
  BY <1>1, <1>2 DEF Runs, Grows
<1>3. CASE env = "local" /\ \E r \in Releases : BuildImage(o, r)
  <2>1. running'[env].says = NoOne
    BY <1>1, <1>3 DEF BuildImage, TypeOK
  <2> QED
    BY <1>3, <2>1 DEF Runs
<1>4. CASE StartContainer(o) /\ op[o].env = env
  <2>1. /\ op[o].pc = "deploy" /\ op[o].release \in Releases
        /\ running'[env] = [release |-> op[o].release, says |-> op[o].digest,
                            image |-> tag[env][op[o].release]]
    BY <1>1, <1>4, ContainerMoves
  <2> SUFFICES ASSUME op[o].release \notin overlapped'
               PROVE  /\ tag[env][op[o].release] = op[o].digest
                      /\ env # "local" => op[o].digest \in proven'[Before(env)]
    BY <2>1 DEF Runs
  <2>2. op[o].release \in Releases \ overlapped /\ Knows(o)
    BY <1>1, <2>1 DEF Grows, ReleaseInv
  <2>3. tag[env][op[o].release] = op[o].digest
    BY <1>4, <2>1, <2>2 DEF Knows
  <2>4. env # "local" => Promotes(o)
    BY <1>4, <2>1 DEF Promotes, Later, Envs
  <2>5. CASE env = "dev"
    <3>1. manifest[op[o].release] # NoOne /\ op[o].digest = manifest[op[o].release].digest
      BY <1>1, <2>2, <2>4, <2>5 DEF Equipped, Knows
    <3>2. op[o].digest \in proven["local"]
      BY <2>2, <3>1 DEF ReleaseInv, ManifestTrue
    <3> QED
      BY <1>1, <2>3, <2>5, <3>2 DEF Before, Grows
  <2>6. CASE env = "uat"
    <3>1. op[o].digest \in proven["dev"]
      BY <1>4, <2>2, <2>4, <2>6 DEF Knows
    <3> QED
      BY <1>1, <2>3, <2>6, <3>1 DEF Before, Grows
  <2>7. CASE env = "local"
    BY <2>3, <2>7
  <2> QED
    BY <2>5, <2>6, <2>7 DEF Envs
<1>5. \/ running'[env] = running[env]
      \/ env = "local" /\ \E r \in Releases : BuildImage(o, r)
      \/ StartContainer(o) /\ op[o].env = env
  <2>1. ASSUME NEW r \in Releases, BuildImage(o, r), env # "local"
        PROVE  running'[env] = running[env]
    BY <1>1, <2>1 DEF BuildImage, TypeOK
  <2> QED
    BY <1>1, <2>1, Untouched, ContainerMoves
<1> QED
  BY <1>2, <1>3, <1>4, <1>5

LEMMA ReleaseInvStep == ReleaseInv /\ [Next]_vars => ReleaseInv'
<1> SUFFICES ASSUME ReleaseInv, [Next]_vars
             PROVE  ReleaseInv'
  OBVIOUS
<1>1. CASE Next
  <2>1. PICK o \in Operators : Acts(o)
    BY <1>1, NextActs
  <2>2. TypeOK' /\ Equipped(o)' /\ Only(o) /\ Grows
    BY <2>1, ActorMoves, GrowsStep DEF ReleaseInv
  <2>3. \A p \in Operators : Equipped(p)'
    BY <2>2, EquippedStable DEF Only, ReleaseInv
  <2>4. \A r \in Releases \ overlapped' : Alone(r)' /\ ManifestTrue(r)'
    BY <2>1, AloneStep, ManifestStep
  <2>5. \A p \in Operators : op'[p].release \in Releases \ overlapped' => Knows(p)'
    BY <2>1, ActorKnows, OthersKnow
  <2>6. /\ \A p \in Operators : op'[p].pc = "noop" => Recorded(op[p].env, op[p].noted)'
        /\ \A env \in Envs : Recorded(env, state[env])'
    BY <2>1, RecordsStep
  <2>7. \A env \in Envs : Runs(env)'
    BY <2>1, RunsStep
  <2> QED
    BY <2>2, <2>3, <2>4, <2>5, <2>6, <2>7 DEF ReleaseInv
<1>2. CASE UNCHANGED vars
  BY <1>2 DEF vars, files, hosts, ReleaseInv, TypeOK, Equipped, Promotes, Alone,
              ManifestTrue, Knows, Recorded, Runs
<1> QED
  BY <1>1, <1>2

LEMMA ReleaseAlways == Spec => []ReleaseInv
BY ReleaseInvInit, ReleaseInvStep, PTL DEF Spec

-----------------------------------------------------------------------------
(* Theorems.                                                               *)

\* Files, hosts and scripts hold what they can hold, whoever else is at work.
THEOREM ReleaseTypeCorrect == Spec => []TypeOK
<1>1. ReleaseInv => TypeOK
  BY DEF ReleaseInv
<1> QED
  BY <1>1, ReleaseAlways, PTL

\* A container is the image it says it is, unless its release was built anew
\* while another script worked on it.
THEOREM RuntimeIsTrueCorrect == Spec => []RuntimeIsTrue
<1>1. ReleaseInv => RuntimeIsTrue
  BY DEF ReleaseInv, Runs, RuntimeIsTrue
<1> QED
  BY <1>1, ReleaseAlways, PTL

\* No image comes to dev that was not verified locally, and none to UAT that
\* was not verified on dev, under the same condition, although scripts stop
\* half way, ids are built again and no-op evidence is written in between.
THEOREM NoStageSkipped == Spec => []NothingSkipsAStage
<1>1. ReleaseInv => NothingSkipsAStage
  BY DEF ReleaseInv, Runs, NothingSkipsAStage, Envs
<1> QED
  BY <1>1, ReleaseAlways, PTL

\* What plan, the UAT dry run and a manifest say of a release is true of an
\* image that ran in that environment, under the same condition.
THEOREM AdviceIsSoundCorrect == Spec => []AdviceIsSound
<1>1. ASSUME ReleaseInv
      PROVE  AdviceIsSound
  <2>1. ASSUME NEW r \in Releases \ overlapped, manifest[r] # NoOne,
               Plan("app-impact", FALSE, r, FALSE) = "dev-promote-dry-run"
        PROVE  manifest[r].digest \in proven["local"]
    <3>1. StateMatches("local", r)
      BY <2>1 DEF Plan
    <3>2. /\ state["local"] # NoOne /\ state["local"].release = r
          /\ state["local"].digest = manifest[r].digest
      BY <3>1 DEF StateMatches
    <3> QED
      BY <1>1, <3>2 DEF ReleaseInv, Recorded, Envs
  <2>2. ASSUME NEW r \in Releases \ overlapped, manifest[r] # NoOne, UatDryRun(r)
        PROVE  manifest[r].digest \in proven["dev"]
    <3>1. /\ state["dev"] # NoOne /\ state["dev"].release = r
          /\ state["dev"].digest = manifest[r].digest
      BY <2>2 DEF UatDryRun, StateMatches
    <3> QED
      BY <1>1, <3>1 DEF ReleaseInv, Recorded, Envs
  <2>3. ASSUME NEW r \in Releases \ overlapped, manifest[r] # NoOne
        PROVE  \A env \in manifest[r].passed : manifest[r].digest \in proven[env]
    BY <1>1, <2>3 DEF ReleaseInv, ManifestTrue
  <2> QED
    BY <2>1, <2>2, <2>3 DEF AdviceIsSound
<1> QED
  BY <1>1, ReleaseAlways, PTL
=============================================================================
