---------------------------- MODULE CampaignProofs ----------------------------
(***************************************************************************)
(* What the verification accepts is what the campaign says it is, for any  *)
(* commands, files, versions of the source and number of failures, kills,  *)
(* edits and runs by hand.                                                 *)
(***************************************************************************)
EXTENDS Campaign, TLAPS

CommandRecord == [script : Scripts, regime : Regimes, exit : {0, 1}]

Hashes == UNION {[D -> Content] : D \in SUBSET Files}

ManifestRecord ==
    [source : Versions, commands : Seq(CommandRecord), pass : BOOLEAN,
     hashes : {None} \cup Hashes]

HasManifest == manifest \notin {None, Torn}

CampaignTypeOK ==
    /\ source \in Versions
    /\ results \in [Files -> {None, Torn} \cup Content]
    /\ manifest \in {None, Torn} \cup ManifestRecord
    /\ phase \in {"idle", "begin", "run", "command", "record", "stamp"}
    /\ start \in Nat \ {0}
    /\ commands \in Seq(CommandRecord)
    /\ pending \subseteq Files
    /\ fresh \in BOOLEAN /\ edited \in BOOLEAN /\ unfinished \in BOOLEAN

Working == phase \in {"run", "command", "record", "stamp"}

StampOf(v, f) == [source |-> v, regime |-> NameRegime[f]]

(* A script of the content's source writes the file, under this regime.     *)
Owned(f, c) == \E s \in Scripts : f \in Writes[c.source][s] /\ c.regime = Regime[s]

(* A command that passed has left its files, of the version it ran with,    *)
(* unless they were torn (r) or written over by hand (h) since.             *)
Kept(cs, v, r, h) ==
    \A k \in DOMAIN cs : cs[k].exit = 0 =>
        \A f \in Writes[v][cs[k].script] \ h :
            r[f] # None /\ (r[f] = Torn \/ r[f].source = v)

(* Whatever the campaign wrote, it wrote under the regime of the script.    *)
RegimesKept ==
    \A f \in Files \ byHand : results[f] \in Content => Owned(f, results[f])

(* A full trace records the source its command had loaded, unless that was  *)
(* edited in between.                                                       *)
TracesRecord ==
    \A f \in (Files \cap FullTraces) \ raced :
        results[f] \in Content => results[f].recorded = results[f].source

(* A running command writes the files of the version it loaded; what it has *)
(* no longer to write is there.                                             *)
Executing ==
    phase = "command" =>
        /\ Len(commands) < Len(Commands)
        /\ loaded \in Versions
        /\ pending \subseteq Writes[loaded][Running]
        /\ ~touched => loaded = source
        /\ ~edited => loaded = env
        /\ \A f \in Writes[loaded][Running] \ pending :
             results[f] \in Content /\ results[f].source = loaded

(* While it runs, the manifest on disk is of the version it began with, and *)
(* no verdict; unless the source is edited, it is the one at hand.          *)
InFlight ==
    Working =>
        /\ env \in Versions
        /\ manifest \in ManifestRecord
        /\ manifest.source = env /\ ~manifest.pass /\ manifest.hashes = None
        /\ ~edited => env = source /\ Kept(commands, env, results, byHand)

ManifestKept ==
    HasManifest /\ ~edited => Kept(manifest.commands, manifest.source, results, byHand)

(* After --fresh there is nothing but what this campaign has written.       *)
FreshStart == phase = "begin" /\ fresh /\ start = 1 => \A f \in Files : results[f] = None

FreshKept ==
    (HasManifest \/ Working) /\ fresh /\ ~edited =>
        \A f \in Files \ byHand : results[f] \in Content => results[f].source = manifest.source

Stamped ==
    phase = "stamp" =>
        /\ \A f \in pending : results[f] # None
        /\ \A f \in Files \ pending : results[f] # None =>
             /\ results[f] \in Content
             /\ f \notin Unstamped => results[f].stamp = StampOf(env, f)

(* What a hash stands for: a result of the regime of its script and with    *)
(* the stamp of the manifest's version, and of that version itself where    *)
(* that is claimed; what has no hash has come by hand.                      *)
HashSound(f) ==
    /\ Owned(f, manifest.hashes[f])
    /\ f \notin Unstamped => manifest.hashes[f].stamp = StampOf(manifest.source, f)
    /\ fresh /\ ~edited => manifest.hashes[f].source = manifest.source

HashesComplete ==
    \A k \in DOMAIN manifest.commands : manifest.commands[k].exit = 0 =>
        \A f \in Writes[manifest.source][manifest.commands[k].script] \ adopted :
            f \in DOMAIN manifest.hashes /\ manifest.hashes[f].source = manifest.source

Hashed ==
    HasManifest /\ manifest.hashes # None =>
        /\ \A f \in DOMAIN manifest.hashes \ adopted : HashSound(f)
        /\ ~edited => HashesComplete
        /\ Present \ byHand \subseteq DOMAIN manifest.hashes

NoVerdict == unfinished /\ HasManifest => ~manifest.pass

IInv ==
    /\ CampaignTypeOK
    /\ RegimesKept /\ TracesRecord
    /\ Executing /\ InFlight /\ ManifestKept
    /\ FreshStart /\ FreshKept
    /\ Stamped /\ Hashed /\ NoVerdict

-----------------------------------------------------------------------------
(* What a script of some version writes is a file, and the stamp of a       *)
(* report states the regime of that script.                                 *)
LEMMA WrittenIs ==
    ASSUME NEW v \in Versions, NEW s \in Scripts, NEW f \in Writes[v][s]
    PROVE  f \in Files /\ (f \notin Unstamped => NameRegime[f] = Regime[s])
  BY CampaignConstants DEF Files

(* The regimes a command, a file or a stamp may state.                      *)
LEMMA RegimesTyped ==
    /\ \A s \in Scripts : Regime[s] \in Regimes
    /\ "incremental" \in Regimes
    /\ \A f \in Files \ Unstamped : NameRegime[f] \in Regimes
  <1>1. ASSUME NEW f \in Files \ Unstamped
        PROVE  NameRegime[f] \in Regimes
    <2>1. PICK v \in Versions, s \in Scripts : f \in Writes[v][s]
      BY DEF Files
    <2> QED
      BY <2>1, WrittenIs DEF Regimes
  <1> QED
    BY <1>1 DEF Regimes

(* What a script writes is content, of the version it loaded, with its      *)
(* regime and without a stamp; a full trace records the source at hand.     *)
LEMMA ProducedTyped ==
    ASSUME CampaignTypeOK, NEW f, NEW v \in Versions, NEW r \in Regimes
    PROVE  /\ Produced(f, v, r) \in Content
           /\ Produced(f, v, r) \notin {None, Torn}
           /\ Produced(f, v, r).source = v /\ Produced(f, v, r).regime = r
           /\ f \in FullTraces => Produced(f, v, r).recorded = source
  <1>1. (IF f \in FullTraces THEN source ELSE None) \in {None} \cup Versions
    BY DEF CampaignTypeOK
  <1>2. Produced(f, v, r) \in Content
    BY <1>1 DEF Produced, Content, Fingerprint
  <1> QED
    BY <1>2, CampaignConstants DEF Produced, Fingerprint

(* The script of the next command is one of the campaign's.                 *)
LEMMA RunningIs ==
    ASSUME commands \in Seq(CommandRecord), Len(commands) < Len(Commands)
    PROVE  Running \in Scripts /\ Regime[Running] \in Regimes
  <1>1. Len(commands) + 1 \in 1..Len(Commands)
    BY CampaignConstants
  <1> QED
    BY <1>1, CampaignConstants, RegimesTyped DEF Running

(* The commands of a manifest and of the process are known to be kept as    *)
(* long as a file keeps its source, is torn, or is written again.           *)
LEMMA KeptStable ==
    ASSUME NEW cs \in Seq(CommandRecord), NEW v \in Versions,
           NEW r, NEW h, NEW r2, NEW h2, Kept(cs, v, r, h),
           \A f \in Files \ h2 :
               \/ r2[f] = Torn
               \/ r2[f] # None /\ r2[f].source = v
               \/ f \notin h /\ r2[f] = r[f]
               \/ f \notin h /\ r2[f] # None /\ r[f] # Torn /\ r2[f].source = r[f].source
    PROVE  Kept(cs, v, r2, h2)
  <1> SUFFICES ASSUME NEW k \in DOMAIN cs, cs[k].exit = 0,
                      NEW f \in Writes[v][cs[k].script] \ h2
               PROVE  r2[f] # None /\ (r2[f] = Torn \/ r2[f].source = v)
    BY DEF Kept
  <1>1. cs[k] \in CommandRecord
    OBVIOUS
  <1>2. f \in Files \ h2
    BY <1>1, WrittenIs DEF CommandRecord
  <1>3. CASE f \notin h
    <2>1. r[f] # None /\ (r[f] = Torn \/ r[f].source = v)
      BY <1>3 DEF Kept
    <2> QED
      BY <1>2, <2>1, CampaignConstants
  <1> QED
    BY <1>2, <1>3, CampaignConstants

(* Fewer commands are kept as well.                                         *)
LEMMA KeptPrefix ==
    ASSUME NEW cs \in Seq(CommandRecord), NEW v, NEW r, NEW h, Kept(cs, v, r, h),
           NEW n \in 0..Len(cs)
    PROVE  /\ SubSeq(cs, 1, n) \in Seq(CommandRecord)
           /\ Kept(SubSeq(cs, 1, n), v, r, h)
  BY DEF Kept

-----------------------------------------------------------------------------
(* --fresh leaves nothing an invariant speaks of.                           *)
LEMMA BackupStep == ASSUME IInv, Backup PROVE IInv'
  <1>1. /\ phase = "idle"
        /\ results' = [f \in Files |-> None] /\ manifest' = None
        /\ phase' = "begin" /\ start' = 1 /\ fresh' = TRUE /\ byHand' = {}
        /\ UNCHANGED <<source, env, commands, pending, edited, unfinished, adopted>>
    BY DEF Backup
  <1>2. CampaignTypeOK'
    BY <1>1 DEF IInv, CampaignTypeOK
  <1>3. ~HasManifest'
    BY <1>1 DEF HasManifest
  <1>4. RegimesKept' /\ TracesRecord' /\ FreshStart'
    BY <1>1, CampaignConstants DEF RegimesKept, TracesRecord, FreshStart
  <1> QED
    BY <1>1, <1>2, <1>3, <1>4
       DEF IInv, Executing, InFlight, Working, ManifestKept, FreshKept, Stamped, Hashed,
           NoVerdict

(* An invocation without --fresh that starts over gives up the claim.       *)
LEMMA InvokeStep == ASSUME IInv, Invoke PROVE IInv'
  <1>1. /\ phase = "idle" /\ phase' = "begin"
        /\ start' \in DOMAIN Commands
        /\ fresh' = (fresh /\ start' > 1)
        /\ UNCHANGED <<source, results, manifest, env, commands, pending, edited,
                       unfinished, byHand, adopted, raced>>
    BY DEF Invoke, files
  <1>2. CampaignTypeOK'
    BY <1>1, CampaignConstants DEF IInv, CampaignTypeOK
  <1>3. fresh' => fresh
    BY <1>1
  <1>4. FreshStart'
    <2>1. fresh' => start' > 1
      BY <1>1
    <2>2. start' = 1 => ~(start' > 1)
      OBVIOUS
    <2> QED
      BY <2>1, <2>2 DEF FreshStart
  <1>5. Hashed'
    BY <1>1, <1>3 DEF IInv, Hashed, HasManifest, HashSound, HashesComplete, Present
  <1> QED
    BY <1>1, <1>2, <1>3, <1>4, <1>5
       DEF IInv, RegimesKept, TracesRecord, Executing, InFlight, Working, ManifestKept,
           HasManifest, FreshKept, Stamped, NoVerdict

(* The process ends: only what is on disk is left to speak of.              *)
LEMMA ExitStep ==
    ASSUME IInv, Exit, UNCHANGED <<source, results, manifest, fresh, edited, unfinished,
                                   byHand, adopted, raced>>
    PROVE  IInv'
  <1>1. /\ phase' = "idle" /\ start' = 1 /\ env' = None /\ commands' = <<>>
        /\ pending' = {}
    BY DEF Exit
  <1>2. CampaignTypeOK'
    BY <1>1 DEF IInv, CampaignTypeOK
  <1>3. Hashed'
    BY DEF IInv, Hashed, HasManifest, HashSound, HashesComplete, Present
  <1> QED
    BY <1>1, <1>2, <1>3
       DEF IInv, RegimesKept, TracesRecord, Executing, InFlight, Working, ManifestKept,
           HasManifest, FreshStart, FreshKept, Stamped, NoVerdict

(* Whatever the process does next, a campaign that begins has a manifest of *)
(* the source at hand and of commands that are kept.                        *)
LEMMA BeginStep == ASSUME IInv, Begin PROVE IInv'
  <1>1. /\ phase = "begin" /\ (start = 1 \/ Resumable)
        /\ env' = source /\ commands' = Earlier
        /\ manifest' = Manifest(source, Earlier, FALSE, None)
        /\ phase' = "run"
        /\ edited' = (edited /\ start > 1)
        /\ unfinished' = TRUE
        /\ UNCHANGED <<source, results, start, pending, fresh, byHand, adopted, raced>>
    BY DEF Begin, StartManifest, Fingerprint
  <1>2. ASSUME start # 1
        PROVE  /\ HasManifest /\ manifest \in ManifestRecord /\ manifest.source = source
               /\ edited' = edited
               /\ Earlier = SubSeq(manifest.commands, 1, start - 1)
               /\ start - 1 \in 0..Len(manifest.commands)
               /\ manifest.commands \in Seq(CommandRecord)
    <2>1. HasManifest /\ manifest \in ManifestRecord /\ manifest.source = source
      BY <1>1, <1>2 DEF Resumable, HasManifest, Fingerprint, IInv, CampaignTypeOK
    <2>2. manifest.commands \in Seq(CommandRecord)
      BY <2>1 DEF ManifestRecord
    <2>3. start - 1 \in 0..Len(manifest.commands)
      BY <1>1, <1>2, <2>2 DEF Resumable, IInv, CampaignTypeOK
    <2>4. start > 1
      BY <1>2 DEF IInv, CampaignTypeOK
    <2>5. edited' = edited
      BY <1>1, <2>4 DEF IInv, CampaignTypeOK
    <2> QED
      BY <1>2, <2>1, <2>2, <2>3, <2>5 DEF Earlier, Prefix
  <1>3. Earlier \in Seq(CommandRecord)
    <2>1. CASE start = 1
      BY <2>1 DEF Earlier
    <2>2. CASE start # 1
      BY <1>2, <2>2
    <2> QED
      BY <2>1, <2>2
  <1>4. ASSUME ~edited'
        PROVE  Kept(Earlier, source, results, byHand)
    <2>1. CASE start = 1
      BY <2>1 DEF Earlier, Kept
    <2>2. CASE start # 1
      <3>1. Kept(manifest.commands, source, results, byHand)
        BY <1>2, <1>4, <2>2 DEF IInv, ManifestKept
      <3> QED
        BY <1>2, <2>2, <3>1, KeptPrefix
    <2> QED
      BY <2>1, <2>2
  <1>5. /\ manifest' \in ManifestRecord
        /\ manifest'.source = source /\ manifest'.commands = Earlier
        /\ manifest'.pass = FALSE /\ manifest'.hashes = None
    BY <1>1, <1>3 DEF Manifest, ManifestRecord, IInv, CampaignTypeOK
  <1>6. CampaignTypeOK'
    <2>1. edited' \in BOOLEAN
      BY <1>1
    <2> QED
      BY <1>1, <1>3, <1>5, <2>1 DEF IInv, CampaignTypeOK
  <1>7. InFlight' /\ ManifestKept'
    BY <1>1, <1>4, <1>5 DEF InFlight, ManifestKept, IInv, CampaignTypeOK
  <1>8. FreshKept'
    <2>1. CASE start = 1
      BY <1>1, <2>1, CampaignConstants DEF IInv, FreshStart, FreshKept
    <2>2. CASE start # 1
      BY <1>1, <1>2, <1>5, <2>2 DEF IInv, FreshKept
    <2> QED
      BY <2>1, <2>2
  <1>9. /\ RegimesKept' /\ TracesRecord' /\ Executing'
        /\ FreshStart' /\ Stamped' /\ Hashed' /\ NoVerdict'
    BY <1>1, <1>5
       DEF IInv, RegimesKept, TracesRecord, Executing, FreshStart, Stamped, Hashed, NoVerdict
  <1> QED
    BY <1>6, <1>7, <1>8, <1>9 DEF IInv

(* A refusal and a stamping loop that raises leave everything on disk.      *)
LEMMA RefuseStep == ASSUME IInv, Refuse \/ StampRaises PROVE IInv'
  BY ExitStep DEF Refuse, StampRaises, files, history

(* While the process runs there are no hashes on disk.                      *)
LEMMA NoHashes == ASSUME IInv, Working PROVE manifest.hashes = None /\ ~manifest.pass
  BY DEF IInv, InFlight

(* A file cut off in the middle of a write is no result of anybody.         *)
LEMMA Tears ==
    ASSUME IInv, TornFile, UNCHANGED <<source, manifest, fresh, edited, unfinished, raced>>
    PROVE  /\ results' \in [Files -> {None, Torn} \cup Content]
           /\ RegimesKept' /\ TracesRecord' /\ ManifestKept' /\ FreshKept'
           /\ Hashed' /\ NoVerdict'
           /\ \A cs \in Seq(CommandRecord), v \in Versions :
                Kept(cs, v, results, byHand) => Kept(cs, v, results', byHand')
  <1>1. PICK f \in pending :
          results' = [results EXCEPT ![f] = Torn] /\ byHand' = byHand \ {f}
    BY DEF TornFile
  <1>2. Working
    BY DEF TornFile, Working
  <1>3. /\ \A g \in Files : results'[g] = IF g = f THEN Torn ELSE results[g]
        /\ results' \in [Files -> {None, Torn} \cup Content]
    BY <1>1 DEF IInv, CampaignTypeOK
  <1>4. RegimesKept' /\ TracesRecord'
    <2>1. RegimesKept'
      BY <1>1, <1>3, CampaignConstants DEF IInv, RegimesKept
    <2>2. TracesRecord'
      BY <1>1, <1>3, CampaignConstants DEF IInv, TracesRecord
    <2> QED
      BY <2>1, <2>2
  <1>5. /\ env \in Versions /\ manifest \in ManifestRecord
        /\ manifest.source = env /\ ~manifest.pass /\ manifest.hashes = None
    BY <1>2 DEF IInv, InFlight
  <1>6. ASSUME NEW cs \in Seq(CommandRecord), NEW v \in Versions,
               Kept(cs, v, results, byHand)
        PROVE  Kept(cs, v, results', byHand')
    <2>1. \A g \in Files \ byHand' :
            \/ results'[g] = Torn
            \/ g \notin byHand /\ results'[g] = results[g]
      BY <1>1, <1>3
    <2> QED
      BY <1>6, <2>1, KeptStable
  <1>7. ManifestKept'
    <2> SUFFICES ASSUME HasManifest, ~edited
                 PROVE  Kept(manifest.commands, env, results', byHand')
      BY <1>5 DEF ManifestKept, HasManifest
    <2>1. Kept(manifest.commands, env, results, byHand)
      BY <1>5 DEF IInv, ManifestKept
    <2>2. manifest.commands \in Seq(CommandRecord)
      BY <1>5 DEF ManifestRecord
    <2> QED
      BY <1>5, <1>6, <2>1, <2>2
  <1>8. FreshKept'
    BY <1>1, <1>2, <1>3, CampaignConstants DEF IInv, FreshKept
  <1>9. Hashed' /\ NoVerdict'
    BY <1>5 DEF Hashed, NoVerdict
  <1> QED
    BY <1>3, <1>4, <1>6, <1>7, <1>8, <1>9

(* A command loads the source at hand and has written nothing yet.          *)
LEMMA LoadCommandStep == ASSUME IInv, LoadCommand PROVE IInv'
  <1>1. /\ phase = "run" /\ Len(commands) < Len(Commands) /\ phase' = "command"
        /\ loaded' = source /\ touched' = FALSE
        /\ pending' = Writes[source][Running]
        /\ UNCHANGED <<source, results, manifest, start, env, commands, fresh, edited,
                       unfinished, byHand, adopted, raced>>
    BY DEF LoadCommand, files, history
  <1>2. Running \in Scripts /\ source \in Versions
    BY <1>1, RunningIs DEF IInv, CampaignTypeOK
  <1>3. pending' \subseteq Files
    BY <1>1, <1>2, WrittenIs
  <1>4. CampaignTypeOK'
    BY <1>1, <1>3 DEF IInv, CampaignTypeOK
  <1>5. /\ env \in Versions /\ manifest \in ManifestRecord
        /\ manifest.source = env /\ ~manifest.pass /\ manifest.hashes = None
        /\ ~edited => env = source /\ Kept(commands, env, results, byHand)
    BY <1>1 DEF IInv, InFlight, Working
  <1>6. Running' = Running
    BY <1>1 DEF Running
  <1>7. Executing'
    BY <1>1, <1>2, <1>5, <1>6 DEF Executing
  <1>8. InFlight'
    BY <1>1, <1>5 DEF InFlight
  <1>9. RegimesKept' /\ TracesRecord' /\ ManifestKept' /\ FreshKept'
    BY <1>1 DEF IInv, RegimesKept, TracesRecord, ManifestKept, FreshKept, HasManifest, Working
  <1>10. FreshStart' /\ Stamped' /\ Hashed' /\ NoVerdict'
    BY <1>1, <1>5 DEF FreshStart, Stamped, Hashed, NoVerdict
  <1> QED
    BY <1>4, <1>7, <1>8, <1>9, <1>10 DEF IInv

(* A command writes one of its files.                                       *)
LEMMA WriteResultStep == ASSUME IInv, WriteResult PROVE IInv'
  <1>1. PICK f \in pending :
          /\ pending' = pending \ {f}
          /\ results' = [results EXCEPT ![f] = Produced(f, loaded, Regime[Running])]
          /\ byHand' = byHand \ {f}
          /\ raced' = IF touched THEN raced \cup {f} ELSE raced \ {f}
    BY DEF WriteResult
  <1>2. /\ phase = "command"
        /\ UNCHANGED <<source, manifest, phase, start, env, commands, loaded, touched, fresh,
                       edited, unfinished, adopted>>
    BY DEF WriteResult
  <1>3. /\ Len(commands) < Len(Commands) /\ loaded \in Versions
        /\ pending \subseteq Writes[loaded][Running]
        /\ ~touched => loaded = source
        /\ ~edited => loaded = env
        /\ \A g \in Writes[loaded][Running] \ pending :
             results[g] \in Content /\ results[g].source = loaded
    BY <1>2 DEF IInv, Executing
  <1>4. Running \in Scripts /\ Regime[Running] \in Regimes
    BY <1>3, RunningIs DEF IInv, CampaignTypeOK
  <1> DEFINE new == Produced(f, loaded, Regime[Running])
  <1>5. /\ new \in Content /\ new \notin {None, Torn}
        /\ new.source = loaded /\ new.regime = Regime[Running]
        /\ f \in FullTraces => new.recorded = source
    BY <1>3, <1>4, ProducedTyped DEF IInv
  <1>6. f \in Files /\ f \in Writes[loaded][Running]
    BY <1>1, <1>3, <1>4, WrittenIs
  <1>7. results' = [results EXCEPT ![f] = new]
    BY <1>1
  <1> HIDE DEF new
  <1>8. /\ results'[f] = new
        /\ \A g \in Files \ {f} : results'[g] = results[g]
        /\ results' \in [Files -> {None, Torn} \cup Content]
    BY <1>5, <1>6, <1>7 DEF IInv, CampaignTypeOK
  <1>9. CampaignTypeOK'
    BY <1>1, <1>2, <1>8 DEF IInv, CampaignTypeOK
  <1>10. RegimesKept'
    <2>1. Owned(f, new)
      BY <1>4, <1>5, <1>6 DEF Owned
    <2>2. \A g \in Files \ {f} : g \notin byHand' => g \notin byHand
      BY <1>1
    <2> QED
      BY <1>8, <2>1, <2>2 DEF IInv, RegimesKept
  <1>11. TracesRecord'
    <2>1. f \notin raced' => ~touched
      BY <1>1
    <2>2. \A g \in Files \ {f} : g \notin raced' => g \notin raced
      BY <1>1
    <2>3. f \in FullTraces /\ f \notin raced' => new.recorded = new.source
      BY <1>3, <1>5, <2>1
    <2> QED
      BY <1>8, <2>2, <2>3 DEF IInv, TracesRecord
  <1>12. Running' = Running
    BY <1>2 DEF Running
  <1>13. Executing'
    <2>1. \A g \in Writes[loaded][Running] \ pending' :
            results'[g] \in Content /\ results'[g].source = loaded
      <3> SUFFICES ASSUME NEW g \in Writes[loaded][Running] \ pending'
                   PROVE  results'[g] \in Content /\ results'[g].source = loaded
        OBVIOUS
      <3>1. CASE g = f
        BY <1>5, <1>8, <3>1
      <3>2. CASE g # f
        <4>1. g \in Files /\ g \notin pending
          BY <1>1, <1>3, <1>4, <3>2, WrittenIs
        <4> QED
          BY <1>3, <1>8, <3>2, <4>1
      <3> QED
        BY <3>1, <3>2
    <2> QED
      BY <1>1, <1>2, <1>3, <1>12, <2>1 DEF Executing
  <1>14. /\ env \in Versions /\ manifest \in ManifestRecord
         /\ manifest.source = env /\ ~manifest.pass /\ manifest.hashes = None
         /\ ~edited => env = source /\ Kept(commands, env, results, byHand)
    BY <1>2 DEF IInv, InFlight, Working
  <1>15. ASSUME ~edited, NEW cs \in Seq(CommandRecord), Kept(cs, env, results, byHand)
         PROVE  Kept(cs, env, results', byHand')
    <2>1. \A g \in Files \ byHand' :
            \/ results'[g] # None /\ results'[g].source = env
            \/ g \notin byHand /\ results'[g] = results[g]
      BY <1>1, <1>3, <1>5, <1>8, <1>15
    <2> QED
      BY <1>14, <1>15, <2>1, KeptStable
  <1>16. InFlight'
    <2>1. ~edited => Kept(commands, env, results', byHand')
      BY <1>14, <1>15 DEF IInv, CampaignTypeOK
    <2> QED
      BY <1>2, <1>14, <2>1 DEF InFlight
  <1>17. ManifestKept'
    <2> SUFFICES ASSUME HasManifest, ~edited
                 PROVE  Kept(manifest.commands, env, results', byHand')
      BY <1>2, <1>14 DEF ManifestKept, HasManifest
    <2>1. Kept(manifest.commands, env, results, byHand)
      BY <1>14 DEF IInv, ManifestKept
    <2>2. manifest.commands \in Seq(CommandRecord)
      BY <1>14 DEF ManifestRecord
    <2> QED
      BY <1>15, <2>1, <2>2
  <1>18. FreshKept'
    <2> SUFFICES ASSUME fresh, ~edited, NEW g \in Files, g \notin byHand',
                        results'[g] \in Content
                 PROVE  results'[g].source = manifest.source
      BY <1>2 DEF FreshKept
    <2>1. CASE g = f
      BY <1>3, <1>5, <1>8, <1>14, <2>1
    <2>2. CASE g # f
      BY <1>1, <1>2, <1>8, <2>2 DEF IInv, FreshKept, Working
    <2> QED
      BY <2>1, <2>2
  <1>19. FreshStart' /\ Stamped' /\ Hashed' /\ NoVerdict'
    BY <1>2, <1>14 DEF FreshStart, Stamped, Hashed, NoVerdict
  <1> QED
    BY <1>9, <1>10, <1>11, <1>13, <1>16, <1>17, <1>18, <1>19 DEF IInv

(* A command that passed has written all its files; of one that failed      *)
(* nothing is known.                                                        *)
LEMMA EndCommandStep == ASSUME IInv, EndCommand PROVE IInv'
  <1>1. PICK exit \in {0, 1} :
          /\ commands' = Append(commands, [script |-> Running, regime |-> Regime[Running],
                                           exit |-> exit])
          /\ \/ (exit = 0 => pending = {}) /\ UNCHANGED <<results, byHand>>
             \/ exit = 1 /\ TornFile
    BY DEF EndCommand
  <1>2. /\ phase = "command" /\ phase' = "record" /\ pending' = {}
        /\ UNCHANGED <<source, manifest, start, env, fresh, edited, unfinished, adopted, raced>>
    BY DEF EndCommand
  <1>3. /\ Len(commands) < Len(Commands) /\ loaded \in Versions
        /\ ~edited => loaded = env
        /\ \A g \in Writes[loaded][Running] \ pending :
             results[g] \in Content /\ results[g].source = loaded
    BY <1>2 DEF IInv, Executing
  <1>4. /\ Running \in Scripts /\ Regime[Running] \in Regimes
        /\ commands \in Seq(CommandRecord)
    BY <1>3, RunningIs DEF IInv, CampaignTypeOK
  <1> DEFINE record == [script |-> Running, regime |-> Regime[Running], exit |-> exit]
  <1>5. /\ record \in CommandRecord
        /\ record.script = Running /\ record.exit = exit
        /\ commands' = Append(commands, record)
    BY <1>1, <1>4 DEF CommandRecord
  <1> HIDE DEF record
  <1>6. /\ env \in Versions /\ manifest \in ManifestRecord
        /\ manifest.source = env /\ ~manifest.pass /\ manifest.hashes = None
        /\ ~edited => env = source /\ Kept(commands, env, results, byHand)
    BY <1>2 DEF IInv, InFlight, Working
  <1>7. /\ results' \in [Files -> {None, Torn} \cup Content]
        /\ RegimesKept' /\ TracesRecord' /\ ManifestKept' /\ FreshKept'
        /\ ~edited => Kept(commands, env, results', byHand')
    <2>1. CASE TornFile
      BY <1>2, <1>4, <1>6, <2>1, Tears
    <2>2. CASE UNCHANGED <<results, byHand>>
      <3>1. results' \in [Files -> {None, Torn} \cup Content]
        BY <2>2 DEF IInv, CampaignTypeOK
      <3>2. RegimesKept' /\ TracesRecord' /\ ManifestKept' /\ FreshKept'
        BY <1>2, <2>2
           DEF IInv, RegimesKept, TracesRecord, ManifestKept, FreshKept, HasManifest, Working
      <3> QED
        BY <1>6, <2>2, <3>1, <3>2
    <2> QED
      BY <1>1, <2>1, <2>2
  <1>8. ASSUME ~edited, exit = 0
        PROVE  \A g \in Writes[env][Running] :
                 results'[g] # None /\ results'[g].source = env
    <2>1. pending = {} /\ results' = results
      BY <1>1, <1>8
    <2> QED
      BY <1>3, <1>8, <2>1, CampaignConstants
  <1>9. ASSUME ~edited
        PROVE  Kept(commands', env, results', byHand')
    <2>1. Kept(commands, env, results', byHand')
      BY <1>7, <1>9
    <2>2. \A k \in DOMAIN commands' :
            \/ commands'[k] = record
            \/ k \in DOMAIN commands /\ commands'[k] = commands[k]
      BY <1>4, <1>5
    <2> QED
      BY <1>5, <1>8, <1>9, <2>1, <2>2 DEF Kept
  <1>10. CampaignTypeOK'
    <2>1. commands' \in Seq(CommandRecord)
      BY <1>4, <1>5
    <2> QED
      BY <1>2, <1>7, <2>1 DEF IInv, CampaignTypeOK
  <1>11. InFlight'
    BY <1>2, <1>6, <1>9 DEF InFlight
  <1>12. Executing' /\ FreshStart' /\ Stamped' /\ Hashed' /\ NoVerdict'
    BY <1>2, <1>6 DEF Executing, FreshStart, Stamped, Hashed, NoVerdict
  <1> QED
    BY <1>7, <1>10, <1>11, <1>12 DEF IInv

(* What was in memory is on disk.                                           *)
LEMMA RecordCommandStep == ASSUME IInv, RecordCommand PROVE IInv'
  <1>1. /\ phase = "record"
        /\ manifest' = Manifest(env, commands, FALSE, None)
        /\ UNCHANGED <<source, results, fresh, edited, unfinished, byHand, adopted, raced>>
    BY DEF RecordCommand, history
  <1>2. \/ phase' = "run" /\ UNCHANGED <<start, env, commands, pending>>
        \/ Exit
    BY DEF RecordCommand
  <1>3. /\ env \in Versions
        /\ ~edited => env = source /\ Kept(commands, env, results, byHand)
        /\ manifest \in ManifestRecord /\ manifest.source = env
    BY <1>1 DEF IInv, InFlight, Working
  <1>4. /\ manifest' \in ManifestRecord
        /\ manifest'.source = env /\ manifest'.commands = commands
        /\ manifest'.pass = FALSE /\ manifest'.hashes = None
    BY <1>1, <1>3 DEF Manifest, ManifestRecord, IInv, CampaignTypeOK
  <1>5. CampaignTypeOK'
    <2>1. CASE phase' = "run" /\ UNCHANGED <<start, env, commands, pending>>
      BY <1>1, <1>4, <2>1 DEF IInv, CampaignTypeOK
    <2>2. CASE Exit
      <3>1. /\ phase' = "idle" /\ start' \in Nat \ {0}
            /\ commands' \in Seq(CommandRecord) /\ pending' \subseteq Files
        BY <2>2 DEF Exit
      <3> QED
        BY <1>1, <1>4, <3>1 DEF IInv, CampaignTypeOK
    <2> QED
      BY <1>2, <2>1, <2>2
  <1>6. InFlight'
    BY <1>1, <1>2, <1>3, <1>4 DEF InFlight, Working, Exit
  <1>7. ManifestKept'
    BY <1>1, <1>3, <1>4 DEF ManifestKept
  <1>8. FreshKept'
    BY <1>1, <1>3, <1>4 DEF IInv, FreshKept, Working
  <1>9. /\ RegimesKept' /\ TracesRecord' /\ Executing'
        /\ FreshStart' /\ Stamped' /\ Hashed' /\ NoVerdict'
    BY <1>1, <1>2, <1>4
       DEF IInv, RegimesKept, TracesRecord, Executing, FreshStart, Stamped, Hashed, NoVerdict,
           Exit
  <1> QED
    BY <1>5, <1>6, <1>7, <1>8, <1>9 DEF IInv

(* The finishing loop starts with every file there is.                      *)
LEMMA FinishCommandsStep == ASSUME IInv, FinishCommands PROVE IInv'
  <1>1. /\ phase = "run" /\ phase' = "stamp" /\ pending' = Present
        /\ UNCHANGED <<source, results, manifest, start, env, commands, fresh, edited,
                       unfinished, byHand, adopted, raced>>
    BY DEF FinishCommands, files, history
  <1>2. CampaignTypeOK'
    BY <1>1 DEF IInv, CampaignTypeOK, Present
  <1>3. Stamped'
    BY <1>1 DEF Stamped, Present
  <1>4. InFlight' /\ FreshKept'
    BY <1>1 DEF IInv, InFlight, FreshKept, Working, HasManifest
  <1>5. manifest.hashes = None
    BY <1>1, NoHashes DEF Working
  <1> QED
    BY <1>1, <1>2, <1>3, <1>4, <1>5
       DEF IInv, RegimesKept, TracesRecord, Executing, ManifestKept, HasManifest, FreshStart,
           Hashed, NoVerdict

(* A stamp changes nothing but the stamp.                                   *)
LEMMA StampFileStep == ASSUME IInv, StampFile PROVE IInv'
  <1>1. PICK f \in pending :
          /\ results[f] # Torn
          /\ pending' = pending \ {f}
          /\ results' = IF f \in Unstamped THEN results
                        ELSE [results EXCEPT ![f].stamp =
                                 [source |-> env, regime |-> NameRegime[f]]]
    BY DEF StampFile
  <1>2. /\ phase = "stamp"
        /\ UNCHANGED <<source, manifest, phase, start, env, commands, fresh, edited,
                       unfinished, byHand, adopted, raced>>
    BY DEF StampFile, history
  <1>3. f \in Files /\ results[f] \in Content /\ env \in Versions
    BY <1>1, <1>2 DEF IInv, CampaignTypeOK, Stamped, InFlight, Working
  <1>4. f \notin Unstamped => StampOf(env, f) \in Stamps
    BY <1>3, RegimesTyped DEF StampOf, Stamps
  <1> DEFINE new == results'[f]
  <1>5. /\ new \in Content
        /\ new.source = results[f].source /\ new.regime = results[f].regime
        /\ new.recorded = results[f].recorded
        /\ f \notin Unstamped => new.stamp = StampOf(env, f)
        /\ \A g \in Files \ {f} : results'[g] = results[g]
        /\ results' \in [Files -> {None, Torn} \cup Content]
    <2>1. CASE f \in Unstamped
      BY <1>1, <1>3, <2>1 DEF IInv, CampaignTypeOK
    <2>2. CASE f \notin Unstamped
      <3>1. results' = [results EXCEPT ![f].stamp = StampOf(env, f)]
        BY <1>1, <2>2 DEF StampOf
      <3>2. results \in [Files -> {None, Torn} \cup Content]
        BY DEF IInv, CampaignTypeOK
      <3>3. new = [results[f] EXCEPT !.stamp = StampOf(env, f)]
        BY <1>3, <3>1, <3>2
      <3>4. /\ new \in Content
            /\ new.source = results[f].source /\ new.regime = results[f].regime
            /\ new.recorded = results[f].recorded
            /\ new.stamp = StampOf(env, f)
        BY <1>3, <1>4, <2>2, <3>3 DEF Content
      <3> QED
        BY <1>3, <3>1, <3>2, <3>4
    <2> QED
      BY <2>1, <2>2
  <1> HIDE DEF new
  <1>6. new \notin {None, Torn}
    BY <1>5, CampaignConstants
  <1>7. results'[f] = new
    BY DEF new
  <1>8. CampaignTypeOK'
    BY <1>1, <1>2, <1>5 DEF IInv, CampaignTypeOK
  <1>9. RegimesKept' /\ TracesRecord' /\ Executing'
    <2>1. Owned(f, results[f]) => Owned(f, new)
      BY <1>5 DEF Owned
    <2>2. RegimesKept'
      BY <1>2, <1>3, <1>5, <1>7, <2>1 DEF IInv, RegimesKept
    <2>3. TracesRecord'
      BY <1>2, <1>3, <1>5, <1>7 DEF IInv, TracesRecord
    <2> QED
      BY <1>2, <2>2, <2>3 DEF Executing
  <1>10. ASSUME NEW cs \in Seq(CommandRecord), NEW v \in Versions,
                Kept(cs, v, results, byHand)
         PROVE  Kept(cs, v, results', byHand')
    <2>1. \A g \in Files \ byHand' :
            \/ g \notin byHand /\ results'[g] = results[g]
            \/ g \notin byHand /\ results'[g] # None /\ results[g] # Torn
                 /\ results'[g].source = results[g].source
      BY <1>1, <1>2, <1>5, <1>6, <1>7
    <2> QED
      BY <1>10, <2>1, KeptStable
  <1>11. /\ env \in Versions /\ manifest \in ManifestRecord
         /\ manifest.source = env /\ ~manifest.pass /\ manifest.hashes = None
         /\ ~edited => env = source /\ Kept(commands, env, results, byHand)
    BY <1>2 DEF IInv, InFlight, Working
  <1>12. InFlight'
    <2>1. ~edited => Kept(commands, env, results', byHand')
      BY <1>10, <1>11 DEF IInv, CampaignTypeOK
    <2> QED
      BY <1>2, <1>11, <2>1 DEF InFlight
  <1>13. ManifestKept'
    <2>1. manifest.commands \in Seq(CommandRecord)
      BY <1>11 DEF ManifestRecord
    <2> QED
      BY <1>2, <1>10, <1>11, <2>1 DEF IInv, ManifestKept, HasManifest
  <1>14. FreshKept'
    BY <1>2, <1>3, <1>5, <1>7 DEF IInv, FreshKept, HasManifest, Working
  <1>15. Stamped'
    BY <1>1, <1>2, <1>3, <1>5, <1>7 DEF IInv, Stamped, CampaignTypeOK
  <1>16. FreshStart' /\ Hashed' /\ NoVerdict'
    BY <1>2, <1>11 DEF FreshStart, Hashed, NoVerdict
  <1> QED
    BY <1>8, <1>9, <1>12, <1>13, <1>14, <1>15, <1>16 DEF IInv

(* The verdict is written over results that are all stamped.                *)
LEMMA FinishStep == ASSUME IInv, Finish PROVE IInv'
  <1> DEFINE hashes == [f \in Present |-> results[f]]
  <1>1. /\ phase = "stamp" /\ pending = {}
        /\ manifest' = Manifest(env, commands, TRUE, hashes)
        /\ unfinished' = FALSE /\ adopted' = byHand
        /\ UNCHANGED <<source, results, fresh, edited, byHand, raced>>
    BY DEF Finish
  <1>2. phase' = "idle" /\ start' = 1 /\ commands' = <<>> /\ pending' = {}
    BY DEF Finish, Exit
  <1>3. /\ env \in Versions /\ manifest \in ManifestRecord /\ manifest.source = env
        /\ ~edited => Kept(commands, env, results, byHand)
        /\ commands \in Seq(CommandRecord)
    BY <1>1 DEF IInv, InFlight, Working, CampaignTypeOK
  <1>4. /\ hashes \in Hashes /\ DOMAIN hashes = Present
        /\ \A f \in Present : hashes[f] = results[f] /\ results[f] \in Content
    <2>1. \A f \in Present : f \in Files /\ results[f] \in Content
      BY <1>1 DEF IInv, Stamped, Present
    <2>2. hashes \in [Present -> Content] /\ Present \in SUBSET Files
      BY <2>1
    <2> QED
      BY <2>1, <2>2 DEF Hashes
  <1> HIDE DEF hashes
  <1>5. /\ manifest' \in ManifestRecord
        /\ manifest'.source = env /\ manifest'.commands = commands
        /\ manifest'.hashes = hashes
    BY <1>1, <1>3, <1>4 DEF Manifest, ManifestRecord
  <1>6. CampaignTypeOK'
    <2>1. start' \in Nat \ {0} /\ commands' \in Seq(CommandRecord) /\ pending' \subseteq Files
      BY <1>2
    <2>2. phase' = "idle" /\ unfinished' \in BOOLEAN
      BY <1>1, <1>2
    <2> QED
      BY <1>1, <1>5, <2>1, <2>2 DEF IInv, CampaignTypeOK
  <1>7. ManifestKept'
    BY <1>1, <1>3, <1>5 DEF ManifestKept
  <1>8. FreshKept'
    BY <1>1, <1>3, <1>5 DEF IInv, FreshKept, Working
  <1>9. Hashed'
    <2>1. ASSUME NEW f \in Present \ byHand
          PROVE  HashSound(f)'
      <3>1. f \in Files /\ results[f] \in Content /\ hashes[f] = results[f] /\ results[f] # None
        BY <1>4 DEF Present
      <3>2. Owned(f, results[f])
        BY <3>1, <2>1 DEF IInv, RegimesKept
      <3>3. f \notin Unstamped => results[f].stamp = StampOf(env, f)
        BY <1>1, <3>1 DEF IInv, Stamped
      <3>4. fresh /\ ~edited => results[f].source = env
        BY <1>1, <1>3, <2>1, <3>1 DEF IInv, FreshKept, Working
      <3> QED
        BY <1>1, <1>5, <3>1, <3>2, <3>3, <3>4 DEF HashSound
    <2>2. ASSUME ~edited, NEW k \in DOMAIN commands, commands[k].exit = 0,
                 NEW f \in Writes[env][commands[k].script] \ byHand
          PROVE  f \in Present /\ hashes[f].source = env
      <3>1. commands[k] \in CommandRecord
        BY <1>3
      <3>2. f \in Files
        BY <1>3, <3>1, WrittenIs DEF CommandRecord
      <3>3. results[f] # None /\ (results[f] = Torn \/ results[f].source = env)
        BY <1>3, <2>2 DEF Kept
      <3>4. f \in Present
        BY <3>2, <3>3 DEF Present
      <3> QED
        BY <1>4, <3>3, <3>4, CampaignConstants
    <2>3. ~edited' => HashesComplete'
      BY <1>1, <1>4, <1>5, <2>2 DEF HashesComplete
    <2>4. Present' = Present
      BY <1>1 DEF Present
    <2> QED
      BY <1>1, <1>4, <1>5, <2>1, <2>3, <2>4 DEF Hashed
  <1>10. /\ RegimesKept' /\ TracesRecord' /\ Executing'
         /\ InFlight' /\ FreshStart' /\ Stamped' /\ NoVerdict'
    BY <1>1, <1>2
       DEF IInv, RegimesKept, TracesRecord, Executing, InFlight, Working, FreshStart, Stamped,
           NoVerdict
  <1> QED
    BY <1>6, <1>7, <1>8, <1>9, <1>10 DEF IInv

(* A kill leaves a manifest that cannot be read, or a file that cannot be   *)
(* taken for a result.                                                      *)
LEMMA KillStep == ASSUME IInv, Kill PROVE IInv'
  <1>1. /\ phase # "idle" /\ Exit
        /\ \/ TornManifest
           \/ TornFile /\ UNCHANGED manifest
           \/ UNCHANGED <<manifest, results, byHand>>
        /\ UNCHANGED <<source, fresh, edited, unfinished, adopted, raced>>
    BY DEF Kill
  <1>2. phase' = "idle" /\ start' = 1 /\ commands' = <<>> /\ pending' = {}
    BY <1>1 DEF Exit
  <1>3. Executing' /\ InFlight' /\ FreshStart' /\ Stamped'
    BY <1>2 DEF Executing, InFlight, Working, FreshStart, Stamped
  <1>4. /\ phase' = "idle" /\ start' \in Nat \ {0}
        /\ commands' \in Seq(CommandRecord) /\ pending' \subseteq Files
    BY <1>2
  <1>5. CASE TornManifest
    <2>1. manifest' = Torn /\ UNCHANGED <<results, byHand>>
      BY <1>5 DEF TornManifest
    <2>2. CampaignTypeOK'
      BY <1>1, <1>4, <2>1 DEF IInv, CampaignTypeOK
    <2>3. ~HasManifest' /\ ~Working'
      BY <1>2, <2>1 DEF HasManifest, Working
    <2>4. RegimesKept' /\ TracesRecord'
      BY <1>1, <2>1 DEF IInv, RegimesKept, TracesRecord
    <2> QED
      BY <1>3, <2>2, <2>3, <2>4
         DEF IInv, ManifestKept, FreshKept, Hashed, NoVerdict
  <1>6. CASE TornFile /\ UNCHANGED manifest
    <2>1. /\ results' \in [Files -> {None, Torn} \cup Content]
          /\ RegimesKept' /\ TracesRecord' /\ ManifestKept' /\ FreshKept'
          /\ Hashed' /\ NoVerdict'
      BY <1>1, <1>6, Tears
    <2>2. CampaignTypeOK'
      BY <1>1, <1>4, <1>6, <2>1 DEF IInv, CampaignTypeOK
    <2> QED
      BY <1>3, <2>1, <2>2 DEF IInv
  <1>7. CASE UNCHANGED <<manifest, results, byHand>>
    BY <1>1, <1>7, ExitStep
  <1> QED
    BY <1>1, <1>5, <1>6, <1>7

-----------------------------------------------------------------------------
(* An edit during a campaign is noted; before or after one it changes what  *)
(* can be resumed and verified, and nothing else.                           *)
LEMMA EditStep == ASSUME IInv, Edit PROVE IInv'
  <1>1. /\ source' \in Versions
        /\ edited' = (edited \/ phase \notin {"idle", "begin"})
        /\ touched' = (touched \/ phase = "command")
        /\ UNCHANGED <<results, manifest, phase, start, env, commands, pending, loaded, fresh,
                       unfinished, byHand, adopted, raced>>
    BY DEF Edit
  <1>2. edited' \in BOOLEAN /\ (edited => edited') /\ (Working => edited')
    BY <1>1 DEF Working
  <1>3. phase = "command" => touched' /\ edited'
    BY <1>1
  <1>4. CampaignTypeOK'
    BY <1>1, <1>2 DEF IInv, CampaignTypeOK
  <1>5. InFlight'
    BY <1>1, <1>2 DEF IInv, InFlight, Working
  <1>6. Executing'
    <2>1. Running' = Running
      BY <1>1 DEF Running
    <2> QED
      BY <1>1, <1>3, <2>1 DEF IInv, Executing
  <1>7. ManifestKept' /\ FreshKept'
    BY <1>1, <1>2 DEF IInv, ManifestKept, FreshKept, HasManifest, Working
  <1>8. Hashed'
    BY <1>1, <1>2 DEF IInv, Hashed, HasManifest, HashSound, HashesComplete, Present
  <1> QED
    BY <1>1, <1>4, <1>5, <1>6, <1>7, <1>8
       DEF IInv, RegimesKept, TracesRecord, FreshStart, Stamped, NoVerdict, HasManifest

(* What is run by hand is known to be.                                      *)
LEMMA RunByHandStep == ASSUME IInv, RunByHand PROVE IInv'
  <1>1. PICK s \in Scripts :
          /\ results' = [f \in Files |->
                IF f \in Writes[source][s] THEN Produced(f, source, "incremental")
                ELSE results[f]]
          /\ byHand' = byHand \cup Writes[source][s]
          /\ raced' = raced \ Writes[source][s]
    BY DEF RunByHand
  <1>2. /\ phase = "idle"
        /\ UNCHANGED <<source, manifest, phase, start, env, commands, pending, fresh,
                       edited, unfinished, adopted>>
    BY DEF RunByHand, process
  <1>3. \A f \in Files :
          /\ Produced(f, source, "incremental") \in Content
          /\ Produced(f, source, "incremental").source = source
          /\ f \in FullTraces => Produced(f, source, "incremental").recorded = source
    BY ProducedTyped, RegimesTyped DEF IInv, CampaignTypeOK
  <1>4. results' \in [Files -> {None, Torn} \cup Content]
    BY <1>1, <1>3 DEF IInv, CampaignTypeOK
  <1>5. \A f \in Files \ byHand' : f \notin byHand /\ results'[f] = results[f]
    BY <1>1
  <1>6. CampaignTypeOK'
    BY <1>2, <1>4 DEF IInv, CampaignTypeOK
  <1>7. RegimesKept' /\ FreshKept' /\ TracesRecord'
    <2>1. RegimesKept' /\ FreshKept'
      BY <1>2, <1>5 DEF IInv, RegimesKept, FreshKept, HasManifest, Working
    <2>2. ASSUME NEW f \in (Files \cap FullTraces) \ raced', results'[f] \in Content
          PROVE  results'[f].recorded = results'[f].source
      <3>1. CASE f \in Writes[source][s]
        <4>1. results'[f] = Produced(f, source, "incremental")
          BY <1>1, <3>1
        <4> QED
          BY <1>3, <4>1
      <3>2. CASE f \notin Writes[source][s]
        BY <1>1, <2>2, <3>2 DEF IInv, TracesRecord
      <3> QED
        BY <3>1, <3>2
    <2> QED
      BY <2>1, <2>2 DEF TracesRecord
  <1>8. ManifestKept'
    <2> SUFFICES ASSUME HasManifest, ~edited
                 PROVE  Kept(manifest.commands, manifest.source, results', byHand')
      BY <1>2 DEF ManifestKept, HasManifest
    <2>1. Kept(manifest.commands, manifest.source, results, byHand)
      BY DEF IInv, ManifestKept
    <2>2. manifest.commands \in Seq(CommandRecord) /\ manifest.source \in Versions
      BY DEF IInv, CampaignTypeOK, HasManifest, ManifestRecord
    <2> QED
      BY <1>5, <2>1, <2>2, KeptStable
  <1>9. Hashed'
    <2>1. Present' \ byHand' \subseteq Present \ byHand
      BY <1>5 DEF Present
    <2> QED
      BY <1>2, <2>1 DEF IInv, Hashed, HasManifest, HashSound, HashesComplete
  <1>10. Executing' /\ InFlight' /\ FreshStart' /\ Stamped' /\ NoVerdict'
    BY <1>2 DEF IInv, Executing, InFlight, Working, FreshStart, Stamped, NoVerdict, HasManifest
  <1> QED
    BY <1>6, <1>7, <1>8, <1>9, <1>10 DEF IInv

-----------------------------------------------------------------------------
(* A campaign that has not begun satisfies the invariant.                   *)
LEMMA Initially == ASSUME Init PROVE IInv
  <1>1. CampaignTypeOK
    <2>1. results \in [Files -> {None, Torn} \cup Content]
      BY DEF Init
    <2>2. commands \in Seq(CommandRecord) /\ start \in Nat \ {0} /\ pending \subseteq Files
      BY DEF Init
    <2> QED
      BY <2>1, <2>2 DEF Init, CampaignTypeOK
  <1>2. RegimesKept /\ TracesRecord
    BY CampaignConstants DEF Init, RegimesKept, TracesRecord
  <1> QED
    BY <1>1, <1>2 DEF Init, IInv, Executing, InFlight, Working, ManifestKept, HasManifest, FreshStart,
                      FreshKept, Stamped, Hashed, NoVerdict

(* Every step of a campaign keeps the invariant.                            *)
LEMMA Inductive == ASSUME IInv, [Next]_vars PROVE IInv'
  <1>1. CASE Backup
    BY <1>1, BackupStep
  <1>2. CASE Invoke
    BY <1>2, InvokeStep
  <1>3. CASE Begin
    BY <1>3, BeginStep
  <1>4. CASE Refuse \/ StampRaises
    BY <1>4, RefuseStep
  <1>5. CASE LoadCommand \/ WriteResult \/ EndCommand
    BY <1>5, LoadCommandStep, WriteResultStep, EndCommandStep
  <1>6. CASE RecordCommand
    BY <1>6, RecordCommandStep
  <1>7. CASE FinishCommands
    BY <1>7, FinishCommandsStep
  <1>8. CASE StampFile
    BY <1>8, StampFileStep
  <1>9. CASE Finish
    BY <1>9, FinishStep
  <1>10. CASE Kill
    BY <1>10, KillStep
  <1>11. CASE Edit
    BY <1>11, EditStep
  <1>12. CASE RunByHand
    BY <1>12, RunByHandStep
  <1>13. CASE UNCHANGED vars
    <2>1. UNCHANGED <<source, results, manifest, phase, start, env, commands, pending, loaded,
                      touched, fresh, edited, unfinished, byHand, adopted, raced>>
      BY <1>13 DEF vars, files, process, history
    <2>2. CampaignTypeOK'
      BY <2>1 DEF IInv, CampaignTypeOK
    <2>3. Hashed'
      BY <2>1 DEF IInv, Hashed, HasManifest, HashSound, HashesComplete, Present
    <2>4. Executing'
      BY <2>1 DEF IInv, Executing, Running
    <2> QED
      BY <2>1, <2>2, <2>3, <2>4
         DEF IInv, RegimesKept, TracesRecord, InFlight, Working, ManifestKept, HasManifest, FreshStart,
             FreshKept, Stamped, NoVerdict
  <1> QED
    BY <1>1, <1>2, <1>3, <1>4, <1>5, <1>6, <1>7, <1>8, <1>9, <1>10, <1>11, <1>12, <1>13
       DEF Next

(* The invariant holds throughout a campaign.                               *)
LEMMA Invariance == Spec => []IInv
  BY Initially, Inductive, PTL DEF Spec

-----------------------------------------------------------------------------
(* A file that verifies, has a hash no run by hand was adopted for and is   *)
(* of the source at hand, is genuine.                                       *)
LEMMA VerifiedFile ==
    ASSUME IInv, Verifies, NEW f \in DOMAIN manifest.hashes \ adopted
    PROVE  /\ f \in Files /\ results[f] \in Content /\ results[f] = manifest.hashes[f]
           /\ results[f].source = source => Genuine(f)
           /\ fresh /\ ~edited => results[f].source = source
  <1>1. /\ HasManifest /\ manifest.hashes # None
        /\ manifest.source = source /\ source \in Versions
        /\ results[f] = manifest.hashes[f]
    BY DEF Verifies, HasManifest, HashesMatch, Fingerprint, IInv, CampaignTypeOK
  <1>2. HashSound(f)
    BY <1>1 DEF IInv, Hashed
  <1>3. manifest \in ManifestRecord
    BY <1>1 DEF IInv, CampaignTypeOK, HasManifest
  <1>4. manifest.hashes \in Hashes
    BY <1>1, <1>3 DEF ManifestRecord
  <1>5. f \in Files /\ manifest.hashes[f] \in Content
    BY <1>4 DEF Hashes
  <1>6. ASSUME results[f].source = source
        PROVE  Genuine(f)
    <2>1. PICK s \in Scripts : f \in Writes[source][s] /\ results[f].regime = Regime[s]
      BY <1>1, <1>2, <1>6 DEF HashSound, Owned
    <2>2. f \notin Unstamped => NameRegime[f] = Regime[s]
      BY <1>1, <2>1, WrittenIs
    <2>3. f \notin Unstamped => results[f].stamp = StampOf(source, f)
      BY <1>1, <1>2 DEF HashSound
    <2> QED
      BY <1>1, <1>5, <1>6, <2>1, <2>2, <2>3 DEF Genuine, StampOf
  <1>7. fresh /\ ~edited => results[f].source = source
    BY <1>1, <1>2 DEF HashSound
  <1> QED
    BY <1>1, <1>5, <1>6, <1>7

(* Where results verify, what the verification vouches for was produced by  *)
(* the source at hand, under the regime its stamp states: every file it     *)
(* writes, but for those run by hand before the campaign hashed them; after *)
(* an edit during the campaign, the full traces written by commands that    *)
(* saw none before they wrote them.                                         *)
THEOREM VerifiedAreGenuine == Spec => []VerifiedIsGenuine
  <1>1. ASSUME IInv, Verifies, NEW s \in Scripts, NEW f \in Writes[source][s] \ adopted,
               Vouched(f)
        PROVE  Genuine(f)
    <2>1. /\ HasManifest /\ manifest.hashes # None
          /\ manifest.source = source /\ source \in Versions
      BY <1>1 DEF Verifies, HasManifest, HashesMatch, Fingerprint, IInv, CampaignTypeOK
    <2>2. f \in Files
      BY <1>1, <2>1, WrittenIs
    <2>3. PICK k \in DOMAIN Commands : Commands[k] = s
      BY DEF Scripts
    <2>4. /\ k \in DOMAIN manifest.commands
          /\ manifest.commands[k].exit = 0 /\ manifest.commands[k].script = s
      BY <1>1, <2>3 DEF Verifies
    <2>5. CASE ~edited
      <3>1. HashesComplete
        BY <1>1, <2>1, <2>5 DEF IInv, Hashed
      <3>2. f \in DOMAIN manifest.hashes /\ manifest.hashes[f].source = source
        BY <1>1, <2>1, <2>4, <3>1 DEF HashesComplete
      <3> QED
        BY <1>1, <3>2, VerifiedFile
    <2>6. CASE f \in FullTraces \ raced /\ f \in RequiredTraces \cup Present
      <3>1. f \in DOMAIN manifest.hashes
        BY <1>1, <2>6 DEF Verifies, TracesCurrent
      <3>2. results[f] \in Content
        BY <1>1, <3>1, VerifiedFile
      <3>3. f \in Present
        BY <2>2, <3>2, CampaignConstants DEF Present
      <3>4. results[f].recorded = source
        BY <1>1, <2>6, <3>3 DEF Verifies, TracesCurrent, Fingerprint
      <3>5. results[f].source = source
        BY <1>1, <2>2, <2>6, <3>2, <3>4 DEF IInv, TracesRecord
      <3> QED
        BY <1>1, <3>1, <3>5, VerifiedFile
    <2> QED
      BY <1>1, <2>5, <2>6 DEF Vouched
  <1>2. IInv => VerifiedIsGenuine
    BY <1>1 DEF VerifiedIsGenuine
  <1> QED
    BY <1>2, Invariance, PTL

(* After --fresh, without an edit in between, that is true of every file    *)
(* with a hash, whichever sources once wrote files of that name, and        *)
(* whether it is stamped, compared with the source or neither.              *)
THEOREM FreshLeavesNothing == Spec => []NothingLeftBehind
  <1>1. ASSUME IInv, Verifies, fresh, ~edited, NEW f \in Present \ adopted
        PROVE  Genuine(f) \/ f \in byHand \ DOMAIN manifest.hashes
    <2>1. CASE f \in DOMAIN manifest.hashes
      BY <1>1, <2>1, VerifiedFile
    <2>2. CASE f \notin DOMAIN manifest.hashes
      <3>1. HasManifest /\ manifest.hashes # None
        BY <1>1 DEF Verifies, HasManifest, HashesMatch
      <3> QED
        BY <1>1, <2>2, <3>1 DEF IInv, Hashed
    <2> QED
      BY <2>1, <2>2
  <1>2. IInv => NothingLeftBehind
    BY <1>1 DEF NothingLeftBehind
  <1> QED
    BY <1>2, Invariance, PTL

(* A campaign that has not finished is no evidence, wherever it stopped.    *)
THEOREM UnfinishedNeverVerifies == Spec => []UnfinishedIsNoEvidence
  <1>1. IInv => UnfinishedIsNoEvidence
    BY DEF IInv, NoVerdict, HasManifest, UnfinishedIsNoEvidence, Verifies
  <1> QED
    BY <1>1, Invariance, PTL
=============================================================================
