------------------------------- MODULE Campaign -------------------------------
(***************************************************************************)
(* The evidence campaign: scripts/regenerate.py runs every experiment in   *)
(* order, stamps and hashes their result files and keeps a manifest from   *)
(* which it can resume; scripts/verify_results.py decides from the files   *)
(* and the source at hand whether they are evidence.                       *)
(*                                                                         *)
(* Around them the source is edited, experiments are run by hand, commands *)
(* fail, and the campaign is killed between any two of its writes or in    *)
(* the middle of one.  A version of the source stands for the fingerprint  *)
(* _environment() takes of it.  A file's content is the source its command *)
(* had loaded, the source it records, as full traces do, the regime, and   *)
(* the stamp the campaign put on it.  That the verification also compares  *)
(* the rules a full trace embeds is left out: it only refuses more.        *)
(***************************************************************************)
EXTENDS Naturals, Sequences, FiniteSets

CONSTANTS Versions,         \* the sources the working tree may hold
          Commands,         \* CORRECTNESS and SCALING: the scripts in their order
          Regime,           \* the regime the campaign runs each script with
          Writes,           \* the files each script writes, by version and script
          RequiredTraces,   \* the traces the verification asks for by name
          FullTraces,       \* the files with enabled actions in results/hvac/traces
          OtherTraces,      \* the other files in a directory named traces
          NameRegime,       \* the regime a report's stamp states, which goes by its name
          None,             \* no file
          Torn,             \* a file cut off in the middle of a write
          MaxStarts, MaxEdits, MaxManual    \* bounds: invocations, edits, runs by hand

Scripts == {Commands[k] : k \in DOMAIN Commands}
Files == UNION {Writes[v][s] : v \in Versions, s \in Scripts}

(* The loop that stamps skips every directory named traces, the check of    *)
(* the recorded source all but the full traces of the building.             *)
Unstamped == FullTraces \cup OtherTraces

Regimes == {Regime[s] : s \in Scripts} \cup {"incremental"}
Stamps == [source : Versions, regime : Regimes]
Content == [source : Versions, recorded : {None} \cup Versions, regime : Regimes,
            stamp : {None} \cup Stamps]

(* The scripts of the scaling experiments, and no others, write the reports *)
(* whose names begin with experiment_scalability.                           *)
ASSUME CampaignConstants ==
    /\ Commands \in Seq(Scripts)
    /\ RequiredTraces \subseteq FullTraces /\ FullTraces \cap OtherTraces = {}
    /\ \A v \in Versions, s \in Scripts :
         \A f \in Writes[v][s] \ Unstamped : NameRegime[f] = Regime[s]
    /\ None # Torn /\ None \notin Content /\ Torn \notin Content

VARIABLES source,       \* the working tree
          results,      \* results/: the content of each file
          manifest,     \* results/regeneration.json
          phase,        \* idle, begin, run, command, record, stamp
          start,        \* --start-at: the first command to run
          env,          \* env_info
          commands,     \* manifest["commands"] in memory
          pending,      \* the files a command, or the loop that stamps, has yet to write
          loaded,       \* the source the running command loaded its modules from
          touched,      \* history: the source was edited since it loaded them
          fresh,        \* history: the campaign of this manifest began with --fresh
          edited,       \* history: the source was edited while it ran
          unfinished,   \* history: a campaign has begun and not finished
          byHand,       \* history: files last written by a run by hand
          adopted,      \* history: those of them that a campaign hashed
          raced,        \* history: files last written by a command after such an edit
          used          \* how much of each bound is used

files == <<source, results, manifest>>
process == <<phase, start, env, commands, pending, loaded, touched>>
history == <<fresh, edited, unfinished, byHand, adopted, raced>>
vars == <<files, process, history, used>>

Init ==
    /\ source \in Versions
    /\ results = [f \in Files |-> None] /\ manifest = None
    /\ phase = "idle" /\ start = 1 /\ env = None /\ commands = <<>>
    /\ pending = {} /\ loaded = None /\ touched = FALSE
    /\ fresh = FALSE /\ edited = FALSE /\ unfinished = FALSE
    /\ byHand = {} /\ adopted = {} /\ raced = {}
    /\ used = [starts |-> 0, edits |-> 0, manual |-> 0]

Manifest(v, cs, pass, hashes) ==
    [source |-> v, commands |-> cs, pass |-> pass, hashes |-> hashes]

Use(what, bound) == used[what] < bound /\ used' = [used EXCEPT ![what] = @ + 1]

(* _environment(): the version of the source stands for its fingerprint. *)
Fingerprint == source

Present == {f \in Files : results[f] # None}

-----------------------------------------------------------------------------
(* The campaign. *)

(* Mutant: earlier results are left where they are. *)
BackupKeeps ==
    /\ phase = "idle" /\ Use("starts", MaxStarts)
    /\ manifest' = None
    /\ phase' = "begin" /\ start' = 1 /\ fresh' = TRUE
    /\ UNCHANGED <<source, results, env, commands, pending, loaded, touched,
                   edited, unfinished, byHand, adopted, raced>>

(* --fresh: the directory is renamed before anything else happens. *)
Backup ==
    /\ phase = "idle" /\ Use("starts", MaxStarts)
    /\ results' = [f \in Files |-> None] /\ manifest' = None
    /\ phase' = "begin" /\ start' = 1 /\ fresh' = TRUE /\ byHand' = {} /\ raced' = {}
    /\ UNCHANGED <<source, env, commands, pending, loaded, touched, edited, unfinished, adopted>>

(* The process ends, and its locals and its command with it. *)
Exit ==
    /\ phase' = "idle"
    /\ start' = 1 /\ env' = None /\ commands' = <<>>
    /\ pending' = {} /\ loaded' = None /\ touched' = FALSE

(* Without --fresh, from the first command or from a later one. *)
Invoke ==
    /\ phase = "idle" /\ Use("starts", MaxStarts)
    /\ phase' = "begin"
    /\ start' \in DOMAIN Commands
    /\ fresh' = (fresh /\ start' > 1)
    /\ UNCHANGED <<files, env, commands, pending, loaded, touched,
                   edited, unfinished, byHand, adopted, raced>>

Prefix == SubSeq(manifest.commands, 1, start - 1)

AllPassed(cs) == \A k \in DOMAIN cs : cs[k].exit = 0

(* Mutant: a campaign resumes whatever the source is now. *)
ResumableAnySource ==
    /\ manifest \notin {None, Torn}
    /\ Len(manifest.commands) >= start - 1 /\ AllPassed(Prefix)

Resumable ==
    /\ manifest \notin {None, Torn}
    /\ manifest.source = Fingerprint
    /\ Len(manifest.commands) >= start - 1 /\ AllPassed(Prefix)

Earlier == IF start = 1 THEN <<>> ELSE Prefix

StartManifest == Manifest(Fingerprint, Earlier, FALSE, None)

Begin ==
    /\ phase = "begin" /\ (start = 1 \/ Resumable)
    /\ env' = Fingerprint /\ commands' = Earlier
    /\ manifest' = StartManifest
    /\ phase' = "run"
    /\ edited' = (edited /\ start > 1)
    /\ unfinished' = TRUE
    /\ UNCHANGED <<source, results, start, pending, loaded, touched,
                   fresh, byHand, adopted, raced, used>>

Refuse ==
    /\ phase = "begin" /\ start > 1 /\ ~Resumable
    /\ Exit
    /\ UNCHANGED <<files, history, used>>

Running == Commands[Len(commands) + 1]

(* What a script that loaded version v writes; the fingerprint in a full    *)
(* trace is taken when the trace is built.                                  *)
Produced(f, v, regime) ==
    [source |-> v, recorded |-> IF f \in FullTraces THEN Fingerprint ELSE None,
     regime |-> regime, stamp |-> None]

LoadCommand ==
    /\ phase = "run" /\ Len(commands) < Len(Commands)
    /\ phase' = "command"
    /\ loaded' = source /\ touched' = FALSE
    /\ pending' = Writes[source][Running]
    /\ UNCHANGED <<files, start, env, commands, history, used>>

WriteResult ==
    /\ phase = "command"
    /\ \E f \in pending :
         /\ pending' = pending \ {f}
         /\ results' = [results EXCEPT ![f] = Produced(f, loaded, Regime[Running])]
         /\ byHand' = byHand \ {f}
         /\ raced' = IF touched THEN raced \cup {f} ELSE raced \ {f}
    /\ UNCHANGED <<source, manifest, phase, start, env, commands, loaded, touched,
                   fresh, edited, unfinished, adopted, used>>

(* The file being written when a process ends is cut off. *)
TornFile ==
    /\ phase \in {"command", "stamp"}
    /\ \E f \in pending :
         /\ results' = [results EXCEPT ![f] = Torn]
         /\ byHand' = byHand \ {f}

(* A command that passes has written its files; one that fails may have     *)
(* written any of them, the last in part.                                   *)
EndCommand ==
    /\ phase = "command"
    /\ \E exit \in {0, 1} :
         /\ commands' = Append(commands, [script |-> Running, regime |-> Regime[Running],
                                          exit |-> exit])
         /\ \/ (exit = 0 => pending = {}) /\ UNCHANGED <<results, byHand>>
            \/ exit = 1 /\ TornFile
    /\ phase' = "record" /\ pending' = {} /\ loaded' = None /\ touched' = FALSE
    /\ UNCHANGED <<source, manifest, start, env, fresh, edited, unfinished, adopted, raced, used>>

(* The manifest is written after every command; a failure ends the run. *)
RecordCommand ==
    /\ phase = "record"
    /\ manifest' = Manifest(env, commands, FALSE, None)
    /\ \/ /\ AllPassed(commands)
          /\ phase' = "run"
          /\ UNCHANGED <<start, env, commands, pending, loaded, touched>>
       \/ ~AllPassed(commands) /\ Exit
    /\ UNCHANGED <<source, results, history, used>>

(* Mutant: the verdict is written before the files are stamped. *)
FinishCommandsPassed ==
    /\ phase = "run" /\ Len(commands) = Len(Commands)
    /\ phase' = "stamp" /\ pending' = Present
    /\ manifest' = Manifest(env, commands, TRUE, [f \in Present |-> results[f]])
    /\ UNCHANGED <<source, results, start, env, commands, loaded, touched, history, used>>

FinishCommands ==
    /\ phase = "run" /\ Len(commands) = Len(Commands)
    /\ phase' = "stamp" /\ pending' = Present
    /\ UNCHANGED <<files, start, env, commands, loaded, touched, history, used>>

(* The stamp's regime goes by the file's name, as the campaign's by the     *)
(* script's.  A trace is at most written again with its paths made portable. *)
StampFile ==
    /\ phase = "stamp"
    /\ \E f \in pending :
         /\ results[f] # Torn
         /\ pending' = pending \ {f}
         /\ results' = IF f \in Unstamped THEN results
                       ELSE [results EXCEPT ![f].stamp =
                                [source |-> env, regime |-> NameRegime[f]]]
    /\ UNCHANGED <<source, manifest, phase, start, env, commands, loaded, touched, history, used>>

(* A torn file is not JSON: the loop raises. *)
StampRaises ==
    /\ phase = "stamp" /\ \E f \in pending : results[f] = Torn
    /\ Exit
    /\ UNCHANGED <<files, history, used>>

Finish ==
    /\ phase = "stamp" /\ pending = {}
    /\ manifest' = Manifest(env, commands, TRUE, [f \in Present |-> results[f]])
    /\ Exit
    /\ unfinished' = FALSE
    /\ adopted' = byHand
    /\ UNCHANGED <<source, results, fresh, edited, byHand, raced, used>>

-----------------------------------------------------------------------------
(* The environment. *)

(* What a kill can tear: the file being written when it comes. *)
TornManifest ==
    /\ \/ phase = "begin" /\ (start = 1 \/ Resumable)
       \/ phase = "record"
       \/ phase = "stamp" /\ pending = {}
    /\ manifest' = Torn
    /\ UNCHANGED <<results, byHand>>

Kill ==
    /\ phase # "idle"
    /\ Exit
    /\ \/ TornManifest
       \/ TornFile /\ UNCHANGED manifest
       \/ UNCHANGED <<manifest, results, byHand>>
    /\ UNCHANGED <<source, fresh, edited, unfinished, adopted, raced, used>>

(* An edit falls between two steps of the campaign or of its command.       *)
Edit ==
    /\ Use("edits", MaxEdits)
    /\ source' \in Versions \ {source}
    /\ edited' = (edited \/ phase \notin {"idle", "begin"})
    /\ touched' = (touched \/ phase = "command")
    /\ UNCHANGED <<results, manifest, phase, start, env, commands, pending, loaded,
                   fresh, unfinished, byHand, adopted, raced>>

(* An experiment run by hand has the default regime and no stamp; nobody    *)
(* edits the source while it runs.                                          *)
RunByHand ==
    /\ phase = "idle" /\ Use("manual", MaxManual)
    /\ \E s \in Scripts :
         LET written == Writes[source][s] IN
         /\ results' = [f \in Files |->
                IF f \in written THEN Produced(f, source, "incremental") ELSE results[f]]
         /\ byHand' = byHand \cup written
         /\ raced' = raced \ written
    /\ UNCHANGED <<source, manifest, process, fresh, edited, unfinished, adopted>>

Next ==
    \/ Backup \/ Invoke \/ Begin \/ Refuse
    \/ LoadCommand \/ WriteResult \/ EndCommand \/ RecordCommand
    \/ FinishCommands \/ StampFile \/ StampRaises \/ Finish
    \/ Kill \/ Edit \/ RunByHand

Spec == Init /\ [][Next]_vars

-----------------------------------------------------------------------------
(* verify_campaign, with the fingerprint of the source at hand: it changes  *)
(* nothing, so it is a predicate.                                           *)
HashesMatch ==
    /\ manifest.hashes # None
    /\ \A f \in DOMAIN manifest.hashes : results[f] = manifest.hashes[f]

TracesCurrent ==
    /\ RequiredTraces \subseteq DOMAIN manifest.hashes
    /\ \A f \in FullTraces \cap Present :
         /\ results[f] # Torn /\ results[f].recorded = Fingerprint
         /\ f \in DOMAIN manifest.hashes

Verifies ==
    /\ manifest \notin {None, Torn}
    /\ manifest.pass
    /\ manifest.commands = [k \in DOMAIN Commands |->
          [script |-> Commands[k], regime |-> Regime[Commands[k]], exit |-> 0]]
    /\ manifest.source = Fingerprint
    /\ HashesMatch
    /\ TracesCurrent

-----------------------------------------------------------------------------
(* Properties. *)

(* The source at hand produced the file, under the regime of one of the     *)
(* scripts that write it, and a report is stamped accordingly.              *)
Genuine(f) ==
    /\ results[f] \in Content
    /\ results[f].source = source
    /\ \E s \in Scripts : f \in Writes[source][s] /\ results[f].regime = Regime[s]
    /\ f \notin Unstamped =>
         results[f].stamp = [source |-> source, regime |-> results[f].regime]

(* The files the verification vouches for: all, unless the source was       *)
(* edited while the campaign ran; then those full traces it finds or asks   *)
(* for whose own command saw no edit before it wrote them.                  *)
Vouched(f) ==
    \/ ~edited
    \/ f \in FullTraces \ raced /\ f \in RequiredTraces \cup Present

(* Where results verify, each file the source at hand writes was produced   *)
(* by it, under the regime its stamp states, however often the campaign     *)
(* failed, was killed and resumed, and whichever of its scripts wrote the   *)
(* file last.  Not covered are files run by hand before the campaign hashed *)
(* them; where the source was edited while the campaign ran, the reports    *)
(* and the traces that are neither stamped nor compared with the source;    *)
(* and full traces written after an edit during their own command, which    *)
(* record the source that was there when they were built, not the one       *)
(* their command had loaded.                                                *)
VerifiedIsGenuine ==
    Verifies =>
        \A s \in Scripts : \A f \in Writes[source][s] \ adopted : Vouched(f) => Genuine(f)

(* After --fresh, where no edit fell into the campaign, that is true of     *)
(* every result file, also of those that other sources write and this one   *)
(* does not, and of the traces that are neither stamped nor compared with   *)
(* the source: nothing an earlier campaign left behind is hashed.  The      *)
(* verification does not ask about a file it has no hash of, unless it is   *)
(* a full trace; one can only have been put there by a run by hand since.   *)
NothingLeftBehind ==
    Verifies /\ fresh /\ ~edited =>
        \A f \in Present \ adopted : Genuine(f) \/ f \in byHand \ DOMAIN manifest.hashes

(* From its start to its end, and after a kill or a failure, a campaign is  *)
(* no evidence, though the manifest it resumes from may have been.          *)
UnfinishedIsNoEvidence == unfinished => ~Verifies
=============================================================================
