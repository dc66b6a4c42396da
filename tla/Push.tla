-------------------------------- MODULE Push --------------------------------
(***************************************************************************)
(* push.ps1 on the workstation sends a script over the serial line to      *)
(* pollSerialRepl() on the board, which collects the lines, writes the     *)
(* file and reports; the workstation then has the board evaluate a line    *)
(* of JavaScript that reads the file back with fs.read() and compares.     *)
(*                                                                         *)
(* The line loses and garbles; the board may run out of memory, out of     *)
(* card or lose power at any step; the running app uses the same files;    *)
(* the person at the workstation may interrupt the push, start another,    *)
(* or type commands of their own.  A fault of any kind counts in faults.   *)
(*                                                                         *)
(* While SlowBoard is FALSE the pauses of push.ps1 are long enough: the    *)
(* board has read every line sent before a push starts, before the file is *)
(* asked for and before the workstation gives up waiting.                  *)
(***************************************************************************)
EXTENDS Storage

CONSTANTS
  MaxUpload,    \* kMaxUpload
  Scripts,      \* the texts that are pushed
  SlowBoard,    \* the board may take longer than push.ps1 waits
  MaxPushes,    \* bound: pushes and commands of the person
  MaxFaults     \* bound: faults of the line, the board or the person

Say(kind, path) == [kind |-> kind, path |-> path]
Commands == {"app-begin", "rm", "check"}
Lines == [kind: {"code", "other", "junk", "app-end"} \cup Commands, path: Path]

ASSUME PushAssumption ==
  /\ Line = Lines
  /\ MaxUpload \in Nat /\ MaxUpload <= MaxScript + LineLen
  /\ Scripts \subseteq Text
  /\ SlowBoard \in BOOLEAN
  /\ MaxPushes \in Nat /\ MaxFaults \in Nat

VARIABLES
  wire,        \* lines sent that the board has not read
  replies,     \* texts of the SUM replies the workstation has not read
  uploading,   \* the statics of pollSerialRepl()
  upload,
  uploadPath,
  report,      \* what the board last printed about an upload
  at,          \* where push.ps1 is
  job,         \* what it was started with
  sent,        \* lines of the script it has sent
  verdict,     \* what it came to
  pushes, faults,
  received,    \* history: the lines that arrived since app-begin
  held,        \* history: since the file was asked for, starting the app
               \* would at some moment have run the text that was pushed
  whole,       \* history: the line app-end of this push went out intact
  smooth       \* history: nothing went wrong since this push began

hostVars == <<at, job, sent, verdict, pushes>>
boardVars == <<uploading, upload, uploadPath, report, received>>
lineVars == <<wire, replies>>
historyVars == <<whole, smooth>>
vars == <<storageVars, hostVars, boardVars, lineVars, faults, held, historyVars>>

TypeOK ==
  /\ StorageTypeOK
  /\ wire \in Seq(Line) /\ replies \in Seq(Text)
  /\ uploading \in BOOLEAN /\ uploadPath \in Path
  /\ upload \in Text /\ received \in Text
  /\ report \in {"none", "wrote", "FAILED", "aborted"}
  /\ at \in {"idle", "sending", "ended", "checking"}
  /\ job \in [path: Path, text: Text]
  /\ sent \in Nat
  /\ verdict \in {"none", "verified", "mismatch", "unread"}
  /\ pushes \in 0..MaxPushes /\ faults \in 0..MaxFaults
  /\ held \in BOOLEAN /\ whole \in BOOLEAN /\ smooth \in BOOLEAN

Init ==
  /\ StorageInit
  /\ wire = << >> /\ replies = << >>
  /\ uploading = FALSE /\ upload = << >> /\ received = << >> /\ report = "none"
  /\ at = "idle" /\ sent = 0 /\ verdict = "none"
  /\ job \in [path: Path, text: Scripts]
  /\ uploadPath = job.path
  /\ pushes = 0 /\ faults = 0
  /\ held = FALSE /\ whole = FALSE /\ smooth = FALSE

\* Something goes wrong.
Fault ==
  /\ faults < MaxFaults
  /\ faults' = faults + 1
  /\ smooth' = FALSE

Junk == Say("junk", job.path)

\* A line on its way to the board: it arrives, or it is lost, or some of its
\* characters are.
Transmit(line) ==
  \/ wire' = Append(wire, line) /\ UNCHANGED <<faults, smooth>>
  \/ Fault /\ wire' \in {wire, Append(wire, Junk)}

\* push.ps1 pauses here: unless the board is slow it has caught up.
Pause == SlowBoard \/ wire = << >>

-----------------------------------------------------------------------------
(* The board: one line of pollSerialRepl().                                *)

Took == wire # << >> /\ wire' = Tail(wire)
line == Head(wire)

\* Mutant of Overflows: at the cap is past the cap.
OverflowsAtCap == Size(upload) + LineLen >= MaxUpload

\* The cap is looked at before the line is, so app-end counts as well.
Overflows == Size(upload) + LineLen > MaxUpload

StopsUploading ==
  /\ uploading' = FALSE
  /\ upload' = << >> /\ received' = << >>
  /\ UNCHANGED uploadPath

\* Mutant of LineRefused: the line is dropped and the upload goes on.
LineDropped ==
  /\ Took /\ Fault
  /\ received' = IF uploading THEN Append(received, line) ELSE received
  /\ UNCHANGED <<uploading, upload, uploadPath, report>>
  /\ UNCHANGED <<storageVars, hostVars, replies, whole>>

\* line_lost, or the upload that will not grow: the line was too long or there
\* was no memory for it.  It ends an upload; a command is merely ignored.
LineRefused ==
  /\ Took /\ Fault
  /\ IF uploading THEN StopsUploading /\ report' = "aborted"
     ELSE UNCHANGED boardVars
  /\ UNCHANGED <<storageVars, hostVars, replies, whole>>

UploadOverflows ==
  /\ Took /\ uploading /\ Overflows
  /\ StopsUploading
  /\ report' = "aborted"
  /\ UNCHANGED <<storageVars, hostVars, replies, faults, historyVars>>

\* Mutant of UploadEnds: app-end is looked at before the cap.
UploadEndsUncapped ==
  /\ Took /\ uploading
  /\ line.kind = "app-end"
  /\ StopsUploading
  /\ \/ /\ WriteScript(uploadPath, upload)
        /\ report' = "wrote"
        /\ UNCHANGED <<faults, smooth>>
     \/ /\ WriteScriptFails(uploadPath)
        /\ report' = "FAILED"
        /\ IF Reachable(uploadPath) THEN Fault ELSE UNCHANGED <<faults, smooth>>
  /\ UNCHANGED <<hostVars, replies, whole>>

UploadEnds ==
  /\ Took /\ uploading /\ ~Overflows
  /\ line.kind = "app-end"
  /\ StopsUploading
  /\ \/ /\ WriteScript(uploadPath, upload)
        /\ report' = "wrote"
        /\ UNCHANGED <<faults, smooth>>
     \/ /\ WriteScriptFails(uploadPath)
        /\ report' = "FAILED"
        /\ IF Reachable(uploadPath) THEN Fault ELSE UNCHANGED <<faults, smooth>>
  /\ UNCHANGED <<hostVars, replies, whole>>

UploadGrows ==
  /\ Took /\ uploading /\ ~Overflows
  /\ line.kind # "app-end"
  /\ upload' = Append(upload, line)
  /\ received' = Append(received, line)
  /\ UNCHANGED <<storageVars, hostVars, uploading, uploadPath, report, replies,
                 faults, historyVars>>

UploadBegins ==
  /\ Took /\ ~uploading
  /\ line.kind = "app-begin"
  /\ uploading' = TRUE
  /\ upload' = << >> /\ received' = << >>
  /\ uploadPath' = line.path
  /\ UNCHANGED <<storageVars, hostVars, report, replies, faults, historyVars>>

CommandRm ==
  /\ Took /\ ~uploading
  /\ line.kind = "rm"
  /\ \/ Removes(line.path)
     \/ ~Reachable(line.path) /\ UNCHANGED storageVars
  /\ UNCHANGED <<hostVars, boardVars, replies, faults, historyVars>>

\* Mutant of CommandCheck: a file that is not there is answered for.
CommandCheckNull ==
  /\ Took /\ ~uploading
  /\ line.kind = "check"
  /\ replies' = Append(replies, FsRead(line.path))
  /\ UNCHANGED <<storageVars, hostVars, boardVars, faults, historyVars>>

\* The line push.ps1 reads the file back with: there is a SUM in the answer
\* only if fs.read() returned a text.
CommandCheck ==
  /\ Took /\ ~uploading
  /\ line.kind = "check"
  /\ replies' = IF FsRead(line.path) = NoText THEN replies
                ELSE Append(replies, FsRead(line.path))
  /\ UNCHANGED <<storageVars, hostVars, boardVars, faults, historyVars>>

\* Anything else goes to the running app, the lines of a script whose upload
\* was aborted among them; what it does to the files is what scripts do.
CommandOther ==
  /\ Took /\ ~uploading
  /\ line.kind \notin Commands
  /\ UNCHANGED <<storageVars, hostVars, boardVars, replies, faults, historyVars>>

-----------------------------------------------------------------------------
(* The running app, and the power.                                         *)

\* A push during which the app touched the file pushed is not a smooth one.
ScriptRuns ==
  /\ \E p \in Path :
       /\ \/ \E t \in ScriptTexts : \/ ScriptWrites(p, t)
                                    \/ ScriptAppends(p, t)
          \/ Removes(p)
          \/ ScriptMakesFolder(p)
       /\ smooth' = (smooth /\ p.name # job.path.name)
  /\ UNCHANGED <<hostVars, boardVars, lineVars, faults, whole>>

\* The upload and the lines on their way are gone.  If it was writing the file
\* then any part of it may have been written.
PowerCycle ==
  /\ Fault
  /\ IF uploading /\ wire # << >> /\ Head(wire).kind = "app-end" /\ ~Overflows
     THEN StorageRestarts(uploadPath, upload)
     ELSE UNCHANGED <<files, folders>> /\ mounted' \in Mounts
  /\ StopsUploading
  /\ report' = "none"
  /\ wire' = << >> /\ replies' = << >>
  /\ UNCHANGED <<hostVars, whole>>

-----------------------------------------------------------------------------
(* The workstation.                                                        *)

\* A script that fits the board and can be told from its end.
Suitable(p, t) ==
  /\ Reachable(p)
  /\ Size(t) + LineLen <= MaxUpload /\ Size(t) <= MaxRead
  /\ \A i \in DOMAIN t : t[i].kind # "app-end"

\* push.ps1 opens the port, throws away what was in it, and sends app-begin.
PushStarts ==
  /\ at = "idle" /\ Pause
  /\ pushes < MaxPushes
  /\ pushes' = pushes + 1
  /\ at' = "sending" /\ sent' = 0 /\ verdict' = "none"
  /\ replies' = << >>
  /\ job' \in [path: Path, text: Scripts]
  /\ whole' = FALSE
  /\ LET begin == Say("app-begin", job'.path)
     IN  \/ /\ wire' = Append(wire, begin)
            /\ smooth' = (wire = << >> /\ ~uploading /\ Suitable(job'.path, job'.text))
            /\ UNCHANGED faults
         \/ Fault /\ wire' \in {wire, Append(wire, Junk)}
  /\ UNCHANGED <<storageVars, boardVars>>

SendsLine ==
  /\ at = "sending" /\ sent < Len(job.text)
  /\ sent' = sent + 1
  /\ Transmit(job.text[sent + 1])
  /\ UNCHANGED <<storageVars, boardVars, replies, at, job, verdict, pushes, whole>>

SendsEnd ==
  /\ at = "sending" /\ sent = Len(job.text)
  /\ at' = "ended"
  /\ LET end == Say("app-end", job.path)
     IN  Transmit(end) /\ whole' = (wire' = Append(wire, end))
  /\ UNCHANGED <<storageVars, boardVars, replies, job, sent, verdict, pushes>>

SendsCheck ==
  /\ at = "ended" /\ Pause
  /\ at' = "checking"
  /\ replies' = << >>
  /\ Transmit(Say("check", job.path))
  /\ UNCHANGED <<storageVars, boardVars, job, sent, verdict, pushes, whole>>

GetsReply ==
  /\ at = "checking" /\ replies # << >>
  /\ at' = "idle"
  /\ verdict' = IF Head(replies) = job.text THEN "verified" ELSE "mismatch"
  /\ UNCHANGED <<storageVars, boardVars, lineVars, job, sent, pushes, faults, historyVars>>

GetsNoReply ==
  /\ at = "checking" /\ replies = << >> /\ Pause
  /\ at' = "idle"
  /\ verdict' = "unread"
  /\ UNCHANGED <<storageVars, boardVars, lineVars, job, sent, pushes, faults, historyVars>>

\* Ctrl-C, or the port went away: the board is not told.
Interrupted ==
  /\ at # "idle"
  /\ Fault
  /\ at' = "idle"
  /\ UNCHANGED <<storageVars, boardVars, lineVars, job, sent, verdict, pushes, whole>>

\* -NoVerify
LeavesUnverified ==
  /\ at = "ended"
  /\ at' = "idle"
  /\ UNCHANGED <<storageVars, boardVars, lineVars, job, sent, verdict, pushes, faults,
                 historyVars>>

\* No push is open and the person types a line.
PersonTypes ==
  /\ at = "idle" /\ Pause
  /\ pushes < MaxPushes
  /\ pushes' = pushes + 1
  /\ \E kind \in {"app-begin", "app-end", "rm", "code"}, p \in Path :
       wire' = Append(wire, Say(kind, p))
  /\ verdict' = "none" /\ whole' = FALSE /\ smooth' = FALSE
  /\ UNCHANGED <<storageVars, boardVars, replies, at, job, sent, faults>>

-----------------------------------------------------------------------------
\* Starting the app at the path pushed to would run the text that was pushed.
Good == LoadScript(job.path) = job.text

\* held starts over when the file is asked for.
Watch == held' = (Good' \/ (held /\ ~(at = "ended" /\ at' = "checking")))

Next ==
  \/ LineRefused /\ Watch
  \/ UploadOverflows /\ Watch
  \/ UploadEnds /\ Watch
  \/ UploadGrows /\ Watch
  \/ UploadBegins /\ Watch
  \/ CommandRm /\ Watch
  \/ CommandCheck /\ Watch
  \/ CommandOther /\ Watch
  \/ ScriptRuns /\ Watch
  \/ PowerCycle /\ Watch
  \/ PushStarts /\ Watch
  \/ SendsLine /\ Watch
  \/ SendsEnd /\ Watch
  \/ SendsCheck /\ Watch
  \/ GetsReply /\ Watch
  \/ GetsNoReply /\ Watch
  \/ LeavesUnverified /\ Watch
  \/ Interrupted /\ Watch
  \/ PersonTypes /\ Watch

Spec == Init /\ [][Next]_vars

-----------------------------------------------------------------------------
(* Properties.                                                             *)

\* What push.ps1 calls verified was on the board: at some moment since it asked
\* for the file, starting the app would have run the very text it sent, whatever
\* the line lost, the app wrote or the power did.  The workstation compares what
\* fs.read() finds, the loader looks elsewhere.
VerifiedIsHeld == verdict = "verified" => held

\* A push of a suitable script during which nothing went wrong is verified: the
\* comparison raises no false alarm, and the folder a fresh card lacks is made.
HealthyPushVerifies == verdict \in {"mismatch", "unread"} => ~smooth

\* Once the app-end of a push has arrived the board takes commands again,
\* however much of the rest was lost, interrupted or refused: the next line
\* typed is not swallowed as a line of a script.
EndLeavesUpload ==
  whole /\ (\A i \in DOMAIN wire : wire[i].kind # "app-end") => ~uploading

\* When the board reports that it wrote a script, starting the app at that path
\* runs exactly the lines that arrived since app-begin: none was dropped on the
\* way, and the file is not one the loader refuses.
WroteIsWhole ==
  [][uploading /\ report' = "wrote" /\ ~uploading'
       => LoadScript(uploadPath)' = received]_vars
=============================================================================
