------------------------------- MODULE Upload --------------------------------
(***************************************************************************)
(* Uploading (crates/engine/src/session.rs): a request of a peer that has  *)
(* a slot becomes a command to the disk task, in one queue with the writes *)
(* of pieces that have just been downloaded; the block that was read comes *)
(* back through the hub.  Choking decides who has a slot, meanwhile peers  *)
(* come, go and are choked.  A write that fails ends the session: that is  *)
(* part of Session.                                                        *)
(***************************************************************************)
EXTENDS Choking, Storage

CONSTANTS
  MaxServe,    \* MAX_SERVE_BLOCK
  MaxCommands  \* bound: commands and answers of the disk task on their way

ASSUME UploadAssumption == MaxServe \in Nat \ {0} /\ MaxCommands \in Nat \ {0}

VARIABLES
  paused,    \* Hub.paused
  onDisk,    \* Hub.on_disk
  written,   \* pieces that were found or sent to be written
  files,     \* contents of the files
  diskQ,     \* commands to the disk task
  answers    \* its events to the hub

uploadVars == <<paused, onDisk, written, files, diskQ, answers>>
allVars == <<vars, uploadVars>>

WriteCommand(p) == [op |-> "write", peer |-> "", piece |-> p, begin |-> 0, length |-> 0]

ReadCommand(h, p, begin, length) ==
  [op |-> "read", peer |-> h, piece |-> p, begin |-> begin, length |-> length]

UploadInit ==
  /\ Init
  /\ paused = FALSE
  /\ onDisk \in SUBSET Pieces
  /\ written = onDisk
  /\ files = Holding(onDisk)
  /\ diskQ = <<>> /\ answers = <<>>

RoomForCommand == Len(diskQ) + Len(answers) < MaxCommands

\* A piece of the download has passed its hash check.
PieceCompleted(p) ==
  /\ p \notin written /\ RoomForCommand
  /\ written' = written \cup {p}
  /\ diskQ' = Append(diskQ, WriteCommand(p))
  /\ UNCHANGED <<vars, paused, onDisk, files, answers>>

\* on_upload_request.  A range outside the piece, or too long, costs the peer its
\* connection; other requests that are not served are not answered.
Request(h, p, begin, length) ==
  /\ RoomForCommand
  /\ ~ paused
  /\ h \in Links \cap interested \cap served
  /\ length <= MaxServe /\ p \in Pieces /\ InPiece(p, begin, length)
  /\ p \in onDisk
  /\ diskQ' = Append(diskQ, ReadCommand(h, p, begin, length))
  /\ UNCHANGED <<vars, paused, onDisk, written, files, answers>>

\* disk_writer: one command after the other.
DiskStep ==
  /\ diskQ # <<>>
  /\ diskQ' = Tail(diskQ)
  /\ LET c == Head(diskQ)
     IN  /\ files' = IF c.op = "write" THEN WritePiece(files, c.piece, Piece(c.piece)) ELSE files
         /\ answers' = Append(answers,
              [command |-> c,
               data |-> IF c.op = "write" THEN <<>>
                        ELSE ReadBlock(files, c.piece, c.begin, c.length)])
  /\ UNCHANGED <<vars, paused, onDisk, written>>

\* The Disk event, and the Upload event, which the hub passes on to the link of
\* that address, if there is one, whatever has become of it since.
HandleAnswer ==
  /\ answers # <<>>
  /\ answers' = Tail(answers)
  /\ LET c == Head(answers).command
     IN  onDisk' = IF c.op = "write" THEN onDisk \cup {c.piece} ELSE onDisk
  /\ UNCHANGED <<vars, paused, written, files, diskQ>>

Pause ==
  /\ paused' = ~ paused
  /\ UNCHANGED <<vars, onDisk, written, files, diskQ, answers>>

UploadStep ==
  \/ \E p \in Pieces : PieceCompleted(p)
  \/ \E h \in Handles, p \in 0 .. NumPieces, begin \in 0 .. PieceLength,
       length \in 0 .. MaxServe + 1 : Request(h, p, begin, length)
  \/ DiskStep
  \/ HandleAnswer
  \/ Pause

UploadNext == (Next /\ UNCHANGED uploadVars) \/ UploadStep

UploadSpec ==
  UploadInit /\ [][UploadNext]_allVars /\ WF_allVars(Tick /\ UNCHANGED uploadVars)

-----------------------------------------------------------------------------
\* A block on its way to a peer consists of the bytes that were asked for, also
\* where it lies in several files, and whatever was being written meanwhile.
ServedBytesRight ==
  \A i \in DOMAIN answers :
    LET c == answers[i].command
    IN  c.op = "read" =>
          answers[i].data = [j \in 1 .. c.length |-> Start(c.piece) + c.begin + j - 1]
=============================================================================
