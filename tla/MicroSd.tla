------------------------------- MODULE MicroSd -------------------------------
(***************************************************************************)
(* The microSD file commands of the CFA835 driver and upload_file, which   *)
(* strings them together.  The device has one open file and a position in  *)
(* it; the driver keeps a flag of its own, is_file_opened, and never asks  *)
(* the device.  One thread calls these commands, so a command and its      *)
(* answer are one step.                                                    *)
(***************************************************************************)
EXTENDS Naturals

CONSTANTS Names,      \* file names
          None,       \* no file
          Sizes,      \* sizes of local files, and of the data a caller writes
          FourBytes,  \* locations that four bytes can tell apart: 2^32, scaled down
          MaxBytes,   \* bound: bytes in a file of the card
          MaxRestarts \* bound: restarts of the program

ASSUME MicroSdAssumption ==
    None \notin Names /\ Sizes \subseteq Nat /\ FourBytes \in Nat \ {0}
    /\ MaxBytes \in Nat /\ MaxRestarts \in Nat

FrameLimit == 124
ChunkSize  == 120
Truncate   == 2  \* option of open: truncates_existing_file

VARIABLES
    doing,     \* "ready", "closing", "opening", "uploading" or "aborted"
    opened,    \* CFA835::is_file_opened
    pending,   \* [option, name, upload, size]: the open in progress
    left,      \* bytes of the local file not read yet, during an upload
    file,      \* the file open on the device: external
    position,  \* where the next byte of it is read or written: external
    contents,  \* [Names -> bytes of the file on the card]: external
    restarts   \* restarts so far

sdVars == <<doing, opened, pending, left, file, position, contents, restarts>>

\* The frame of a write: header, sub-command, data and CRC.
WriteFrame(n) == 2 + 1 + n + 2

Smaller(a, b) == IF a < b THEN a ELSE b
Larger(a, b)  == IF a < b THEN b ELSE a

\* n bytes written at the position of the open file.
Store(n) ==
    IF file = None THEN UNCHANGED <<position, contents>>
    ELSE /\ position' = position + n
         /\ contents' = [contents EXCEPT ![file] = Larger(@, position + n)]

SdInit ==
    /\ doing = "ready" /\ opened = FALSE
    /\ pending = [option |-> 0, name |-> None, upload |-> FALSE, size |-> 0]
    /\ left = 0
    /\ file = None /\ position = 0 /\ contents = [n \in Names |-> 0]
    /\ restarts = 0

-----------------------------------------------------------------------------
\* close_current_opened_micro_sd_file, called by itself: it checks nothing.
Close ==
    /\ doing = "ready"
    /\ file' = None /\ opened' = FALSE
    /\ UNCHANGED <<doing, pending, left, position, contents, restarts>>

\* open_micro_sd_file and upload_file start alike; an upload of a file that
\* cannot be opened locally (size None) is noticed only after the open.
StartOpen ==
    /\ doing = "ready"
    /\ doing' = "closing"
    /\ \E name \in Names, option \in 1 .. 3 :
         pending' = [option |-> option, name |-> name, upload |-> FALSE, size |-> 0]
    /\ UNCHANGED <<opened, left, file, position, contents, restarts>>

StartUpload ==
    /\ doing = "ready"
    /\ doing' = "closing"
    /\ \E name \in Names, size \in Sizes \cup {None} :
         pending' = [option |-> Truncate, name |-> name, upload |-> TRUE, size |-> size]
    /\ UNCHANGED <<opened, left, file, position, contents, restarts>>

\* Mutant: an open does not look at the flag.
CloseBeforeOpenSkipped ==
    /\ doing = "closing"
    /\ doing' = "opening"
    /\ UNCHANGED <<file, opened, pending, left, position, contents, restarts>>

\* The first step of open_micro_sd_file: a file the flag says is open is closed.
CloseBeforeOpen ==
    /\ doing = "closing"
    /\ IF opened THEN file' = None /\ opened' = FALSE ELSE UNCHANGED <<file, opened>>
    /\ doing' = "opening"
    /\ UNCHANGED <<pending, left, position, contents, restarts>>

\* What the device does with the open command: external.
DeviceOpens ==
    /\ file' = pending.name /\ position' = 0
    /\ contents' = IF pending.option = Truncate
                   THEN [contents EXCEPT ![pending.name] = 0] ELSE contents

\* upload_file goes on to its loop, or returns at once, the file still open,
\* when the local file is missing.
AfterOpen ==
    IF pending.upload /\ pending.size # None
    THEN doing' = "uploading" /\ left' = pending.size
    ELSE doing' = "ready" /\ left' = left

\* Mutant: the flag is not set.
OpenUnmarked ==
    /\ doing = "opening"
    /\ DeviceOpens /\ AfterOpen
    /\ UNCHANGED <<opened, pending, restarts>>

\* The open command and its answer.
Open ==
    /\ doing = "opening"
    /\ DeviceOpens /\ AfterOpen
    /\ opened' = TRUE
    /\ UNCHANGED <<pending, restarts>>

\* micro_sd_file_position_seek: "File is not open" is thrown to the caller; the
\* device gets the low four bytes of the location and stops at the end of the
\* file.
Seek(location) ==
    /\ doing = "ready" /\ opened
    /\ position' = IF file = None THEN position
                   ELSE Smaller(location % FourBytes, contents[file])
    /\ UNCHANGED <<doing, opened, pending, left, file, contents, restarts>>

\* micro_sd_file_read_data of n bytes: its assert comes before the flag.
ReadData(n) ==
    /\ doing = "ready"
    /\ IF n \notin 1 .. 123 THEN doing' = "aborted" /\ position' = position
       ELSE /\ opened /\ doing' = doing
            /\ position' = IF file = None THEN position
                           ELSE Larger(position, Smaller(position + n, contents[file]))
    /\ UNCHANGED <<opened, pending, left, file, contents, restarts>>

\* micro_sd_file_write_data with n bytes: its assert, the flag, the assert of
\* send_message, in that order.
WriteData(n) ==
    /\ doing = "ready" /\ position + n <= MaxBytes
    /\ IF n \notin 1 .. 124 THEN doing' = "aborted" /\ UNCHANGED <<position, contents>>
       ELSE /\ opened
            /\ IF WriteFrame(n) > FrameLimit
               THEN doing' = "aborted" /\ UNCHANGED <<position, contents>>
               ELSE doing' = doing /\ Store(n)
    /\ UNCHANGED <<opened, pending, left, file, restarts>>

\* micro_sd_file_delete: the driver does not look at the flag; the card
\* forgets the contents, an open file stays open.
Delete ==
    /\ doing = "ready"
    /\ \E name \in Names : contents' = [contents EXCEPT ![name] = 0]
    /\ UNCHANGED <<doing, opened, pending, left, file, position, restarts>>

\* One turn of the loop of upload_file: a read of a full chunk succeeds and
\* the chunk is written.
UploadChunk ==
    /\ doing = "uploading" /\ left >= ChunkSize
    /\ left' = left - ChunkSize
    /\ IF WriteFrame(ChunkSize) > FrameLimit
       THEN doing' = "aborted" /\ UNCHANGED <<position, contents>>
       ELSE doing' = doing /\ Store(ChunkSize)
    /\ UNCHANGED <<opened, pending, file, restarts>>

\* A read of less than a chunk sets the fail bit: the loop ends and the bytes
\* it did read are dropped; the file is closed.
UploadEnd ==
    /\ doing = "uploading" /\ left < ChunkSize
    /\ doing' = "ready" /\ left' = 0
    /\ file' = None /\ opened' = FALSE
    /\ UNCHANGED <<pending, position, contents, restarts>>

\* The program is started again, after an abort or at any other time: the flag
\* is false, the device keeps what it has.
StartAgain ==
    /\ restarts < MaxRestarts
    /\ restarts' = restarts + 1
    /\ doing' = "ready" /\ opened' = FALSE /\ left' = 0
    /\ UNCHANGED <<pending, file, position, contents>>

SdNext ==
    \/ Close \/ StartOpen \/ StartUpload \/ CloseBeforeOpen \/ Open
    \/ \E n \in Sizes : Seek(n) \/ ReadData(n) \/ WriteData(n)
    \/ Delete \/ UploadChunk \/ UploadEnd \/ StartAgain

SdSpec == SdInit /\ [][SdNext]_sdVars

-----------------------------------------------------------------------------
\* The driver's flag agrees with the device, unless the program was restarted
\* with a file open (is_file_opened, cfa835.cpp:162, 1028, 1039).
FlagIsTrue == restarts = 0 => (opened <=> file # None)

\* The device is never told to open a file over an open one: every path to an
\* open goes through the close, also after an upload that returned early
\* (line 1012-1014, 1295-1298).
NeverOpensOver == [][ restarts = 0 /\ file # None => file' \in {file, None} ]_sdVars

\* "Read and store the contents of the file" (line 1302): when upload_file
\* has closed the file, all of it is on the card.
UploadIsWhole ==
    [][ doing = "uploading" /\ doing' = "ready" /\ restarts' = restarts
        => contents'[pending.name] = pending.size ]_sdVars

=============================================================================
