---------------------------- MODULE FrameBuilder ----------------------------
(***************************************************************************)
(* send_message as seen by its command: the frame around the data, its one *)
(* byte of length, and the assert that guards the 124 bytes of a package.  *)
(* No build of the project defines NDEBUG: an assert that fails aborts.    *)
(***************************************************************************)
EXTENDS Commands, FiniteSets

MaxPackageSize == 124
HeaderSize     == 2
CrcSize        == 2

VARIABLES command,   \* the command being sent
          length,    \* how many data bytes it has
          frame,     \* [size, lengthByte] of the frame in the buffer
          outcome    \* "building", "written" or "aborted"

frameVars == <<command, length, frame, outcome>>

FrameOf(n) == [size |-> HeaderSize + n + CrcSize, lengthByte |-> n % 256]

\* A command calls send_message with data its own asserts accept.
FrameInit == /\ command \in AllCommands
        /\ length \in command.lengths
        /\ frame = FrameOf(length)
        /\ outcome = "building"

\* The assert on the size of the buffer comes before the write.
Write == /\ outcome = "building"
         /\ outcome' = IF frame.size <= MaxPackageSize THEN "written" ELSE "aborted"
         /\ UNCHANGED <<command, length, frame>>

FrameNext == Write

FrameSpec == FrameInit /\ [][FrameNext]_frameVars

-----------------------------------------------------------------------------
\* These commands let data through that send_message aborts on.
Oversized == { Ping, WriteUserFlash, WriteText, LoadFont, PrintFont, OpenFile,
               WriteFile, DeleteFile }

\* Every other command always fits a package, whatever its arguments: its own
\* asserts, or its fixed form, imply the assert of send_message.  And the
\* length byte of a frame that reaches the device counts its data bytes: that
\* the cast to uint8_t (line 340) never wraps is due to the assert alone.
FramesFit ==
    /\ outcome = "aborted" => command \in Oversized
    /\ outcome = "written" => frame.lengthByte = length

=============================================================================
