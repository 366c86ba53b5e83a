-------------------------- MODULE MCCommandChannel --------------------------
(* CommandChannel on commands of the driver, taken from the table Commands. *)
EXTENDS CommandChannel, TLC

C == INSTANCE Commands

CONSTANTS main, tool    \* the main thread, and another caller

\* The commands of a frame: clear, send a bitmap and its pixels, flush, and
\* get_pixel_data for an answer of another size in the same group; a ping has
\* the code whose refusal looks like a key report.
MCRequests == {"clear", "bitmap", "flush", "pixel", "ping"}

MCCommand == [clear |-> C!ClearDisplay, bitmap |-> C!SendBitmap,
              flush |-> C!FlushBuffer, pixel |-> C!GetPixel, ping |-> C!Ping]

MCCodeOf == [r \in MCRequests |-> MCCommand[r].code]
MCSizeOf == [r \in MCRequests |-> CHOOSE n \in MCCommand[r].answers : r = "ping" => n = 4]
MCEchoOf == [r \in MCRequests |-> MCCommand[r].echo]
MCPayloadRequests == {r \in MCRequests : MCCommand[r] \in C!RawCommands}

\* Late answers of the previous process: to commands that a caller of this one
\* may wait for, and to one that nobody takes, which stands at the front of the
\* queue for ever.
MCStrayPackages ==
    {[command |-> MCCodeOf[r] + ResponseMessage, size |-> MCSizeOf[r], echo |-> MCEchoOf[r]] :
        r \in {"clear", "bitmap", "pixel"}}
    \cup {[command |-> C!ReadKeypad.code + ResponseMessage, size |-> 3, echo |-> C!NoEcho]}

OneCaller == [c \in {main} |-> MCRequests]

\* Two callers whose answers cannot be confused, and two that share a group.
TwoApart    == main :> {"clear", "bitmap"} @@ tool :> {"pixel", "ping"}
TwoTogether == main :> {"clear", "bitmap"} @@ tool :> {"flush"}

=============================================================================
