------------------------------ MODULE Commands ------------------------------
(***************************************************************************)
(* The commands of the CFA835 driver: for each one the code it sends, the  *)
(* data lengths its asserts let through, the answer sizes it waits for,    *)
(* and, for the command groups, the sub-command it asserts to find in      *)
(* response[0].  Commands that differ in their arguments only are one.     *)
(***************************************************************************)
EXTENDS Naturals

\* Bound for data the caller hands in and no assert limits: more than a
\* package and more than its length byte can hold.
MaxInput == 260

\* The command asserts nothing about response[0].
NoEcho == 256

Command(code, least, most, answers, echo) ==
    [code |-> code, lengths |-> least .. most, answers |-> answers, echo |-> echo]

Ping == Command(0, 0, MaxInput, 0 .. MaxInput, NoEcho)
GetHardwareInfo == Command(1, 1, 1, {16}, NoEcho)
GetSerialNumber == Command(1, 1, 1, {17}, NoEcho)
WriteUserFlash == Command(2, 0, MaxInput, {0}, NoEcho)
ReadUserFlash == Command(3, 1, 1, 0 .. 255, NoEcho)
StoreBootState == Command(4, 0, 0, {0}, NoEcho)
Restart == Command(5, 3, 3, {0}, NoEcho)
ClearDisplay == Command(6, 0, 0, {0}, NoEcho)
ReadSpecialCharacter == Command(9, 1, 1, {9}, NoEcho)

\* Mutant: the assert on the size of the bitmap is dropped.
WriteSpecialCharacterUnchecked == Command(9, 1, MaxInput, {0}, NoEcho)
WriteSpecialCharacter == Command(9, 9, 9, {0}, NoEcho)
ShowCursor == Command(11, 0, 0, {2}, NoEcho)
SetCursorPosition == Command(11, 2, 2, {0}, NoEcho)
GetCursorStyle == Command(12, 0, 0, {1}, NoEcho)
SetCursorStyle == Command(12, 1, 1, {0}, NoEcho)
GetContrast == Command(13, 0, 0, {1}, NoEcho)
SetContrast == Command(13, 1, 1, {0}, NoEcho)
GetBrightness == Command(14, 0, 0, {2}, NoEcho)
SetBrightness == Command(14, 2, 2, {0}, NoEcho)
GetKeyEvents == Command(23, 0, 0, {2}, NoEcho)
SetKeyEvents == Command(23, 2, 2, {0}, NoEcho)
ReadKeypad == Command(24, 0, 0, {3}, NoEcho)
WriteText == Command(31, 2, MaxInput, {0}, NoEcho)
ReadText == Command(32, 3, 3, 1 .. 20, NoEcho)
ConfigureGpio == Command(34, 2, 2, {0}, NoEcho)
LoadFont == Command(38, 4 + 3, 4 + 123, {1}, 0)
PrintFont == Command(38, 5 + 0 + 1, 5 + 119 + 1, {2}, 1)
OpenFile == Command(39, 3 + 0, 3 + 121, {5}, 0)
CloseFile == Command(39, 2, 2, {5}, 0)
SeekFile == Command(39, 5, 5, {1}, 1)
ReadFile == Command(39, 2, 2, 2 .. 124, 2)
WriteFile == Command(39, 1 + 1, 1 + 124, {1}, 3)
DeleteFile == Command(39, 2 + 1, 2 + 124, {1}, 4)
SetGraphicOptions == Command(40, 2, 2, {1}, 0)
FlushBuffer == Command(40, 1, 1, {1}, 1)
SendBitmap == Command(40, 6, 6, {1}, 2)
SetPixel == Command(40, 4, 4, {1}, 5)
GetPixel == Command(40, 3, 3, {2}, 5)
DrawLine == Command(40, 6, 6, {1}, 6)
DrawRectangle == Command(40, 7, 7, {1}, 7)
DrawCircle == Command(40, 6, 6, {1}, 8)

AllCommands ==
    { Ping, GetHardwareInfo, GetSerialNumber, WriteUserFlash,
      ReadUserFlash, StoreBootState, Restart, ClearDisplay,
      ReadSpecialCharacter, WriteSpecialCharacter, ShowCursor,
      SetCursorPosition, GetCursorStyle, SetCursorStyle, GetContrast,
      SetContrast, GetBrightness, SetBrightness, GetKeyEvents,
      SetKeyEvents, ReadKeypad, WriteText, ReadText, ConfigureGpio,
      LoadFont, PrintFont, OpenFile, CloseFile, SeekFile, ReadFile,
      WriteFile, DeleteFile, SetGraphicOptions, FlushBuffer, SendBitmap,
      SetPixel, GetPixel, DrawLine, DrawRectangle, DrawCircle }

\* send_data follows the package of this command only.
RawCommands == { SendBitmap }

\* What receive_message tells two packages apart by.
Signatures(command) == { command.code } \X command.answers

\* Two commands whose answers receive_message cannot tell apart.
Confusable(c, d) == Signatures(c) \cap Signatures(d) # {}

=============================================================================
