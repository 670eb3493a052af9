----------------------------- MODULE FixedCodes -----------------------------
(***************************************************************************)
(* The fixed command and distance codes of the one-pass q0 encoder, with   *)
(* the bytes of their headers (crates/encode/src/encode/fixed_codes.rs),   *)
(* and how a command symbol follows from an insert and a copy length code. *)
(***************************************************************************)
EXTENDS Integers, Sequences

COMMAND_CELLS == <<2, 3, 6, 4, 5, 8, 7, 9, 10>>

\* two_pass.rs command_cell, which looks up PACKED_CELLS.
CommandCell(insertCode, copyCode) ==
  COMMAND_CELLS[(insertCode \div 8) * 3 + (copyCode \div 8) + 1]

Low(insertCode, copyCode) == (insertCode % 8) * 8 + (copyCode % 8)

\* explicit_symbol: commands with a distance.
ExplicitSymbol(insertCode, copyCode) ==
  CommandCell(insertCode, copyCode) * 64 + Low(insertCode, copyCode)

\* implicit_symbol: commands that reuse the last distance, for insert codes
\* below 8 and copy codes below 16.
ImplicitSymbol(insertCode, copyCode) ==
  (copyCode \div 8) * 64 + Low(insertCode, copyCode)

SHORT_COMMAND_LENGTHS ==
  <<12, 0, 0, 12, 12, 12, 12, 12, 12, 0, 0, 9, 9, 7, 11, 11, 12, 0, 0, 10, 8, 11, 12, 12, 12, 0,
    0, 11, 12, 12, 12, 12, 12, 0, 0, 12, 12, 12, 12, 12, 12, 0, 0, 12, 12, 12, 12, 12, 12, 0, 0,
    12, 11, 12, 12, 12, 12, 0, 0, 12, 12, 12, 12, 12, 12, 12, 12, 12, 12, 12, 12, 12, 9, 10, 8,
    9, 9, 11, 10, 10, 11, 12, 9, 10, 11, 12, 12, 12, 12, 12, 12, 11, 12, 12, 12, 12, 12, 12, 12,
    10, 12, 12, 12, 12, 12, 12, 12, 12, 12, 12, 12, 12, 12, 12, 12, 12, 12, 12, 12, 12, 12, 12,
    12, 12, 12, 12, 12, 12, 0, 0, 0, 3, 4, 4, 5, 6, 0, 0, 0, 4, 6, 6, 7, 8, 0, 0, 0, 6, 6, 8, 8,
    9, 0, 0, 0, 6, 7, 8, 9, 9, 0, 0, 0, 6, 7, 8, 9, 10, 0, 0, 0, 6, 8, 8, 9, 10, 0, 0, 0, 6, 7,
    8, 9, 9, 0, 0, 0, 7, 7, 8, 9, 10, 5, 6, 5, 6, 6, 8, 7, 8, 8, 9, 8, 8, 9, 10, 11, 10, 9, 9,
    9, 10, 10, 10, 12, 12, 9, 10, 9, 10, 10, 11, 12, 12, 9, 10, 10, 10, 11, 12, 12, 11, 9, 10,
    10, 11, 11, 12, 12, 12, 9, 10, 10, 11, 10, 12, 12, 12, 10, 11, 10, 11, 11, 12, 12, 12, 12,
    0, 0, 7, 7, 8, 9, 10, 12, 0, 0, 7, 8, 9, 10, 11, 12, 0, 0, 7, 8, 9, 10, 11, 12, 0, 0, 8, 9,
    10, 11, 12, 12, 0, 0, 9, 10, 11, 12, 12, 12, 0, 0, 9, 11, 11, 12, 12, 12, 0, 0, 9, 10, 11,
    12, 12, 12, 0, 0, 11, 12, 12, 12, 12, 10, 10, 10, 8, 11, 12, 12, 12, 10, 11, 10, 10, 12, 12,
    12, 12, 11, 12, 11, 11, 12, 12, 12, 12, 11, 12, 12, 12, 12, 12, 12, 12, 12, 12, 12, 12, 12,
    12, 12, 12, 12, 12, 12, 12, 12, 12, 12, 12, 12, 12, 12, 12, 12, 12, 12, 12, 12, 12, 12, 12,
    12, 12, 12, 12, 9, 10, 10, 10, 11, 12, 12, 12, 11, 12, 11, 12, 12, 12, 12, 12, 12, 12, 12,
    12, 12, 12, 12, 12, 12, 12, 12, 12, 12, 12, 12, 12, 12, 12, 12, 12, 12, 12, 12, 12, 12, 12,
    12, 12, 12, 12, 12, 12, 12, 12, 12, 12, 12, 12, 12, 12, 12, 12, 12, 12, 12, 12, 12, 12, 12,
    0, 0, 12, 12, 12, 12, 12, 12, 0, 0, 12, 12, 12, 12, 12, 12, 0, 0, 12, 12, 12, 12, 12, 12, 0,
    0, 12, 12, 12, 12, 12, 12, 0, 0, 12, 12, 12, 12, 12, 12, 0, 0, 12, 12, 12, 12, 12, 12, 0, 0,
    12, 12, 12, 12, 12, 0, 0, 0, 0, 0, 0, 0, 0, 12, 12, 12, 12, 12, 12, 12, 12, 12, 12, 12, 12,
    12, 12, 12, 12, 12, 12, 12, 12, 12, 12, 12, 12, 12, 12, 12, 12, 12, 12, 12, 12, 12, 12, 12,
    12, 12, 12, 12, 12, 12, 12, 12, 12, 12, 12, 12, 12, 12, 12, 12, 12, 12, 12, 12, 12, 12, 12,
    12, 12, 12, 12, 12, 12, 12, 12, 12, 12, 12, 12, 12, 12, 12, 12, 12, 12, 12, 12, 12, 12, 12,
    12, 12, 12, 12, 12, 12, 12, 12, 12, 12, 12, 12, 12, 12, 12, 12, 12, 12, 12, 12, 12, 12, 12,
    12, 12, 12, 12, 12, 12, 12, 12, 12, 12, 12, 12, 12, 12, 12, 12, 0, 0, 0, 0, 0, 0, 0, 0, 12,
    12, 12, 12, 12, 12, 12, 12, 12, 12, 12, 12, 12, 12, 12, 12, 12, 12, 12, 12, 12, 12, 12, 12,
    12, 12, 12, 12, 12, 12, 12, 12, 12, 12, 12, 12, 12, 12, 12, 12, 12, 12, 12, 12, 12, 12, 12,
    12, 12, 12, 12, 12, 12, 12, 12, 12, 0, 0, 0, 0, 0, 0, 0, 0>>

SHORT_DISTANCE_LENGTHS ==
  <<7, 0, 0, 0, 0, 0, 0, 0, 0, 0, 0, 0, 0, 0, 0, 0, 7, 7, 7, 7, 6, 6, 5, 5, 5, 5, 4, 5, 4, 4, 4,
    4, 4, 4, 4, 4, 4, 4, 4, 6, 7, 0, 0, 0, 0, 0, 0, 0, 0, 0, 0, 0, 0, 0, 0, 0, 0, 0, 0, 0, 0, 0,
    0, 0>>

SHORT_HEADER ==
  <<254, 251, 255, 126, 170, 1, 58, 64, 62, 59, 128, 198, 73, 0, 167, 1, 29, 232, 64, 156, 2,
    180, 74, 13, 105, 201, 161, 156, 234, 116, 165, 180, 242, 177, 246, 62, 247, 99, 223, 251,
    230, 227, 222, 25, 126, 220, 55, 228, 199, 125, 67, 125, 220, 25, 234, 227, 190, 33, 63,
    222, 27, 234, 220, 115, 239, 188, 25, 206, 80, 22, 73, 73, 9, 69, 201, 9, 37, 57, 49, 37,
    59, 9, 37, 43, 137, 44, 59, 5, 120, 111, 168, 0, 111, 40, 7, 120, 67, 57, 192, 80, 78, 0,
    202, 73, 0, 218, 73, 0, 202, 73, 0, 167, 72, 26, 39, 145, 165, 20, 199, 78, 113, 74, 239,
    148, 228, 36, 142, 211, 122, 5, 58, 208, 129, 14, 116, 160, 3, 29, 168, 191, 165, 150, 246,
    91, 75, 123, 23, 225, 0, 0, 219, 246, 127, 119, 215, 85, 85, 85, 63>>

LONG_COMMAND_LENGTHS ==
  <<13, 0, 0, 13, 13, 13, 13, 13, 13, 0, 0, 8, 9, 7, 10, 11, 13, 0, 0, 10, 8, 11, 12, 13, 13, 0,
    0, 11, 12, 13, 13, 13, 13, 0, 0, 12, 13, 13, 13, 13, 13, 0, 0, 12, 13, 12, 13, 13, 13, 0, 0,
    12, 12, 13, 13, 13, 13, 0, 0, 13, 13, 12, 13, 13, 13, 13, 13, 13, 13, 13, 13, 13, 10, 11, 8,
    9, 10, 11, 11, 11, 11, 12, 9, 10, 11, 12, 12, 13, 13, 13, 13, 12, 13, 13, 13, 13, 13, 13,
    13, 11, 13, 13, 13, 13, 12, 13, 13, 13, 13, 13, 13, 13, 13, 13, 13, 13, 13, 13, 13, 13, 13,
    13, 13, 13, 13, 13, 13, 13, 0, 0, 0, 3, 3, 4, 5, 5, 0, 0, 0, 4, 6, 6, 7, 8, 0, 0, 0, 6, 6,
    7, 8, 9, 0, 0, 0, 6, 7, 8, 9, 9, 0, 0, 0, 6, 7, 8, 9, 10, 0, 0, 0, 6, 8, 8, 10, 10, 0, 0, 0,
    6, 7, 8, 9, 10, 0, 0, 0, 7, 7, 8, 10, 11, 5, 6, 5, 6, 6, 7, 7, 7, 8, 9, 8, 8, 9, 10, 11, 10,
    9, 10, 9, 10, 10, 10, 12, 11, 9, 10, 10, 10, 10, 11, 12, 12, 10, 10, 10, 10, 11, 12, 13, 11,
    10, 11, 11, 11, 11, 13, 13, 12, 9, 10, 10, 11, 11, 12, 13, 13, 10, 11, 11, 12, 12, 13, 13,
    13, 13, 0, 0, 7, 8, 8, 10, 10, 13, 0, 0, 8, 9, 10, 11, 12, 13, 0, 0, 8, 9, 10, 11, 12, 13,
    0, 0, 9, 10, 11, 12, 13, 13, 0, 0, 9, 11, 12, 13, 13, 13, 0, 0, 10, 12, 13, 13, 13, 13, 0,
    0, 10, 12, 13, 13, 13, 13, 0, 0, 13, 13, 13, 13, 13, 10, 11, 11, 7, 12, 13, 13, 13, 11, 11,
    11, 11, 13, 13, 13, 13, 12, 13, 12, 12, 13, 13, 13, 13, 12, 13, 13, 13, 13, 13, 13, 13, 13,
    13, 13, 13, 13, 13, 13, 13, 13, 13, 13, 13, 13, 13, 13, 13, 13, 13, 13, 13, 13, 13, 13, 13,
    13, 13, 13, 13, 13, 13, 13, 13, 9, 10, 10, 10, 11, 12, 13, 13, 12, 13, 13, 12, 13, 13, 13,
    13, 13, 13, 13, 13, 13, 13, 13, 13, 13, 13, 13, 13, 13, 13, 13, 13, 13, 13, 13, 13, 13, 13,
    13, 13, 13, 13, 13, 13, 13, 13, 13, 13, 13, 13, 13, 13, 13, 13, 13, 13, 13, 13, 13, 13, 13,
    13, 13, 13, 13, 0, 0, 13, 13, 13, 13, 13, 13, 0, 0, 13, 13, 13, 13, 13, 13, 0, 0, 13, 13,
    13, 13, 13, 13, 0, 0, 13, 13, 13, 13, 13, 13, 0, 0, 13, 13, 13, 13, 13, 13, 0, 0, 13, 13,
    13, 13, 13, 13, 0, 0, 13, 13, 13, 13, 13, 13, 0, 0, 13, 13, 13, 13, 13, 13, 13, 13, 13, 13,
    13, 13, 13, 13, 13, 13, 13, 13, 13, 13, 13, 13, 13, 13, 13, 13, 13, 13, 13, 13, 13, 13, 13,
    13, 13, 13, 13, 13, 13, 13, 13, 13, 13, 13, 13, 13, 13, 13, 13, 13, 13, 13, 13, 13, 13, 13,
    13, 13, 13, 13, 13, 13, 13, 13, 13, 13, 13, 13, 13, 13, 13, 13, 13, 13, 13, 13, 13, 13, 13,
    13, 13, 13, 13, 13, 13, 13, 13, 13, 13, 13, 13, 13, 13, 13, 13, 13, 13, 13, 13, 13, 13, 13,
    13, 13, 13, 13, 13, 13, 13, 13, 13, 13, 13, 13, 13, 13, 13, 13, 13, 13, 13, 13, 13, 13, 13,
    13, 13, 13, 13, 13, 13, 13, 13, 13, 13, 13, 13, 13, 13, 13, 13, 13, 13, 13, 13, 13, 13, 13,
    13, 13, 13, 13, 13, 13, 13, 13, 13, 13, 13, 13, 13, 13, 13, 13, 13, 13, 13, 13, 13, 13, 13,
    13, 13, 13, 13, 13, 13, 13, 13, 13, 13, 13, 13, 13, 13, 13, 13, 13, 13, 13, 13, 13, 13, 13,
    13, 13, 13>>

LONG_DISTANCE_LENGTHS ==
  <<9, 0, 0, 0, 0, 0, 0, 0, 0, 0, 0, 0, 0, 0, 0, 0, 8, 10, 8, 8, 6, 7, 6, 6, 5, 6, 5, 5, 5, 5,
    4, 4, 4, 4, 4, 4, 4, 4, 4, 4, 4, 5, 5, 7, 10, 0, 0, 0, 0, 0, 0, 0, 0, 0, 0, 0, 0, 0, 0, 0,
    0, 0, 0, 0>>

LONG_HEADER ==
  <<254, 251, 255, 126, 153, 26, 200, 64, 245, 227, 24, 96, 141, 108, 96, 228, 0, 200, 9, 144,
    101, 27, 144, 28, 0, 91, 14, 145, 83, 205, 9, 106, 142, 228, 32, 231, 113, 144, 115, 254,
    88, 107, 159, 243, 177, 239, 125, 245, 113, 239, 171, 254, 184, 175, 186, 63, 238, 171, 230,
    199, 173, 34, 63, 238, 171, 230, 199, 123, 197, 57, 247, 220, 251, 222, 171, 174, 106, 14,
    155, 77, 82, 211, 12, 35, 49, 140, 60, 156, 96, 171, 201, 25, 217, 156, 145, 28, 128, 87,
    69, 26, 168, 230, 200, 64, 53, 71, 6, 154, 35, 27, 232, 145, 109, 128, 114, 0, 40, 7, 32,
    114, 230, 201, 246, 4, 7, 89, 114, 144, 67, 206, 77, 114, 100, 203, 150, 83, 78, 64, 6, 50,
    144, 129, 12, 100, 32, 3, 25, 72, 49, 199, 55, 145, 247, 251, 0, 0, 0, 192, 110, 235, 107,
    211, 36, 81, 85, 85, 147, 119>>

\* Lengths by symbol, and the bytes and bits of the header.
FixedCode(commands, distances, bits, header) ==
  [commands |-> [s \in 0 .. 703 |-> commands[s + 1]],
   distances |-> [s \in 0 .. 63 |-> distances[s + 1]], bits |-> bits, header |-> header]

FLAT ==
  FixedCode([i \in 1 .. 704 |-> IF i <= 448 THEN 9 ELSE 11], [i \in 1 .. 64 |-> 6], 87,
            <<3, 112, 48, 22, 68, 98, 146, 24, 224, 78, 27>>)
SHORT == FixedCode(SHORT_COMMAND_LENGTHS, SHORT_DISTANCE_LENGTHS, 1271, SHORT_HEADER)
LONG == FixedCode(LONG_COMMAND_LENGTHS, LONG_DISTANCE_LENGTHS, 1344, LONG_HEADER)
=============================================================================
