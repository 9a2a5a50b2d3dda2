----------------------------- MODULE MCHoming -----------------------------
(* Constants of Homing for TLC: the CR1's three axes and its default      *)
(* schedule (config.h lines 95-96: Z first, then X and Y together).        *)
EXTENDS Homing

MCAxes == {"X", "Y", "Z"}
MCSchedule == << {"Z"}, {"X", "Y"} >>
MCSwitchModes == {"ok", "open", "stuck"}

\* One host line for every branch of the $H handler and of the line
\* dispatch: $H; $hx in lower case with a blank; a letter that names no
\* axis behind a comment; a line of exactly the buffer's length with a
\* block delete; one character too many; a line that is all comment.
MCHostLines ==
    { <<"$", "H", "\n">>,
      <<"$", "h", " ", "x", "\r">>,
      <<"$", "H", "(", "Y", ")", "q", "\n">>,
      <<"$", "H", "X", "/", "Y", "\n">>,
      <<"$", "H", "X", "Y", "Z", "\n">>,
      <<"(", "$", "H", ")", ";", "X", "\n">> }
=============================================================================
