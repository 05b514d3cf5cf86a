---------------------------- MODULE UartSettings ----------------------------
(***************************************************************************)
(* ConfigUart of src/common/uart/uart.c: from the flags of a line that are *)
(* set to those that will be.                                              *)
(***************************************************************************)
EXTENDS Integers, FiniteSets

Parities == {"NONE", "ODD", "EVEN", "MARK", "SPACE"}
FlagsOf(parity) ==
    CASE parity = "ODD"   -> {"PARODD", "PARENB", "INPCK"}
      [] parity = "EVEN"  -> {"PARENB", "INPCK"}
      [] parity = "MARK"  -> {"PARODD", "PARENB", "CMSPAR", "INPCK"}
      [] parity = "SPACE" -> {"PARENB", "CMSPAR", "INPCK"}
      [] OTHER            -> {}
Cleared(parity) ==
    CASE parity \in {"ODD", "MARK"}   -> {}
      [] parity \in {"EVEN", "SPACE"} -> {"PARODD"}
      [] OTHER                        -> {"PARENB", "INPCK"}

ConfigUart(flags, wordWidth, stopBits, parity) ==
    ((flags \ ({"CRTSCTS", "CS5", "CS6", "CS7", "CS8", "CSTOPB", "OPOST", "ICANON", "ECHO", "ISIG", "IXON"}
                  \cup Cleared(parity)))
        \cup FlagsOf(parity) \cup {"CLOCAL", "CREAD"}
        \cup {CASE wordWidth = 5 -> "CS5" [] wordWidth = 6 -> "CS6" [] wordWidth = 7 -> "CS7" [] OTHER -> "CS8"}
        \cup IF stopBits = 2 THEN {"CSTOPB"} ELSE {})

(* What a line with these flags does with the parity bit.                  *)
ParityOf(flags) ==
    IF "PARENB" \notin flags THEN "NONE"
    ELSE IF "CMSPAR" \in flags THEN IF "PARODD" \in flags THEN "MARK" ELSE "SPACE"
    ELSE IF "PARODD" \in flags THEN "ODD" ELSE "EVEN"

(* The port behaves as asked for whatever was set before.  Of odd and even *)
(* parity that is claimed of a line that had no mark or space parity.      *)
ConfiguresPort(flags, wordWidth, stopBits, parity) ==
    LET f == ConfigUart(flags, wordWidth, stopBits, parity) IN
    /\ (parity \in {"ODD", "EVEN"} => "CMSPAR" \notin flags) => ParityOf(f) = parity
    /\ Cardinality(f \cap {"CS5", "CS6", "CS7", "CS8"}) = 1
    /\ (wordWidth = 7) <=> ("CS7" \in f)
    /\ (stopBits = 2) <=> ("CSTOPB" \in f)
    /\ f \cap {"CRTSCTS", "OPOST", "ICANON", "ECHO", "ISIG", "IXON"} = {}
    /\ ConfigUart(f, wordWidth, stopBits, parity) = f
=============================================================================
