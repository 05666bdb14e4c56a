--------------------------- MODULE MCDeviceTable ---------------------------
(* Three of the nineteen devices of the house are followed: 1 is the switch *)
(* of the living room (KETING_ID) with three channels, 2 the plug           *)
(* (POWER_CIWO_ID) with one, 3 a leak sensor (XMLOUSHUI_CIWO_ID).  4 and 5  *)
(* are new sensors.  The texts are those of the code: 59 bytes of brackets, *)
(* keys and blanks, the digits of the id, two for the type, as it may be    *)
(* that of another device, and, for a room, its key.                        *)
EXTENDS DeviceTable

MCFixed    == <<1, 3, 2>>
MCChannels == [d \in 1 .. 5 |-> IF d = 1 THEN 3 ELSE 1]
MCNameLen  == <<15, 12, 18>>
MCPrinted  == [d \in 0 .. 5 |->
                 CASE d = 0 -> 59 + 1 + 2
                   [] d = 1 -> 59 + 5 + 2 + 21
                   [] d = 2 -> 59 + 4 + 2
                   [] d \in 3 .. 5 -> 59 + 5 + 2]

\* The digits of the id, the bytes of the room's key and those of the name of
\* all the devices of the house, in the order in which main() adds them.
House == << <<5, 21, 15>>, <<3, 22, 15>>, <<5, 22, 15>>, <<4, 22, 15>>, <<5, 21, 15>>,
            <<4, 20, 15>>, <<5, 19, 15>>, <<5, 0, 18>>, <<5, 0, 18>>, <<5, 0, 18>>,
            <<5, 0, 24>>, <<1, 0, 18>>, <<5, 0, 18>>, <<5, 0, 18>>, <<4, 0, 12>>,
            <<5, 0, 12>>, <<5, 0, 12>>, <<5, 0, 19>>, <<5, 0, 19>> >>

\* The whole house meets TextAssumption, with nothing left for REST to stand
\* for; REST is what the sixteen devices that are not followed take of it.
HouseRoom == [i \in DOMAIN House |->
  LET text == 59 + House[i][1] + 2 + House[i][2]
  IN  (IF text > SENSOR THEN text ELSE SENSOR) + House[i][3] + 10]

ASSUME HouseAssumption ==
  /\ 13 + Total(HouseRoom, Len(House)) < BUF
  /\ REST = Total(HouseRoom, Len(House)) - Total([i \in 1 .. Len(Fixed) |-> Room(i)], Len(Fixed))
=============================================================================
