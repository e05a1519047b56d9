------------------------- MODULE ServoRouting_proofs -------------------------
(****************************************************************************)
(* The wirings of ServoIds are self-inverse, and what follows from it for   *)
(* ServoRouting, for any number of legs, variants and calibrations: its     *)
(* types, that a command sent under the variant it was placed under reaches *)
(* the servo of its role, and, when only httpd switches variants, that the  *)
(* offsets at rest are the ones stored for the servos they are added to.    *)
(****************************************************************************)
EXTENDS ServoRouting, TLAPS

(* The table of variant 2 maps servos to servos and back. *)
LEMMA ReversedBack ==
    \A id \in Servos : Reversed[id] \in Servos /\ Reversed[Reversed[id]] = id
  BY SMTT(30) DEF Servos, Reversed

(* The table of variant 3 maps servos to servos and back. *)
LEMMA PurpleBack ==
    \A id \in Servos : Purple[id] \in Servos /\ Purple[Purple[id]] = id
  BY SMTT(30) DEF Servos, Purple

(* "Any new variant added here MUST stay self-inverse" (driver_board.h): the *)
(* three variants are, on all twelve servos.                                 *)
THEOREM SelfInverse ==
    \A b \in Variants, id \in Servos : DbPhys(b, DbPhys(b, id)) = id
<1> TAKE b \in Variants, id \in Servos
<1>1. CASE b = 2
  BY <1>1, ReversedBack DEF DbPhys
<1>2. CASE b = 3
  BY <1>2, PurpleBack DEF DbPhys
<1>3. CASE b # 2 /\ b # 3
  BY <1>3 DEF DbPhys
<1> QED BY <1>1, <1>2, <1>3

(* The servos of a leg are servos of the robot. *)
LEMMA LegServos ==
    /\ N \in Nat /\ 1 \in Ids /\ N \in Ids /\ Ids \subseteq Servos
    /\ \A k \in Legs : Leg(k) \subseteq Ids
  BY LegsAssumption DEF N, Ids, Servos, Legs, Leg

(* The variants in use map the robot's servos to themselves and back. *)
LEMMA PhysFacts ==
    \A b \in Boards, id \in Ids : DbPhys(b, id) \in Ids /\ DbPhys(b, DbPhys(b, id)) = id
  BY BoardsAssumption, LegServos, SelfInverse

(* RoleAt finds the role that the connector of a leg is for. *)
LEMMA RoleAtFacts ==
    ASSUME NEW k \in Legs, NEW b \in Boards, NEW id \in Connectors(k, b)
    PROVE  RoleAt(k, b, id) \in Ids /\ DbPhys(b, RoleAt(k, b, id)) = id
<1>1. \E r \in Leg(k) : DbPhys(b, r) = id
  BY DEF Connectors
<1>2. RoleAt(k, b, id) \in Leg(k) /\ DbPhys(b, RoleAt(k, b, id)) = id
  BY <1>1 DEF RoleAt
<1> QED BY <1>2, LegServos

(* The loop counters stay within the servos. *)
LEMMA CountInRange ==
    ASSUME NEW t \in Clients, idx \in [Clients -> Ids], Count(t)
    PROVE  idx' \in [Clients -> Ids]
  BY LegServos DEF Count, Ids

(* A handler under way knows its variant or connector, a leg its variant. *)
HandlersKnow ==
    /\ \A t \in Clients : pc[t] \in {"set", "put"} => arg[t] \in Boards
    /\ pc["httpd"] \in {"store", "key", "save"} => arg["httpd"] \in Ids
    /\ at = "leg" => via.leg \in Legs /\ via.board \in Boards

TypeInv == TypeOK /\ HandlersKnow

(* Every action keeps every variable in its type. *)
LEMMA TypeInvariant == Spec => []TypeInv
<1>1. Init => TypeInv
  <2> SUFFICES ASSUME Init PROVE TypeInv
    OBVIOUS
  <2>1. goal \in [Ids -> Commands] /\ wire \in [Ids -> Commands] /\ pos \in [Ids -> Commands]
    BY CalAssumption DEF Init, Commands, Untrimmed, Trims, Everyone
  <2>2. angle \in [Ids -> Angles] /\ via \in [leg : Legs \cup {0}, board : Boards \cup {0}]
    BY DEF Init, Angles, Centre, NoLeg
  <2>3. stored \in [Ids -> Trims] /\ offset \in [Ids -> Trims] /\ sum \in Trims /\ restarts \in 0 .. MaxRestarts
    BY CalAssumption DEF Init, Trims
  <2>4. pc \in [Clients -> PcValues] /\ arg \in [Clients -> Boards \cup Ids \cup {0}]
        /\ idx \in [Clients -> Ids] /\ key \in Ids /\ at \in AtValues
    BY LegServos DEF Init, PcValues, AtValues
  <2>5. HandlersKnow
    BY DEF Init, HandlersKnow, Clients
  <2> QED BY <2>1, <2>2, <2>3, <2>4, <2>5 DEF Init, TypeInv, TypeOK
<1>2. TypeInv /\ [Next]_vars => TypeInv'
  <2> SUFFICES ASSUME TypeInv, [Next]_vars PROVE TypeInv'
    OBVIOUS
  <2>0. "httpd" \in Clients
    BY DEF Clients
  <2> USE DEF TypeInv, TypeOK, HandlersKnow, numbering, nvs, commands, loop, handlers
  <2>1. CASE UNCHANGED vars
    BY <2>1 DEF vars
  <2>2. ASSUME NEW t \in Clients, CliToggle(t) PROVE TypeInv'
    BY <2>2 DEF CliToggle
  <2>3. ASSUME NEW t \in Clients, NEW b \in Boards, BoardCommand(t, b) PROVE TypeInv'
    BY <2>3 DEF BoardCommand, Goto, PcValues
  <2>4. ASSUME NEW id \in Calibrated, NEW d \in Trims, CalLoad(id, d) PROVE TypeInv'
    BY <2>0, <2>4, CalAssumption DEF CalLoad, Goto, PcValues
  <2>5. CASE CalReset
    BY <2>0, <2>5 DEF CalReset, Goto, PcValues
  <2>6. ASSUME NEW t \in Clients, SetBoard(t) PROVE TypeInv'
    BY <2>6 DEF SetBoard, Goto, PcValues
  <2>7. ASSUME NEW t \in Clients, PutBoard(t) PROVE TypeInv'
    BY <2>7 DEF PutBoard, Goto, PcValues
  <2>8. ASSUME NEW t \in Clients, Reload(t) PROVE TypeInv'
    <3>1. idx' \in [Clients -> Ids]
      BY <2>8, CountInRange DEF Reload
    <3>2. offset' \in [Ids -> Trims]
      BY <2>8, PhysFacts DEF Reload, Phys
    <3>3. pc' \in [Clients -> PcValues] /\ HandlersKnow'
      BY <2>8 DEF Reload, Goto, PcValues
    <3> QED BY <2>8, <3>1, <3>2, <3>3 DEF Reload
  <2>9. CASE CalStore
    BY <2>0, <2>9, CalAssumption DEF CalStore, Goto, PcValues, Trims
  <2>10. CASE CalKey
    BY <2>0, <2>10, PhysFacts DEF CalKey, Phys, Goto, PcValues
  <2>11. CASE CalSave
    BY <2>0, <2>11, LegServos DEF CalSave, Goto, PcValues
  <2>12. CASE ZeroOffset
    BY <2>0, <2>12, CalAssumption DEF ZeroOffset, Goto, PcValues, Trims
  <2>13. CASE ZeroStored
    <3>1. idx' \in [Clients -> Ids]
      BY <2>0, <2>13, CountInRange DEF ZeroStored
    <3>2. stored' \in [Ids -> Trims]
      BY <2>0, <2>13, CalAssumption DEF ZeroStored, Trims
    <3>3. pc' \in [Clients -> PcValues] /\ HandlersKnow'
      BY <2>0, <2>13 DEF ZeroStored, Goto, PcValues
    <3> QED BY <2>13, <3>1, <3>2, <3>3 DEF ZeroStored
  <2>14. CASE LegsBegin \/ CentreBegin \/ WalkBegin
    BY <2>14 DEF LegsBegin, CentreBegin, WalkBegin, Rest, AtValues, Angles, Centre
  <2>15. ASSUME NEW k \in Legs, LegBegin(k) PROVE TypeInv'
    BY <2>15 DEF LegBegin, Rest, AtValues
  <2>16. ASSUME NEW k \in Legs, WalkLeg(k) PROVE TypeInv'
    <3>1. \A id \in Ids : angle'[id] \in Angles
      BY <2>16, RoleAtFacts DEF WalkLeg, Angles
    <3>2. angle' \in [Ids -> Angles]
      BY <2>16, <3>1 DEF WalkLeg
    <3> QED BY <2>16, <3>2 DEF WalkLeg, Rest, AtValues
  <2>17. ASSUME NEW k \in Legs, Send(k) PROVE TypeInv'
    <3>1. wire' \in [Ids -> Commands]
      BY <2>17, PhysFacts DEF Send, Phys
    <3> QED BY <2>17, <3>1 DEF Send, Rest, AtValues
  <2>18. CASE LegWrite
    <3>1. \A id \in Ids : goal'[id] \in Commands
      BY <2>18, RoleAtFacts DEF LegWrite, Commands
    <3>2. goal' \in [Ids -> Commands]
      BY <2>18, <3>1 DEF LegWrite
    <3> QED BY <2>18, <3>2 DEF LegWrite, Rest, AtValues, NoLeg
  <2>19. CASE BodyWrite
    <3>1. goal' \in [Ids -> Commands]
      BY <2>19 DEF BodyWrite, Commands, Angles
    <3> QED BY <2>19, <3>1 DEF BodyWrite, Rest, AtValues
  <2>20. CASE Flush
    BY <2>20 DEF Flush, Rest, AtValues
  <2>21. CASE PowerLoss
    <3>1. goal' \in [Ids -> Commands] /\ wire' \in [Ids -> Commands] /\ pos' \in [Ids -> Commands]
      BY <2>21, CalAssumption DEF PowerLoss, Boot, Commands, Untrimmed, Trims, Everyone
    <3>2. angle' \in [Ids -> Angles] /\ via' \in [leg : Legs \cup {0}, board : Boards \cup {0}]
      BY <2>21 DEF PowerLoss, Boot, Angles, Centre, NoLeg
    <3>3. offset' \in [Ids -> Trims] /\ sum' \in Trims /\ restarts' \in 0 .. MaxRestarts
      BY <2>21, PhysFacts, CalAssumption DEF PowerLoss, Boot, Trims
    <3>4. pc' \in [Clients -> PcValues] /\ arg' \in [Clients -> Boards \cup Ids \cup {0}]
          /\ idx' \in [Clients -> Ids] /\ key' \in Ids /\ at' \in AtValues
      BY <2>21, LegServos DEF PowerLoss, Boot, PcValues, AtValues
    <3>5. HandlersKnow'
      BY <2>0, <2>21 DEF PowerLoss, Boot
    <3> QED BY <2>21, <3>1, <3>2, <3>3, <3>4, <3>5 DEF PowerLoss, Boot
  <2>22. CASE Request
    BY <2>2, <2>3, <2>4, <2>5, <2>22, SwitchersAssumption DEF Request
  <2>23. ASSUME NEW t \in Clients, Handle(t) PROVE TypeInv'
    BY <2>6, <2>7, <2>8, <2>9, <2>10, <2>11, <2>12, <2>13, <2>23 DEF Handle
  <2>24. CASE Gait
    BY <2>14, <2>15, <2>16, <2>17, <2>18, <2>19, <2>20, <2>24 DEF Gait
  <2> QED BY <2>1, <2>21, <2>22, <2>23, <2>24 DEF Next
<1> QED BY <1>1, <1>2, PTL DEF Spec

(* Every variable of the servo routing stays in its type. *)
THEOREM RoutingTypeCorrect == Spec => []TypeOK
  BY TypeInvariant, PTL DEF TypeInv

(* A command for one role waits at the connector of that role under the     *)
(* variant it was placed under.                                              *)
Placed(cmd, id) == cmd.role = Everyone \/ (cmd.under \in Boards /\ cmd.role \in Ids /\ DbPhys(cmd.under, cmd.role) = id)

PlacedInv == \A id \in Ids : Placed(goal[id], id) /\ Placed(pos[id], id) /\ Placed(angle[id], id)

(* Every write of goal[], of its copy and of the angles places commands so.  *)
LEMMA PlacedInvariant == Spec => []PlacedInv
<1>1. Init => PlacedInv
  BY DEF Init, PlacedInv, Placed, Untrimmed, Centre
<1>2. TypeInv /\ PlacedInv /\ [Next]_vars => PlacedInv'
  <2> SUFFICES ASSUME TypeInv, PlacedInv, [Next]_vars PROVE PlacedInv'
    OBVIOUS
  <2> USE DEF numbering, nvs, commands, loop, handlers
  <2>1. CASE UNCHANGED << goal, pos, angle >>
    BY <2>1 DEF PlacedInv
  <2>2. CASE LegWrite
    <3>1. \A id \in Ids : Placed(goal'[id], id)
      <4> SUFFICES ASSUME NEW id \in Ids PROVE Placed(goal'[id], id)
        OBVIOUS
      <4>1. CASE id \in Connectors(via.leg, via.board)
        <5>1. via.leg \in Legs /\ via.board \in Boards
          BY <2>2 DEF LegWrite, TypeInv, HandlersKnow
        <5>2. goal'[id].role = RoleAt(via.leg, via.board, id) /\ goal'[id].under = via.board
          BY <2>2, <4>1 DEF LegWrite
        <5> QED BY <4>1, <5>1, <5>2, RoleAtFacts DEF Placed
      <4>2. CASE id \notin Connectors(via.leg, via.board)
        BY <2>2, <4>2 DEF LegWrite, PlacedInv
      <4> QED BY <4>1, <4>2
    <3> QED BY <2>2, <3>1 DEF LegWrite, PlacedInv, Rest
  <2>3. ASSUME NEW k \in Legs, WalkLeg(k) PROVE PlacedInv'
    <3>1. \A id \in Ids : Placed(angle'[id], id)
      <4> SUFFICES ASSUME NEW id \in Ids PROVE Placed(angle'[id], id)
        OBVIOUS
      <4>1. CASE id \in Connectors(k, board)
        <5>1. angle'[id].role = RoleAt(k, board, id) /\ angle'[id].under = board
          BY <2>3, <4>1 DEF WalkLeg
        <5>2. board \in Boards
          BY DEF TypeInv, TypeOK
        <5> QED BY <4>1, <5>1, <5>2, RoleAtFacts DEF Placed
      <4>2. CASE id \notin Connectors(k, board)
        BY <2>3, <4>2 DEF WalkLeg, PlacedInv
      <4> QED BY <4>1, <4>2
    <3> QED BY <2>3, <3>1 DEF WalkLeg, PlacedInv
  <2>4. CASE CentreBegin \/ WalkBegin
    BY <2>4 DEF CentreBegin, WalkBegin, PlacedInv, Placed, Centre
  <2>5. CASE BodyWrite
    BY <2>5 DEF BodyWrite, PlacedInv, Placed, Rest
  <2>6. CASE Flush
    BY <2>6 DEF Flush, PlacedInv
  <2>7. CASE PowerLoss
    BY <2>7 DEF PowerLoss, Boot, PlacedInv, Placed, Untrimmed, Centre
  <2>8. CASE Request
    BY <2>1, <2>8 DEF Request, CliToggle, BoardCommand, CalLoad, CalReset
  <2>9. ASSUME NEW t \in Clients, Handle(t) PROVE PlacedInv'
    BY <2>1, <2>9 DEF Handle, SetBoard, PutBoard, Reload, CalStore, CalKey, CalSave, ZeroOffset, ZeroStored
  <2>10. ASSUME NEW k \in Legs, LegBegin(k) \/ Send(k) PROVE PlacedInv'
    BY <2>1, <2>10 DEF LegBegin, Send
  <2>11. CASE LegsBegin
    BY <2>1, <2>11 DEF LegsBegin
  <2>12. CASE Gait
    BY <2>2, <2>3, <2>4, <2>5, <2>6, <2>10, <2>11, <2>12 DEF Gait
  <2>13. CASE UNCHANGED vars
    BY <2>1, <2>13 DEF vars
  <2> QED BY <2>7, <2>8, <2>9, <2>12, <2>13 DEF Next
<1> QED BY <1>1, <1>2, TypeInvariant, PTL DEF Spec

(* A command sent under the variant it was placed under reaches the servo of *)
(* its role, because the second db_phys undoes the first.                    *)
THEOREM CurrentCommandsArrive == Spec => RoutesCurrent
<1>1. TypeInv /\ PlacedInv /\ [Next]_vars =>
        [\A k \in Legs : Send(k) =>
            \A c \in Leg(k) : wire'[c].under = board => Reaches(c, wire'[c])]_vars
  <2> SUFFICES ASSUME TypeInv, PlacedInv, NEW k \in Legs, Send(k),
                      NEW c \in Leg(k), wire'[c].under = board
               PROVE  Reaches(c, wire'[c])
    OBVIOUS
  <2>1. c \in Ids /\ board \in Boards
    BY LegServos DEF TypeInv, TypeOK
  <2>2. wire'[c] = pos[Phys(c)]
    BY <2>1 DEF Send
  <2>3. Placed(pos[Phys(c)], Phys(c))
    BY <2>1, PhysFacts DEF PlacedInv, Phys
  <2>4. CASE wire'[c].role = Everyone
    BY <2>4 DEF Reaches
  <2>5. CASE wire'[c].role # Everyone
    <3>1. wire'[c].role \in Ids /\ DbPhys(board, wire'[c].role) = DbPhys(board, c)
      BY <2>2, <2>3, <2>5 DEF Placed, Phys
    <3>2. wire'[c].role = c
      BY <2>1, <3>1, PhysFacts
    <3> QED BY <3>2 DEF Reaches
  <2> QED BY <2>4, <2>5
<1> QED BY <1>1, TypeInvariant, PlacedInvariant, PTL DEF Spec, RoutesCurrent

(* What holds of the offsets while httpd, the only client that renumbers or  *)
(* calibrates, is at each point of a handler.                                *)
Same(id)    == offset[id] = stored[Phys(id)]
Before(id)  == id < idx["httpd"]
TrimsInv ==
    /\ pc["console"] = "idle"
    /\ pc["httpd"] \in {"idle", "set", "store"} => \A id \in Ids : Same(id)
    /\ pc["httpd"] \in {"key", "save"} => \A id \in Ids : id # arg["httpd"] => Same(id)
    /\ pc["httpd"] = "save" => key = Phys(arg["httpd"])
    /\ pc["httpd"] = "reload" => \A id \in Ids : Before(id) => Same(id)
    /\ pc["httpd"] \in {"zero", "clear"} =>
         \A id \in Ids : Before(id) => offset[id] = 0 /\ stored[id] = 0
    /\ pc["httpd"] = "clear" => offset[idx["httpd"]] = 0
    /\ pc["httpd"] \notin {"reload", "zero", "clear"} => idx["httpd"] = 1

(* With httpd alone, the renumbering, calibrating and resetting handlers     *)
(* bring offset[] and its NVS copy back together before they return.         *)
LEMMA TrimsInvariant == ASSUME Switchers \subseteq {"httpd"} PROVE Spec => []TrimsInv
<1> USE DEF Clients
<1>1. Init => TrimsInv
  <2> SUFFICES ASSUME Init PROVE TrimsInv
    OBVIOUS
  <2>1. \A id \in Ids : Same(id)
    BY PhysFacts DEF Init, Same, Phys
  <2> QED BY <2>1 DEF Init, TrimsInv
<1>2. TypeInv /\ TrimsInv /\ [Next]_vars => TrimsInv'
  <2> SUFFICES ASSUME TypeInv, TrimsInv, [Next]_vars PROVE TrimsInv'
    OBVIOUS
  <2> USE DEF numbering, nvs, commands, loop, handlers
  <2>1. CASE UNCHANGED << board, offset, stored, pc, arg, idx, key >>
    BY <2>1 DEF TrimsInv, Same, Before, Phys
  <2>2. ASSUME NEW b \in Boards, BoardCommand("httpd", b) PROVE TrimsInv'
    BY <2>2 DEF BoardCommand, Goto, TrimsInv, Same, Phys, TypeInv, TypeOK
  <2>3. ASSUME NEW id \in Calibrated, NEW d \in Trims, CalLoad(id, d) PROVE TrimsInv'
    BY <2>3 DEF CalLoad, Goto, TrimsInv, Same, Phys, TypeInv, TypeOK
  <2>4. CASE CalReset
    <3>1. \A id \in Ids : ~Before(id)'
      BY <2>4 DEF CalReset, Goto, TrimsInv, Before, Ids
    <3> QED BY <2>4, <3>1 DEF CalReset, Goto, TrimsInv, Same, Phys, TypeInv, TypeOK
  <2>5. CASE SetBoard("httpd")
    BY <2>5 DEF SetBoard, Goto, TrimsInv, TypeInv, TypeOK
  <2>6. CASE PutBoard("httpd")
    <3>1. \A id \in Ids : ~Before(id)'
      BY <2>6 DEF PutBoard, Goto, TrimsInv, Before, Ids
    <3> QED BY <2>6, <3>1 DEF PutBoard, Goto, TrimsInv, TypeInv, TypeOK
  <2>7. CASE Reload("httpd")
    <3>1. idx["httpd"] \in Ids /\ pc["httpd"] = "reload" /\ idx["httpd"] \in Nat
      BY <2>7 DEF Reload, Goto, TypeInv, TypeOK, Ids
    <3>2. \A id \in Ids : id <= idx["httpd"] => Same(id)'
      BY <2>7, <3>1, LegServos DEF Reload, TrimsInv, TypeInv, TypeOK, Same, Before, Phys, Ids
    <3>3. CASE idx["httpd"] = N
      <4>1. \A id \in Ids : Same(id)'
        BY <3>2, <3>3, LegServos DEF Ids
      <4>2. pc'["httpd"] = "idle" /\ idx'["httpd"] = 1 /\ pc'["console"] = "idle"
        BY <2>7, <3>3 DEF Reload, Goto, Count, TypeInv, TypeOK, TrimsInv
      <4> QED BY <4>1, <4>2 DEF TrimsInv
    <3>4. CASE idx["httpd"] # N
      <4>1. \A id \in Ids : Before(id)' => Same(id)'
        BY <2>7, <3>1, <3>2, <3>4 DEF Reload, Count, Before, TypeInv, TypeOK, Ids
      <4>2. pc'["httpd"] = "reload" /\ pc'["console"] = "idle"
        BY <2>7, <3>4 DEF Reload, Goto, TypeInv, TypeOK, TrimsInv
      <4> QED BY <4>1, <4>2 DEF TrimsInv
    <3> QED BY <3>3, <3>4
  <2>8. CASE CalStore
    BY <2>8 DEF CalStore, Goto, TrimsInv, Same, Phys, TypeInv, TypeOK
  <2>9. CASE CalKey
    BY <2>9 DEF CalKey, Goto, TrimsInv, Same, Phys, TypeInv, TypeOK
  <2>10. CASE CalSave
    <3>1. pc["httpd"] = "save" /\ arg["httpd"] \in Ids /\ board \in Boards
      BY <2>10 DEF CalSave, Goto, TypeInv, TypeOK, HandlersKnow
    <3>2. \A id \in Ids : Same(id)'
      <4> SUFFICES ASSUME NEW id \in Ids PROVE Same(id)'
        OBVIOUS
      <4>1. CASE id = arg["httpd"]
        BY <2>10, <3>1, <4>1, PhysFacts DEF CalSave, TrimsInv, Same, Phys, TypeInv, TypeOK
      <4>2. CASE id # arg["httpd"]
        <5>1. Phys(id) # Phys(arg["httpd"])
          BY <3>1, <4>2, PhysFacts DEF Phys
        <5> QED BY <2>10, <3>1, <4>2, <5>1 DEF CalSave, TrimsInv, Same, Phys, TypeInv, TypeOK
      <4> QED BY <4>1, <4>2
    <3> QED BY <2>10, <3>1, <3>2 DEF CalSave, Goto, TrimsInv, TypeInv, TypeOK
  <2>11. CASE ZeroOffset
    BY <2>11, LegServos DEF ZeroOffset, Goto, TrimsInv, Before, TypeInv, TypeOK
  <2>12. CASE ZeroStored
    <3>1. idx["httpd"] \in Ids /\ pc["httpd"] = "clear" /\ idx["httpd"] \in Nat
      BY <2>12 DEF ZeroStored, Goto, TypeInv, TypeOK, Ids
    <3>2. \A id \in Ids : id <= idx["httpd"] => offset'[id] = 0 /\ stored'[id] = 0
      BY <2>12, <3>1 DEF ZeroStored, TrimsInv, TypeInv, TypeOK, Before, Ids
    <3>3. CASE idx["httpd"] = N
      <4>1. \A id \in Ids : offset'[id] = 0 /\ stored'[id] = 0
        BY <3>2, <3>3, LegServos DEF Ids
      <4>2. \A id \in Ids : Same(id)'
        BY <2>12, <4>1, PhysFacts DEF ZeroStored, Same, Phys, TypeInv, TypeOK
      <4>3. pc'["httpd"] = "idle" /\ idx'["httpd"] = 1 /\ pc'["console"] = "idle"
        BY <2>12, <3>3 DEF ZeroStored, Goto, Count, TypeInv, TypeOK, TrimsInv
      <4> QED BY <4>2, <4>3 DEF TrimsInv
    <3>4. CASE idx["httpd"] # N
      <4>1. \A id \in Ids : Before(id)' => offset'[id] = 0 /\ stored'[id] = 0
        BY <2>12, <3>1, <3>2, <3>4 DEF ZeroStored, Count, Before, TypeInv, TypeOK, Ids
      <4>2. pc'["httpd"] = "zero" /\ pc'["console"] = "idle"
        BY <2>12, <3>4 DEF ZeroStored, Goto, TypeInv, TypeOK, TrimsInv
      <4> QED BY <4>1, <4>2 DEF TrimsInv
    <3> QED BY <3>3, <3>4
  <2>13. CASE PowerLoss
    <3>1. \A id \in Ids : Same(id)'
      BY <2>13 DEF PowerLoss, Boot, Same, Phys
    <3> QED BY <2>13, <3>1 DEF PowerLoss, Boot, TrimsInv
  <2>14. CASE Request
    <3>1. ASSUME NEW t \in Clients, CliToggle(t) PROVE TrimsInv'
      BY <2>1, <3>1 DEF CliToggle
    <3>2. ASSUME NEW t \in Switchers, NEW b \in Boards, BoardCommand(t, b) PROVE TrimsInv'
      BY <2>2, <3>2
    <3> QED BY <2>3, <2>4, <2>14, <3>1, <3>2 DEF Request
  <2>15. ASSUME NEW t \in Clients, Handle(t) PROVE TrimsInv'
    <3>1. CASE t = "httpd"
      BY <2>5, <2>6, <2>7, <2>8, <2>9, <2>10, <2>11, <2>12, <2>15, <3>1 DEF Handle
    <3>2. CASE t = "console"
      BY <2>15, <3>2 DEF Handle, SetBoard, PutBoard, Reload, Goto, TrimsInv
    <3> QED BY <3>1, <3>2
  <2>16. CASE Gait
    BY <2>1, <2>16 DEF Gait, LegsBegin, CentreBegin, WalkBegin, LegBegin, WalkLeg, Send,
                       LegWrite, BodyWrite, Flush, Rest
  <2>17. CASE UNCHANGED vars
    BY <2>1, <2>17 DEF vars
  <2> QED BY <2>13, <2>14, <2>15, <2>16, <2>17 DEF Next
<1> QED BY <1>1, <1>2, TypeInvariant, PTL DEF Spec

(* With httpd as the only client that switches variants, every offset at     *)
(* rest is the one stored for the servo it is added to.                      *)
THEOREM TrimsStayWithServos ==
    ASSUME Switchers \subseteq {"httpd"} PROVE Spec => []TrimsFollowServos
<1>1. TrimsInv => TrimsFollowServos
  BY DEF TrimsInv, TrimsFollowServos, Resting, Same, Clients
<1> QED BY <1>1, TrimsInvariant, PTL
==============================================================================

