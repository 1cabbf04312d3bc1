------------------------------ MODULE MCFrames -------------------------------
(***************************************************************************)
(* How a frame gets to the engine, and what the engine and the detectors   *)
(* make of it: two parts that share nothing but the frame.  A behaviour    *)
(* belongs to one of them, chosen at the start; the other rests.           *)
(*                                                                         *)
(* Transport: one camera.  The others of its group only matter to it by    *)
(* the pointers whose segment is gone, and its own can be that too.        *)
(***************************************************************************)
EXTENDS FrameTransport, FramePipeline

VARIABLE part

framesVars == <<vars, pipelineVars, part>>

FramesInit ==
  /\ part \in {"transport", "pipeline"}
  /\ Init /\ PipelineInit
  /\ part = "transport" => setup = CHOOSE s \in Setup : TRUE

FramesNext ==
  /\ UNCHANGED part
  /\ \/ part = "transport" /\ Next /\ UNCHANGED pipelineVars
     \/ part = "pipeline" /\ PipelineNext /\ UNCHANGED vars

\* The engine is down and no worker runs while the transport rests.
FramesSpec == FramesInit /\ [][FramesNext]_framesVars /\ Fairness

\* A frame of 100 x 100 pixels.  Ann and Bob stand apart, Dan overlaps both; Cat is
\* small and leaves the frame.
Frontal == [nose |-> 90, leye |-> 80, reye |-> 0]
Averted == [nose |-> 20, leye |-> 80, reye |-> 80]
Items(helmet) == [g \in Gear |-> IF g = "helmet" THEN helmet ELSE <<>>]

Ann == [id |-> 1, box |-> <<0, 0, 60, 90>>, pose |-> Frontal, sharp |-> TRUE, norm |-> 90,
        raises |-> FALSE, gear |-> Items(<<[box |-> <<0, 0, 20, 20>>, conf |-> 40],
                                           [box |-> <<1, 0, 21, 20>>, conf |-> 70]>>)]
Bob == [id |-> 2, box |-> <<40, 10, 100, 100>>, pose |-> None, sharp |-> TRUE, norm |-> 80,
        raises |-> FALSE, gear |-> Items(<<[box |-> <<0, 0, 20, 20>>, conf |-> 30]>>)]
Cat == [id |-> 3, box |-> <<-10, -20, 20, 30>>, pose |-> Averted, sharp |-> TRUE, norm |-> 70,
        raises |-> FALSE, gear |-> Items(<<>>)]
Dan == [id |-> 4, box |-> <<30, 0, 90, 80>>, pose |-> Frontal, sharp |-> FALSE, norm |-> 60,
        raises |-> TRUE, gear |-> Items(<<>>)]

\* Two faces, one at the border, and a small one that hides the first from SCRFD.
Net == {"scrfd", "yolo_face", "insightface"}
Face(label, box, conf, seen, aligns) ==
  [name |-> label, box |-> box, conf |-> conf, seen |-> seen, aligns |-> aligns,
   sharp |-> TRUE, norm |-> 95, arcface |-> label # "f3"]

MCFace ==
  {Face("f1", <<10, 5, 55, 50>>, 90, Net, TRUE), Face("f2", <<40, 20, 85, 65>>, 80, Net, TRUE),
   Face("f3", <<-5, 10, 38, 52>>, 70, {"scrfd", "insightface"}, FALSE),
   Face("f4", <<12, 8, 48, 40>>, 95, {"scrfd", "yolo_face"}, TRUE)}

UpToTwo(S) == {<<>>} \cup {<<x>> : x \in S} \cup {<<x, y>> : x \in S, y \in S}

MCShot ==
  {raw \in [tracked : {TRUE}, people : UpToTwo({Ann, Bob, Cat, Dan}), faces : UpToTwo(MCFace),
            score : {None, 80}] :
     /\ Len(raw.people) = 2 => raw.people[1] # raw.people[2]
     /\ Len(raw.faces) = 2 => raw.faces[1] # raw.faces[2]}
  \cup {[tracked |-> FALSE, people |-> <<Ann>>, faces |-> <<>>, score |-> 80]}

Row(type, config, class) == [type |-> type, enabled |-> TRUE, config |-> config, class |-> class]
GoodRows == <<Row("PPE_VIOLATION", "null", "detector"), Row("UNKNOWN_PERSON", "object", "detector")>>
OddRows ==
  <<Row("VIOLENCE", "garbage", "detector"), Row("LOITERING", "null", "raises"),
    [Row("PERSON_LOST", "null", "detector") EXCEPT !.enabled = FALSE],
    Row("PPE_VIOLATION", "object", "detector")>>

Everything == {"scrfd_kps", "yolo_face", "insightface", "adaface", "transreid", "osnet", "ppe", "violence"}

MCSetup ==
  {[files |-> Everything, broken |-> {}, rows |-> GoodRows],
   [files |-> Everything \ {"ppe"}, broken |-> {"scrfd_kps"}, rows |-> OddRows],
   [files |-> {"scrfd", "adaface", "osnet", "ppe"}, broken |-> {"osnet"}, rows |-> OddRows],
   [files |-> {"insightface", "ppe", "violence"}, broken |-> {"ppe"}, rows |-> GoodRows],
   [files |-> {}, broken |-> {}, rows |-> <<>>]}

Entry(cam, id, gid, person, seen) ==
  [cam |-> cam, id |-> id, gid |-> gid, person |-> person, seen |-> seen]
Nowhere == [frame |-> None, entries |-> <<>>, zones |-> <<>>, threshold |-> <<>>,
            entered |-> <<>>, now |-> 9]

MCView ==
  {Nowhere,
   [Nowhere EXCEPT !.entries = <<Entry("c1", 1, "g1", "ann", 8), Entry("c2", 1, "g2", None, 2)>>],
   [Nowhere EXCEPT !.entries = <<Entry("c2", 3, "g1", None, 3), Entry("c1", 2, "g1", None, 8)>>,
                   !.zones = <<<<"g1", "z1">>>>, !.threshold = [z \in {"z1"} |-> 5],
                   !.entered = [p \in {<<"g1", "z1">>} |-> 3]]}
=============================================================================
