-------------------------- MODULE SequentialParts --------------------------
(***************************************************************************)
(* The parts of quinoa that exchange no messages: load distribution and    *)
(* array maps (LoadBalance), or a mesh that meshconv converts (MeshFactory *)
(* with DerivedData).  A behaviour is one run of one of them.              *)
(***************************************************************************)
EXTENDS LoadBalance

CONSTANT Meshes
VARIABLES
  stage, file, inpoel, tri, x, map, counted, hpoin, num, esup, psup, esuel, derived

Convert == INSTANCE MeshFactory

meshVars ==
  <<stage, file, inpoel, tri, x, map, counted, hpoin, num, esup, psup, esuel, derived>>
allVars == <<vars, meshVars>>

\* No work to place.
NoLoad ==
  /\ npe = 1 /\ load = 0 /\ virt = 0
  /\ point = <<>> /\ pe = <<>> /\ nkind = {} /\ next = 0

PartsInit == (Init /\ Convert!NoMesh) \/ (NoLoad /\ Convert!MeshInit)

Place == FixPEs /\ UNCHANGED meshVars
ConvertMesh == Convert!MeshNext /\ UNCHANGED vars

PartsSpec == PartsInit /\ [][Place \/ ConvertMesh]_allVars

\* A conversion can go on: it is not over, and not in a loop that changes nothing.
Going ==
  /\ stage \notin {"none", "derived"}
  /\ ~(stage = "renumber" /\ hpoin = <<>> /\ num < Cardinality(DOMAIN x))

\* A sequential program goes on: WF_allVars(ConvertMesh), without ENABLED.
FairSpec == PartsSpec /\ ([]<>~Going \/ []<><<ConvertMesh>>_allVars)

-----------------------------------------------------------------------------
\* meshconv writes the mesh it read, whether it reorders nodes or not, if the mesh is
\* connected; otherwise renumber() never ends (MeshFactory.C, Reorder.C).
Converted == Convert!Converted

\* The faces of a chare fit its elements (DerivedData.C, FaceData.C).
FacesFit == Convert!FacesFit

\* The linked lists hold what they are named for (DerivedData.C).
ListsExact == Convert!ListsExact
=============================================================================
