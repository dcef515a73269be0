# Formal models of quinoa

quinoa is a set of Charm++ programs: `inciter` solves partial differential
equations on distributed tetrahedral meshes, `walker` integrates stochastic
differential equations for ensembles of particles, `rngtest` and `unittest` run
test batteries, `meshconv` and `fileconv` convert files. This directory models
the parts of it whose correctness depends on the order of asynchronous calls,
checks them with TLC on small instances and proves theorems about them with
TLAPS. Paths below are relative to `src/src/`.

## What Charm++ guarantees, and how it is modelled

All concurrency of quinoa is that of Charm++ entry methods, so the modules share
one set of rules.

- A call of an entry method on another chare, on a broadcast proxy or on
  `thisProxy` is a message. Messages arrive in any order, once each; a chare runs
  one entry method at a time to its end. In the models `msgs` is the set of calls
  in flight, and an entry method is one action with everything it calls directly.
- `ckLocal()` and `ckLocalBranch()` return a pointer: a call through it is part of
  the caller's action.
- `contribute()` counts for one reduction; the target runs after all elements have
  contributed. Contributions are matched by their place in the sequence of each
  element.
- `when a(), b()` of a `.ci` file needs the wait to be posted (itself by a message)
  and a buffered trigger of each kind; the body runs in the call that completes it.
- Liveness assumes that the scheduler delivers some message as long as there is one,
  which every Charm++ scheduler loop does. Nothing is assumed about which one.

Nothing in the modelled code persists state, retries, or times out, and Charm++
does not lose messages; there is no crash recovery to model.

## Inventory

| Component | State | Operations | Interacts with | Hard behaviour | What makes it correct |
|---|---|---|---|---|---|
| Transporter (`Inciter/Transporter.C`) | totals and statistics, posted waits | about 25 reduction targets, each the next phase | broadcasts to all arrays | the phases follow from reductions, some of several arrays at once | each phase starts after all chares finished what it reads |
| Partitioner (`Inciter/Partitioner.C`) | mesh chunk of the node, meshes of its chares, acknowledgements expected | partition, addMesh, recvMesh, refine | other nodes, Refiner | chunks arrive while the own are still distributed | all elements arrive once, at the node that creates the chare |
| Refiner (`Inciter/Refiner.C`) | mesh, edges with marks and locks, neighbours, round data | bndEdges, refine, addRefBndEdges, correctref, eval, reorder | Refiner neighbours, Sorter, schemes | rounds of messages until global agreement | edges shared by chares end with equal marks; the loop ends |
| Sorter (`Inciter/Sorter.C`) | node set, distributed table, communication map, new ids, queue of requests | setup, query, response, bnd, mask, offset, reorder, request, prepare, neworder, finish | Sorter neighbours, Transporter, Refiner | three crossing exchanges, a queue with two triggers, numbering on the fly | symmetric exact communication map; one distinct contiguous id per node; termination |
| Discretization (`Inciter/Discretization.C`) | mesh, volumes, communication map, time | vol, comvol, totalvol, resize, setdt, next | neighbours, Transporter | contributions before the own computation | volumes of shared nodes are complete and equal |
| DG (`Inciter/DG.C`) | boundary faces, ghosts, solution, stage | resizeComm, comfac, setupGhost, comGhost, adj, advance, comsol, comlim, solve, refine | neighbours, Refiner | ghost set-up repeated after refinement; stages overlap between neighbours | ghosts match the neighbours' elements; data of a stage is used in it |
| DiagCG, DistFCT (`Inciter/DiagCG.C`, `DistFCT.C`) | own and received contributions, counters | lhs, rhs, solve, aec, alw, lim, apply, update, refine, step | neighbours, Refiner | buffers filled by fast neighbours and reset by the owner | every contribution is counted once, in its step |
| ALECG (`Inciter/ALECG.C`) | as DiagCG | lhs, rhs, solve, advance, refine, step | neighbours, Refiner | as DiagCG | as DiagCG |
| AMR (`Inciter/AMR/`) | tetrahedra, edges with locks, parent and child ids | mark, lock, refine, derefine | Refiner | none (sequential) | refined mesh conforming, ids unique |
| Walker (`Walker/`) | moments and PDFs, partial sums, particles | registered, advance, accumulateOrd, accumulateCen, chareOrd, chareCen, estimate*, outStat, outPDF, evaluateTime | Distributor, Integrators, Collectors on each PE | reductions of several kinds overlap with the next computation | estimates are over all particles at one step, and used in the next |
| Load distribution and maps (`Base/LoadDistributor.C`, `LoadBalance/`) | none, placement of array elements | linearLoadDistributor, procNum, populateInitial, fixPEs | all arrays | integer division at its limits | nothing lost; each element created where it is looked for; no PE without work |
| RNGTest suite (`RNGTest/TestU01Suite.C`) | counters of answers | npval, names, evaluate, time | test chares | counters reused between rounds | each round complete before the next, end reached |
| Unit test suite (`UnitTest/TUTSuite.C`) | counters of results | spawngrp, evaluate | test chares, MPI runner | results of migrated chares arrive extra | ends at the last result |
| MeshWriter (`IO/MeshWriter.C`) | counters per node | write | schemes | external file formats | - |
| Statistics (`Statistics/`) | accumulators of moments and PDFs | accumulate* | Integrator | stale accumulators | part of Walker |
| Particles (`Particles/`) | particles, search state | track and exchange | itself | unused by other sources | - |
| Mesh, mesh conversion (`Mesh/`, `IO/MeshFactory.C`) | connectivity of a mesh and what is derived from it | genEsup ... genEsued, FaceData, renumber, remap, writeUnsMesh | meshconv, Inciter | none (sequential) | lists hold exactly what they are named for; the mesh written is the one read |
| Control, Main, DiffEq, PDE, other IO, RNG, Base | configuration, kernels, file formats, containers | sequential | called directly | arithmetic and text | not the subject of these models |

`PROJECT.json` lists the same components with the state of their models, and the
hazards of the code at the lines where they bite.

## Modules

| Module | Models |
|---|---|
| `Setup` | `Partitioner` from reading the mesh to inserting Refiner, the chain of `Transporter` that goes with it, then `Sorter` as an instance, with its `Next` as the last phase |
| `Sorter` | the chare array Sorter, with the reductions of Transporter between its phases and the call-back of Refiner |
| `Renumbering` | what the renumbering promises, without messages; `Sorter` implements it |
| `AMR` | `Inciter/AMR`: marks, locks, compatibility classes and refinement of a chunk of tetrahedra, as functions |
| `Refiner` | the rounds of messages in which Refiner chares agree on the edges to split, with `AMR` |
| `Charm` | messages, `when` waits and reductions for chare arrays bound to each other |
| `Discretization` | what all schemes share: volumes, step and mesh counters, field files, Transporter's targets, refinement as a new mesh |
| `DiagCG` | lumped-mass continuous Galerkin with `DistFCT`, on `Discretization` |
| `ALECG` | the ALE scheme, on `Discretization` |
| `DG` | discontinuous Galerkin: faces, ghosts, stages, on `Discretization` |
| `BulkSteps` | what time stepping promises, whatever the scheme; `DiagCG`, `ALECG` and `DG` implement it |
| `Walker` | Distributor, Integrator and Collector |
| `TimeSteps` | what a walker run promises; `Walker` implements it |
| `TestU01Suite`, `TUTSuite` | the harnesses of rngtest and unittest; `TestSuites` is either program |
| `LoadBalance` | linearLoadDistributor, LinearMap, UnsMeshMap |
| `DerivedData` | `Mesh/DerivedData.C`, `Around.h` and `Inciter/FaceData.C`: linked lists and faces |
| `MeshFactory` | a conversion by meshconv: surface generation, renumbering, writing (`IO/MeshFactory.C`, `Mesh/Reorder.C`), then deriving what `DerivedData` has |
| `SequentialParts` | one run of `LoadBalance` or of `MeshFactory` |
| `SorterInvariant`, `WalkerInvariant` | the inductive invariants of Sorter and Walker |
| `Exchange` | what is true of the contributions of one kind in the schemes that assemble fields at nodes |
| `StepsInvariant` | what is true of both of them, DiagCG and ALECG |
| `DiagCGInvariant`, `ALECGInvariant` | what is true of each besides |
| `DGInvariant` | what is true of DG |
| `DGMoves` | how DG goes from one configuration to the next, for the proofs |
| `SorterProofs`, `LoadBalanceProofs`, `WalkerProofs`, `DiagCGProofs`, `ALECGProofs`, `DGProofs` | theorems, see Proofs |
| `StepsProofs`, `StepsHandlers` | lemmas on the operations and the handlers that DiagCG and ALECG share |
| `MC...` | the instances for TLC |

Definitions whose comment starts with "Mutant of" are plausible bugs of the
definition they name. They are used by nothing; substituted for it they break the
property they are listed with in `PROJECT.json`, which shows that the property
depends on the code.

### Setup

`Partition`, `AddMesh`, `RecvMesh`, `Refine` are the entry methods of Partitioner,
`Load`, `Distributed`, `RefInserted`, `Refined` the targets of Transporter. A mesh is
a set of tetrahedra; coordinates and boundary data travel with them. `part` is the
assignment by Zoltan, one of `Partitions`; as a collective call of all ranks it is a
barrier, so `part` is set once. The meshes of the chares of each node (`chinpoel`), the
acknowledgements to come (`ndist`) and the check for chares without a
mesh, which ends the run with an error, are as in the code. `Sorting` is a step of
`Sorter`, here without reordering, with `nodeset` taken from what arrived.

Assumed of Charm++: the reduction `refined` completes only after `doneInserting()`
and after all inserted elements contributed.

### Sorter

A variable stands for the data member of the same name (without `m_`) in all
chares. `nodeset` is the set of node ids of the chunk, `chnode` the part of the
distributed table of the chare (its inverse `m_nodech` is the same relation),
`msum` the communication map, `reordcomm` the map of nodes lower chares number,
`newnodes` the new ids. `ginpoel` holds the set of ids the element connectivity
refers to, `refmesh` the same of Refiner. Coordinates, boundary faces and side sets
are renumbered by the same loop as the connectivity and are left out.

Entry methods are actions of the same name, capitalised. `mask()` is called by
`start()` and belongs to `Start`; `reorder()` to `Offset`, `prepare()` to `Request`
and `Wait4Prep`, whichever completes the wait; `finish()` and
`createDiscWorkers()` to whatever calls them. `Reduced(tag)` is a reduction target
of Transporter with its broadcast. Between `discinserted` and `createWorkers`
Transporter runs steps of Discretization that do not touch Sorter; they are left
out. Which nodes of the outer surface a chunk has is unknown to the model:
the action `Setup` chooses any set of its nodes that contains the shared ones.

The bins of the distributed table are modelled with their divisions and the clamp.
`Numberings` leaves the order of ids within a chare open, as the order of an
`unordered_set` is.

### Refiner and AMR

A mesh is a record: the tetrahedra ever made, those active, the lock of each edge,
the edges to refine. A node in the middle of an edge is a number computed from the
end points, so chares that split the same edge make the same node, as the hash of
global ids has it. `MarkRefinement` is `mark_refinement()` with its loop of at most
`AMR_MAX_ROUNDS`, `ClassOne`, ... the three compatibility classes with their
decisions and locks, `Round` one pass over the tetrahedra in the order of their ids,
`PerformRefinement` the refinement one to two, one to four, one to eight, two to eight
and four to eight.

In `Refiner`, `Start`, `BndEdges`, `AddBndEdges` build the map of shared edges;
`UniformRefine` and `ErrorRefine` mark the edges of a chare and send them;
`AddRefBndEdges`, `ComExtra`, `CorrectRef` and `Eval` are the rounds, `Reduction` the
targets of Transporter, with `Follows` choosing between another round and refinement
as the merged contribution says. Which edges have a large error is a choice of at
most `MaxTagged` active edges.

### Charm, Discretization and the schemes

`Charm` holds what is otherwise repeated: `msgs`, posted and buffered waits, the
sequence of contributions of each array element. `Needs` are the waits of the `.ci`
files. A posting is a message that may be overtaken; to keep state spaces small,
only the waits in `Late` are posted late, the others at once: a late posting delays a body as a
late call of its last trigger does, so it matters only where the handler that posts
a wait also triggers it.

Values are left out. A contribution to a mesh node is known by the chare, step and
mesh it was computed from; a field (`m_vol`, `m_rhs`, ...) and its communication
buffer (`m_volc`, `m_rhsc`, ...) is the set of contributions that went in. So a
contribution lost by a reset, added twice, or left over from another step shows in
the set (`SolutionComplete`, `AddedComplete`). All nodes two chares share behave the
same, so one set per chare and field is enough. A refinement is a reduction and a new
mesh on all chares; how they agree is the subject of `Refiner`.

In `DG` a ghost holds the chare, step, stage and mesh its data was computed in.
`bndFace`, `ghost` are the chares of the maps of that name, `exptGhost` the expected
local ids. What is in ghost data and limiters is left out.

### Walker

Time is in whole units, the size of a step is constant. A sum of particle values is
the bag of samples that went into it, a sample being an Integrator and the number
of steps its particles have made, for central moments also the moments they are
about: a sum is right exactly if the bag is. The parts of a sum that come from each
PE are kept apart (`NoSum`, `Plus`), as each is summed there. `Collect` is `chareOrd()` and
`chareCen()`, which the two differ in their target only. `groupContrib` and
`arrayContrib` are the sequences of contributions of Collectors and Integrators.
`PostWait`, `Run` are the waits of `distributor.ci`.

### LoadBalance, DerivedData, MeshFactory

Not protocols. A state of `LoadBalance` is a choice of arguments, and invariants
compare the functions with what they promise; only `UnsMeshMap::fixPEs` takes steps,
one for each PE it looks at. The degree of virtualization is a fraction; real
arithmetic is exact in the model. `DerivedData` has the loops of the code as folds
over vectors that start at 0, checked against set definitions of the same lists.
`MeshFactory` is a conversion step by step; the coordinates of a node are the id it
was read with, so that a wrong permutation shows.

## Runs

| Run | Instance | Shows |
|---|---|---|
| `setup` | 3 compute nodes, 8 tetrahedra, 4 chares, 5 assignments of which 2 leave a chare empty | Sorter starts from exactly the assigned meshes, or the run ends with an error; all orders of chunks, own stores and acknowledgements |
| `sorter` | 3 chares, 5 meshes, reordering | the inductive invariant, maps, ids, requests, reductions, the end, and the implementation of `Renumbering` |
| `refiner` | 2 chares sharing a face, up to 3 refinements, uniform and by error | agreement on edges, decisions that fit them, a conforming mesh, termination of the rounds |
| `diagcg` | 3 chares in a line, 2 steps, a refinement after each | contributions are complete and of their step and mesh, meshes agree, reductions in step, `BulkSteps` |
| `dg` | 3 chares in a line, 2 steps of 3 stages, a refinement after each | ghosts are of the stage and mesh they are used in, lookups succeed, stages in order, `BulkSteps` |
| `alecg` | 2 chares, 4 steps, refinement, load balancing, field output and diagnostics at different intervals | output files are readable, each end-of-step signal is given once, contributions complete, the end |
| `walker` | 3 Integrators on 2 PEs, 4 steps, the last one cut, three decks | estimates, their use, files, waits, `TimeSteps` |
| `test_suites` | 2 generators with 2 tests; serial, MPI and migrating groups | each harness ends once, after all results |
| `sequential_parts` | load up to 40 on up to 7 PEs, 11 degrees of virtualization; all meshes of up to 5 points in up to 3 elements on up to 3 PEs; some two thousand meshes of up to 3 tetrahedra, a ring, two parts, surfaces | nothing lost and when it divides by zero, elements where they are sought, no PE empty but for the known case; conversion, linked lists and faces right |
| `dg_corner`, `dg_ghost_ids`, `walker_pdf` | violations | see Findings |

Bounds. Three chares are the least number with a node that a chare neither owns nor
gets from its only neighbour, and with two requests in a queue; the five meshes of
`sorter` are those patterns, listed at `Triples`; two have ids for which `Bin` divides twice
and clamps. In the schemes, the outer two of
three chares in a line can be ahead of each other by as much as any two chares can:
they have a neighbour in common, not each other. Two steps with a refinement after
each have every succession of step and mesh; a mesh before and after one can overlap,
older ones cannot, which `MeshesAgree` confirms. Refiner needs two chares for every
message and three refinements for the cases that start from a refined tetrahedron.
Two PEs with two and one Integrators are the least with a partial sum and a
reduction over branches; the four steps include the first, an intermediate one with
and without PDFs, and a cut last one. Three compute nodes are the least where two
others send to a third while it stores its own. Messages, reductions and waits are
not bounded otherwise. `MaxTagged` bounds the edges tagged for their error, `NStep`
the time steps, `MaxLoad`, `MaxPe`, `MaxChare` the arguments of `LoadBalance`,
`MaxSize` the ids a chunk of Sorter may have.

Deadlock is checked in all passing runs whose system ends with an explicit step
(`Quiescent`, `Exit`); `SequentialParts` evaluates functions and has no step after
that.

Fairness. `FairSpec` is weak fairness of `Next`: the Charm++ scheduler delivers
something while there is something to deliver. In `Refiner` and `SequentialParts` the
same is written with the condition that a step is possible spelled out (`Work`,
`Going`), because evaluating ENABLED of those actions costs TLC as much as the
actions. It is used by `Completes`, `Ends`, `Converted` and by the liveness part of
the refinements.

## Findings

Shown by a run:

- `walker_pdf`: Integrators sum PDFs in the last step only if it is the last by time
  *and* by number (`Walker/Integrator.C:136`), the files are written if it is the last
  by either (`Walker/Distributor.C:360`), so PDFs of an earlier step are written.
- `dg_corner`: a chare that shares mesh nodes but no face with its neighbours never
  calls `adj()` (`Inciter/DG.C:664`), its map is never complete and the run stops.
- `dg_ghost_ids`: `m_exptGhost` is not cleared after a refinement
  (`Inciter/DG.C:879`); on the third mesh a ghost gets an id expected since the second,
  and a debug build aborts.

Met while modelling, and stated where the models depend on it, without a run:

- ALECG does not set the flag `refined` when it refines, as DiagCG and DG do
  (`Inciter/DiagCG.C:592`); `refine()` of these resets it for the next step, after the
  status line of the step may have read it.
- After a refinement `comfac()` of all neighbours can come before the own
  `resizeComm()` (`Inciter/DG.C:281`). A debug build then compares the faces received
  with an expected set that is not filled yet (`DG.C:331`), so the check shows nothing.
- A last walker step cut to end at the terminate time is not recognised by `outPDF()`,
  so no PDF is written in it; `Walker/distributor.ci:147` calls PDFs not due empty,
  they are those of an earlier step; `estimateOrdPDF` unpacks into them
  (`Distributor.C:289`), which is right only as Charm++ unpacks vectors.
- `UnsMeshMap` places an element on a PE that does not exist when points remain
  beyond the chunk of the last PE (`LoadBalance/UnsMeshMap.C:76`): five points on three
  PEs. `EveryPeHasElement` allows for it and states when it can happen.
- `linearLoadDistributor` divides by zero for less work than PEs and a
  virtualization below one (`Base/LoadDistributor.C:78`), exactly then, as
  `LoadDistributed` states.
- A Refiner that shares no edge contributes to `matched` where others contribute to
  `compatibility` (`Refiner.C:413`); reductions match by position.
- `m_addedTets` subtracts the previous number of tetrahedra from a parent id
  (`Refiner.C`, `newVolMesh`), which is meant for uniform refinement only.
- `intermediate_list` of AMR does not shrink when a tetrahedron goes from two to eight.
- Partitioner hands Zoltan element numbers local to a node as global ones
  (`Partitioner.C:149`).
- `MPIRunner::rungroup` of two MPI groups may run in different orders on two nodes.
- `renumber()` never ends on a mesh in several parts (`Mesh/Reorder.C:230`): `Converted`
  is stated for connected meshes and says so.
- `genEdsup`, `genInedel` and part of `genEsuel` index by position in a map that has no
  entry for some points (`Mesh/DerivedData.C:313`), and `genEsued` numbers edges in
  another order than `genInpoed`; only tests call them so. `genBelemTet` answers
  element 0 if there is no host.

## Proofs

Assumptions: `SorterAssumption`, `LoadBalanceAssumption`, `WalkerAssumption`,
`CharmAssumption` and `DiscretizationAssumption`, the ranges of the constants;
that the number of nodes is not below the number of chares follows from
each chunk having an element. `DiagCGAssumption` and `ALECGAssumption` give `Charm` the
waits of the `.ci` files and `Discretization` the fields of the scheme; `StepsAssumption`
is what both have in common, so that the lemmas about shared handlers are proved once. It
adds nothing to them, as a lemma of each scheme's proofs could derive it; TLC evaluates it
on the runs of both schemes. `DGAssumption` gives the ranges of the constants of DG and that
faces are shared mutually, between chares that share nodes; `DGDefines` gives `Charm` the waits
of `dg.ci` and `Discretization` the kinds of calls DG counts. Nothing is assumed of numbers of chares,
PEs, steps, of intervals, or of who shares nodes with whom but that it is mutual.

| Theorem | Statement |
|---|---|
| `SorterProofs!TypeCorrect` | `Spec => []TypeOK` |
| `SorterProofs!ExchangesRight` | `Spec => []Exchanges` |
| `SorterProofs!IdsAgreement` | `Spec => []IdsAgree` |
| `SorterProofs!Invariant` | `Spec => []Inv` |
| `SorterProofs!MapCorrect` | `Spec => []CommunicationMap` |
| `SorterProofs!AllServed` | `Spec => []RequestsServed` |
| `SorterProofs!OneContribution` | `Spec => []ContributesOnce` |
| `LoadBalanceProofs!WorkDistributed` | `Spec => []LoadDistributed` |
| `LoadBalanceProofs!CreatedWhereSought` | `Spec => []CreatedAtHome` |
| `LoadBalanceProofs!EveryPeServed` | `Spec => []EveryPeHasElement` |
| `WalkerProofs!WalkerInvHolds` | `Spec => []WalkerInv` |
| `WalkerProofs!CentralAboutAll` | `Spec => []CenAboutAll` |
| `WalkerProofs!AdvancedWithMoments` | `Spec => []MomentsOfLastStep` |
| `WalkerProofs!PdfsOfTheirStep` | `Spec => []PdfFile` |
| `WalkerProofs!WaitsOncePerStep` | `Spec => []WaitsMatch` |
| `WalkerProofs!TakesTheSteps` | `Spec => Promise!Init /\ [][Promise!Step]_(Promise!vars)` |
| `DiagCGProofs!DiagCGInvHolds` | `Spec => []Configured`, that is, `\E c : DiagCGInv(c)` always |
| `DiagCGProofs!UpdatesComplete` | `Spec => []SolutionComplete` |
| `DiagCGProofs!TypesOK` | `Spec => []TypeOK` |
| `DiagCGProofs!ContributionsFit` | `Spec => []MeshesAgree` |
| `DiagCGProofs!ReductionsMatch` | `Spec => []SameReductions` |
| `DiagCGProofs!SignalsMatch` | `Spec => []SignalsOnce` |
| `DiagCGProofs!OutputsReadable` | `Spec => []FilesReadable` |
| `DiagCGProofs!StepsTogether` | `Spec => ImplementsBulkSteps` |
| `ALECGProofs!ALECGInvHolds` | `Spec => []Configured`, that is, `\E c : ALECGInv(c)` always |
| `ALECGProofs!AdditionsComplete` | `Spec => AddedComplete`, an action property |
| `ALECGProofs!SignalsMatch` | `Spec => []SignalsOnce` |
| `ALECGProofs!OutputsReadable` | `Spec => []FilesReadable` |
| `ALECGProofs!ContributionsFit` | `Spec => []MeshesAgree` |
| `ALECGProofs!ReductionsMatch` | `Spec => []SameReductions` |
| `ALECGProofs!StepsTogether` | `Spec => ImplementsBulkSteps` |
| `DGProofs!DGInvHolds` | `Spec => []Configured`, that is, `\E c : DGInv(c)` always |
| `DGProofs!SendersKnown` | `Spec => []SenderKnown` |
| `DGProofs!UpdatesCurrent` | `Spec => []GhostsCurrent` |
| `DGProofs!StagesAdvance` | `Spec => StagesInOrder`, an action property |
| `DGProofs!StepsTogether` | `Spec => ImplementsBulkSteps` |

Those of Sorter hold for every number of chares, every set of meshes, both settings of
`Reorder` and every order of messages.

The type invariant is inductive as it stands. It says more than its name: `BinType`
shows that a node with any id up to the largest is filed at a chare of the array,
`Arguments` that all calls in flight are well-formed, `FinishType` and
`ReorderOwnType` that the two places that renumber keep to ids.

`IdsAgree`, `CommunicationMap`, `RequestsServed` are far from inductive: that an answer
carries the right id depends on who was asked, which depends on the communication
map being complete when `mask()` runs, which depends on all receipts having been
counted. `SorterInvariant!Inv` states what each step rests on. `Exchanges` has the
messages:

- `QueryReceipts`, `ResponseReceipts`: `m_nbnd` is the number of chares from which a
  receipt is still to come, a query and its receipt never both being on the way; so
  the reductions complete only when nothing is in flight.
- `Table`: until it is dropped, every shared node is still to be sent, in a query, or
  filed at the chare of its bin; so it is complete when the answers begin.
- `Map`: every shared node that has been answered for is in the map or in an answer
  in flight, and nothing else is; so the map is exact when `mask()` runs.
- `Offsets`: `m_reordcomm` of a chare that has started holds exactly the nodes a
  lower chare owns (is the lowest with), and `m_noffset` counts the chares whose
  number has arrived; so a chare numbers its nodes only after its own `start()`.
- `Requests`, `OwnersKnow`: requests and answers are about nodes the asked chare
  owns, and an id known or on its way is known to the owner.

What a chare knows when it hands over needs more:

- `Positive`: numbers announced are not negative, so no id is taken for unassigned.
- `Answers`: whoever serves requests has numbered all it owns, and answers hold an id
  for each node.
- `Awaiting`: a request is in one place, on its way, queued or answered, and the
  requester knows none of its ids until the answer is there; so the answers are
  counted right by the number of ids known.
- `Finished`: after the hand-over all ids are known and the map is in new ids.
- `Contributed`: `ContributesOnce`, strengthened by what `createWorkers` needs.

Each conjunct has lemmas `Init...` and `...Next`, the latter with a case for every
action. What an action leaves alone comes from `Footprint` (the kinds of calls it
makes and receives), `Untouched`, `Earlier` and `Later`. That a node has an owner is
the well-foundedness of the order of the chares (`LowestOwner`); counts of receipts
and offsets use the theorems about finite sets.

The theorems about load distribution are arithmetic: `DivFacts` and `DivAtLeast` are
what the solver needs of integer division by a variable, `ChunkBounds` bounds the size
of a unit between one and the load of a PE, `ChunkOfLittle` tells when it is zero for
less work than PEs. `RangesHold` is the invariant. `EveryPeServed` needs that a PE with the
most elements has two while another has none, which is the pigeonhole principle; `fixPEs`
then never empties the PE it takes from. The invariant `Placed` says this of meshes for
which the constructor stays within the PEs; for the others, `LeftOver` bounds the
points beyond the chunks of all PEs from below.

Walker. Every property is about sums that are on their way while other chares are
already in the next half of the step, so the invariant is a disjunction of phases:
`Starting` while Collectors and Integrators register, `Running(P, H, cen)` within a step,
`Skipping(P)` for decks without statistics, `Done` after the last step. P are the
Integrators that have done their part, H the estimates the Distributor has received,
cen tells whether central moments are being summed. In each phase the invariant says
exactly which contributions are in which accumulator, how long the sequences of
contributions are (four to a step, at `Position`), which triggers are buffered and which
calls are on their way. The theorems follow by what a phase says, `TakesTheSteps`
by a case for each action that touches the output: it leaves out only the fairness of
`TimeSteps`.

DiagCG and ALECG. `SolutionComplete` says that the last update used the right
contributions, `AddedComplete` that each addition of ALECG did. Chares
run ahead of each other: a neighbour may have reset its buffers, or be in the next stage,
the next step, or on the new mesh, and after a step diagnostics, the new mesh, its
left-hand side and its volumes go on side by side. No invariant over the variables alone
states this briefly. `StepsInv(c)` therefore speaks of a configuration c: the time step
(`round`), the stage of each chare in it, how far each is with diagnostics and with the new
mesh, and what all have done together (`mesh`). It is not part of the state; the theorem
is that every state has one. From c follow the senders and takers of each kind of
contributions, what these are about, and who has zeroed its buffer (`Senders`, `Takers`,
`About`, `Zeroed`). With them:

- `Stages`, `Diagnosing`, `Remeshing`, `Ahead`: which configurations occur; `Ahead` says
  that the neighbours of whoever is past an exchange have sent.
- `Exchanges`: for each kind, what is on its way is from a sender to a neighbour that
  still takes it; the counter of a chare is the number of neighbours whose contribution
  has arrived; its buffer, once zeroed, holds exactly those (`Exchange`). Each operation
  on an exchange is a lemma of `StepsProofs`: it starts, one more sends, one
  contribution is taken, it goes on, it ends.
- `Signalled`, `Ends`, `Waits`: a buffered trigger says what it is meant to say, and the
  waits posted are those of the stage.
- `Volumes`, `Counters`, `Outputs`: the volumes, the step and mesh of each chare, its last
  output.
- `Expects`, `Contributions`: the other calls on their way and the sequences of
  contributions to reductions are those c calls for; in particular no array has two
  reductions open that chares enter in different order.

`DiagCGInv` adds what the fields of DiagCG and `DistFCT` hold in each stage, `ALECGInv`
what was added to the left-hand side. DiagCG is the scheme with the longer step: ALECG goes
through the same stages without those of flux correction, and `StageOf`, `StepKind` and
`StepWait` say which a scheme has. So what the handlers both have (entry
methods of `Discretization`, targets of Transporter, the end of a step, the new mesh)
do to `StepsInv` is proved once, in `StepsHandlers`, for whatever fields a scheme has, and
`DiagCGProofs` and `ALECGProofs` add a lemma for each action that is the scheme's own. A
handler moves one part of c forward: the lemmas `Further...` say what stays true of an
exchange when senders or takers grow or shrink, `MakesStep` what ends a round of
contributions and starts the next.

The buffers of `DistFCT` are the delicate part: they are
zeroed by `next()` at the start of a step, and a faster neighbour's contribution may not
arrive before; that it cannot follows from `Ahead` and from the reduction `advance`
all chares enter before the next step.

`SignalsOnce` and `FilesReadable` need more that is true of both schemes: `Uncalled`, that
no one calls a trigger of the Transporter on a chare, and `Files`, that what is in the file
and on its way to it is what the counters of outputs (`itf`) and meshes (`itr`) say. The
theorem `AlwaysOrderly` (a lemma in either module) is that these hold; it uses the
configuration, since a chare writes at the start and at the end of a step and the call
back of the first write must not come after the second.

DG. A step of DG has three stages, and each stage is one for all chares: they exchange cells,
limited cells, and contribute to `solve`. A neighbour may be a stage ahead, its cells in flight
or buffered while the receiver is still limiting; after the last stage diagnostics, the
new mesh, its volumes and the ghosts on it go on side by side, so that chares are apart by a
whole step's end. `DGInv(c)` again speaks of a configuration c: the step (`it`), the stage
(`st`), what all chares have done together (`phase` within the stage, `mesh` on the
way to a new mesh, `disc`, `work`, `diagnosed`), and a point for each chare (`of`): how far it
is in the stage, with diagnostics, with its volumes and with its ghosts. The theorem
`DGInvHolds` is that every state has one.

- `Levels`: the points chares may be at, given what all have done together (`Fits`).
- `Traded`, for each kind of call that is counted (volumes, faces, requests, ghost data, initial
  cells, cells, limited cells): what is in flight is from a chare that has sent (`Senders`)
  and carries its step, stage and mesh (`Letter`); the counter is the number of those
  that have arrived, zero once all have; whoever has gone on has heard from all.
- `Signalled`: a trigger is buffered only when what it says is the case, and only once.
- `Maps`: faces, ghost data and ghosts of a chare are those of the chares it has heard from
  on this mesh. That `reqGhost` and `comGhost` come in any order, before or after the own
  `resizeComm()`, is here.
- `Ghosts`: the cells held of a chare that has been heard from are of this stage, and of
  no other, also when they came before the own stage started.
- `Updated`: the last update used exactly those.
- `Contribution`, `Expects`, `HostSignals`: open reductions, calls to entry methods and the
  triggers of the Transporter.

The lemmas go from the general to the particular: what a step of the runtime does to
triggers, contributions and calls (`Acts`, `Reduces` in `DGMoves`); what stays true of an
exchange when one more chare sends, one call is taken, or all go on (`Keeps`, `Trades`);
what of each conjunct of `Local` a chare keeps that another moves past; then a lemma for each
entry method, body of a wait and reduction target, which names the next configuration and
shows `DGInv` of it; last `NextConfigured`. `SendersKnown`, `UpdatesCurrent` follow by what a
configuration says. `StagesAdvance` and `StepsTogether` look at the few actions that touch
`used`, `it`, `itr` and `finished` and use the configuration before the step.
`DGProofs` does not use `StepsProofs`: DG's exchanges carry no buffer that is zeroed, but
tags, maps that are moved away and filled again.

Two proofs, of `SorterProofs!LowestOwner` and `LoadBalanceProofs!EveryPeServed`, use
the least element of a set or the theorems about finite sets where an induction over
data would be natural.

Only model-checked: `Refiner`, `Setup`, the mesh algorithms; that ids of
Sorter are distinct and contiguous (through `ImplementsRenumbering`), which needs sums
over chares and hence induction over data; all liveness, with it the liveness part of
`ImplementsRenumbering` and `ImplementsTimeSteps`. `FacesFit` and `ListsExact` compare
folds over a mesh with a set definition, which needs induction over the mesh; so do
`Conforming` and `EdgesAgree`, which rest on the fixed point that the marking of `AMR`
iterates to.
`WholeMesh` reaches `Sorter` through an instance with the number of points as its parameter, and the
prover hides the theorems of a parametric instance, so those proved of Sorter cannot be
cited there.

## Plan

Done: `Sorter` with `Renumbering` and its proofs; `Walker` with `TimeSteps` and its
proofs; `LoadBalance` with proofs; `Setup`; `Refiner` with `AMR`; `Discretization`,
`DiagCG`, `ALECG`, `DG` with `BulkSteps`; the proofs of `DiagCG`, `ALECG` and `DG`; `TestSuites`;
`MeshFactory` with `DerivedData`.

Left, in this order:

1. Theorems of the parts of `WholeMesh` in `Setup` that need nothing of Sorter.
2. `Refiner` during time stepping: the transfer of a refined mesh to the schemes
   (`newVolMesh`, boundary faces and nodes), now only a new mesh.
3. Four chares with a corner shared by two that have no common neighbour.
4. Distinctness of ids in Sorter as a theorem, by sums of the announced numbers.

## Not modelled

Floating-point kernels (DiffEq, PDE, FluxCorrector, Statistics' arithmetic), text
processing (Control), file formats (most of IO), containers and wrappers of external
libraries (RNG, Zoltan), command lines and main chares: what could go wrong there is
arithmetic or text, which TLC cannot enumerate, or lies outside `src/`. These are the
larger part of the repository's lines, so the models cover the coordination of the
programs rather than a share of their lines. Particles is not used by any other
source of this commit; neither is derefinement in AMR. Diagnostics are merged by sums
and maxima, without order. Migration of chares by load balancing is not modelled; it
moves a chare with its state between two entry methods and is invisible to the others.
The initial `Discretization::setRefiner` is left out: Refiner calls it before the
reduction that all later calls come after.
