-------------------------------- MODULE MCShare --------------------------------
(* ShareJobs with one user's video on one platform.                        *)
EXTENDS ShareJobs, TLC

CONSTANTS w1, w2, r1

MCWorker == {w1, w2}
MCRecord == {r1}

(* A request that names the platform, and one that names it twice.         *)
MCRequest == {<<r1>>, <<r1, r1>>}

(* Workers are interchangeable, and no property is about liveness.         *)
MCSymmetry == Permutations(MCWorker)
===============================================================================
