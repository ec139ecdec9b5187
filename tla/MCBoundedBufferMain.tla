------------------------ MODULE MCBoundedBufferMain ------------------------
(* The numbers of threads and items for TLC: fewer slots than items, more  *)
(* items than any consumer takes alone.                                    *)
EXTENDS BoundedBufferMain

MCProducers == 0 .. kProducers - 1
MCItems == MCProducers \X (0 .. kItemsPerProducer - 1)
=============================================================================
