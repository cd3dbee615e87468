------------------- MODULE MCRealtimeSubscriptions -------------------
EXTENDS RealtimeSubscriptions

CONSTANTS k1, k2, tick, bidask

MCTargets == {<<k1, {tick, bidask}>>, <<k1, {tick}>>}
MCWatched == {{k1, k2}, {k1}, {k2}}
=============================================================================
