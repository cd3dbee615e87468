--------------------------- MODULE MCDataMonitoring ---------------------------
EXTENDS DataMonitoring

CONSTANTS m1

MCRuns == {<<"DAILY_PRICES", "TWSE">>}
=============================================================================
