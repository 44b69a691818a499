----------------------------- MODULE MCLongPoll -----------------------------
EXTENDS LongPollInv

CONSTANTS restart, flags
MCVirtualTypes == {restart, flags}
MCLiveVirtualTypes == {restart}
=============================================================================
