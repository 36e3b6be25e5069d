---------------------------- MODULE MCTicketSync ----------------------------
EXTENDS TicketSync, TLC

CONSTANTS t1, t2, stream, hourly

Tickets == Permutations(Ticket)
=============================================================================
