\* Three customers, one waiting chair and the barber's chair (a line of
\* two), up to nine visits; q_poll reads the freed node correctly.
CONSTANTS
    NumCustomers = 3
    WaitChairs = 1
    BarberChairs = 1
    MaxTotal = 9
    FreedRead = FALSE
SPECIFICATION FairSpec
\* The run ends once MaxTotal visits were made, or when the process dies.
CHECK_DEADLOCK FALSE
PROPERTY EveryCustomerLeaves
