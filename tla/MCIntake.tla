------------------------------ MODULE MCIntake ------------------------------
EXTENDS Intake

Native(level, fields) ==
    [via |-> "native", level |-> level, iov |-> Append(fields, <<"PRIORITY", "=", Digits[level + 1]>>)]

MCNames == {"MESSAGE", "PRIORITY", "SYSLOG_IDENTIFIER", "X"}
MCMessages ==
    { [via |-> "native", level |-> 3, iov |-> JournalPrintv(3, <<"a", "nl", "X", "=", "b">>)],
      Native(7, <<<<"MESSAGE", "=", "c">>, <<"_PID", "=", "nl", "1">>>>),
      Native(6, <<<<"MESSAGE", "=", "a", "=", "b">>, <<"X", "=", "nl">>, <<"_UID", "=", "0">>>>),
      [via |-> "syslog", priority |-> 13, word |-> <<"w", "[">>, pid |-> <<"1">>,
       text |-> <<"a", ":", " ", "b">>],
      [via |-> "syslog", priority |-> 191, word |-> <<"w", "]">>, pid |-> <<>>, text |-> <<"c">>] }

MCScopes ==
    { [printk |-> 4, kills |-> 1, stops |-> 2, faults |-> 1, sends |-> 0],
      [printk |-> 1, kills |-> 1, stops |-> 1, faults |-> 0, sends |-> 3],
      [printk |-> 3, kills |-> 0, stops |-> 1, faults |-> 0, sends |-> 2] }
=============================================================================
