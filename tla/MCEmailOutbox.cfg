SPECIFICATION MailSpec
CONSTANTS
  s1 = s1
  s2 = s2
  ann = ann
  Senders <- TwoSenders
  Recipients <- MCRecipients
  NumMails = 2
  UserOf <- MCUserOf
  MaxKills = 1
  MaxConsents = 2

INVARIANTS
    AtMostOnce
    LateMailWasChecked
PROPERTIES
    OutcomeIsFinal
