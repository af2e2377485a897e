SPECIFICATION MailSpec
CONSTANTS
  s1 = s1
  s2 = s2
  ann = ann
  Senders <- OneSender
  Recipients <- MCRecipients
  NumMails = 1
  UserOf <- MCUserOf
  MaxKills = 0
  MaxConsents = 1
INVARIANTS SentWasAccepted
